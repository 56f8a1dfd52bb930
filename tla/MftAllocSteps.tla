---------------------------- MODULE MftAllocSteps ----------------------------
(***************************************************************************)
(* For any number of tasks and any sizes of records, clusters and the      *)
(* bitmap: a record that was allocated belongs to one user, the search for *)
(* a free record gives up only when there is none, the sizes of $MFT and   *)
(* its bitmap stay consistent or the volume is marked, and no reference is *)
(* given out twice.                                                        *)
(***************************************************************************)
EXTENDS MftAlloc, TLAPS

Places == {"idle", "full", "bmpalloc", "bmpinit", "setbit", "have", "extend", "format",
           "undoinit", "oops", "prepare", "clearbit"}

(* The places where a task has mftbmp_lock, where it forms new records,    *)
(* and where it owns the bit it has set or is about to clear.              *)
UnderLock == {"full", "bmpalloc", "bmpinit", "setbit", "have", "extend", "format",
              "undoinit", "oops"}
Forming == {"format", "undoinit"}
Owning == {"have", "extend", "format", "undoinit", "oops", "prepare", "clearbit"}

Attributes == {"bmp", "mft"}
Locals == [bit : Records, ext : BOOLEAN, formatted : BOOLEAN, init : Nat, data : Nat]
References == [r : Records, seq : Nat, ext : BOOLEAN]

Types ==
  /\ lock \in Tasks \cup {NoTask}
  /\ sz \in [Attributes -> [init : Nat, data : Nat, alloc : Nat, rl : Nat]]
  /\ at \in [Attributes -> [init : Nat, data : Nat, alloc : Nat, map : Nat]]
  /\ used \in Nat
  /\ mem \in [Records -> [use : BOOLEAN, seq : Nat, dirty : BOOLEAN]]
  /\ disk \in [Records -> [use : BOOLEAN, seq : Nat]]
  /\ dataPos \in Nat
  /\ live \subseteq References /\ issued \subseteq Records \X Nat
  /\ frees \in Nat /\ errors \in BOOLEAN
  /\ pc \in [Tasks -> Places] /\ loc \in [Tasks -> Locals]

(* The bitmap ends with a byte, and has a bit for every record.            *)
InOrder ==
  /\ \E n \in Nat : sz["bmp"].init = ByteBits * n
  /\ Reserved <= sz["mft"].init /\ sz["mft"].init <= sz["bmp"].init
  /\ sz["mft"].alloc <= Limit
  /\ \A x \in Attributes : sz[x].init <= sz[x].data /\ sz[x].data <= sz[x].alloc

(* Record r is initialized, and stays so if the records that are being     *)
(* formed are given up.                                                    *)
Below(r) ==
  /\ r < sz["mft"].init
  /\ \A u \in Tasks : pc[u] \in Forming => r < loc[u].init

(* What a task knows at its place.                                         *)
Placed(t) ==
  /\ pc[t] \in UnderLock => lock = t
  /\ pc[t] \notin {"prepare", "clearbit"} => ~loc[t].formatted
  /\ pc[t] \in {"bmpalloc", "bmpinit"} => loc[t].bit = sz["bmp"].init
  /\ pc[t] = "bmpinit" => sz["bmp"].init + BmpStep <= sz["bmp"].alloc
  /\ pc[t] = "setbit" => sz["mft"].init <= loc[t].bit
  /\ pc[t] \in {"setbit", "have", "extend"} \cup Forming => loc[t].bit < sz["bmp"].init
  /\ pc[t] \in Forming =>
       /\ loc[t].bit < sz["mft"].alloc /\ loc[t].init <= loc[t].bit
       /\ Reserved <= loc[t].init /\ loc[t].init <= sz["mft"].init
       /\ loc[t].init <= loc[t].data /\ loc[t].data <= sz["mft"].alloc
  /\ pc[t] = "prepare" \/ (pc[t] = "clearbit" /\ lock # t) => Below(loc[t].bit)

(* The bit of a task is set, and nobody else has its record.               *)
Owned(t) ==
  pc[t] \in Owning =>
    /\ loc[t].bit \in bmp /\ loc[t].bit >= Reserved
    /\ \A x \in live : x.r # loc[t].bit
    /\ \A u \in Tasks \ {t} : pc[u] \in Owning => loc[u].bit # loc[t].bit

(* A record that was given out is initialized; one in use is so in memory, *)
(* and on disk unless it is still to be written.                           *)
Given ==
  /\ \A i \in issued : Below(i[1])
  /\ \A x \in live :
       /\ <<x.r, x.seq>> \in issued
       /\ x.r \in bmp /\ x.r >= Reserved
       /\ mem[x.r].use /\ mem[x.r].seq = x.seq
       /\ ~mem[x.r].dirty => disk[x.r].use /\ disk[x.r].seq = x.seq
       /\ \A y \in live : y.r = x.r => y = x

(* Unless the volume is marked or a task died: the attribute records agree *)
(* with the sizes in memory or, while records are formed, with the sizes   *)
(* to which the task would go back.                                        *)
SizesAgree ==
  ~errors /\ (\A t \in Tasks : pc[t] # "oops") =>
    /\ Agree("bmp")
    /\ sz["mft"].alloc = at["mft"].alloc /\ sz["mft"].rl = at["mft"].map
    /\ sz["mft"].alloc = sz["mft"].rl * MftCluster
    /\ used = sz["bmp"].rl + sz["mft"].rl
    /\ \A t \in Tasks : pc[t] \in Forming =>
         at["mft"].init = loc[t].init /\ at["mft"].data = loc[t].data
    /\ (\A t \in Tasks : pc[t] \notin Forming) =>
         at["mft"].init = sz["mft"].init /\ at["mft"].data = sz["mft"].data

AllocInv ==
  /\ Types /\ InOrder /\ \A t \in Tasks : Placed(t) /\ Owned(t)
  /\ Given /\ SizesAgree /\ FullIsFull


-----------------------------------------------------------------------------
(* Division, and what can be said of multiples.                            *)
LEMMA Divided ==
  ASSUME NEW n \in Int, NEW unit \in Nat \ {0}
  PROVE  /\ n \div unit \in Int
         /\ unit * (n \div unit) <= n /\ n < unit * (n \div unit) + unit
<1>1. n \div unit \in Int
  OBVIOUS
<1>2. unit * (n \div unit) <= n
  BY <1>1
<1>3. n < unit * (n \div unit) + unit
  BY <1>1
<1> QED
  BY <1>1, <1>2, <1>3

(* A number without a remainder is a multiple.                             *)
LEMMA Multiple ==
  ASSUME NEW n \in Nat, NEW unit \in Nat \ {0}, n % unit = 0
  PROVE  \E k \in Nat : n = unit * k
OBVIOUS

(* Multiples are ordered as their factors.                                 *)
LEMMA TimesMonotone ==
  ASSUME NEW a \in Int, NEW b \in Int, NEW unit \in Nat \ {0}
  PROVE  (a <= b => unit * a <= unit * b) /\ (unit * a < unit * b => a < b)
<1>1. a <= b => unit * a <= unit * b
  OBVIOUS
<1>2. unit * a \in Int /\ unit * b \in Int
  OBVIOUS
<1>3. unit * a < unit * b => a < b
  <2>1. ~(a < b) => unit * b <= unit * a
    OBVIOUS
  <2> QED BY <2>1, <1>2
<1> QED
  BY <1>1, <1>3

(* Rounding up to whole units.                                             *)
LEMMA RoundedUp ==
  ASSUME NEW n \in Nat, NEW unit \in Nat \ {0}
  PROVE  /\ RoundUp(n, unit) \in Nat
         /\ n <= unit * RoundUp(n, unit) /\ unit * RoundUp(n, unit) < n + unit
<1> DEFINE m == n + unit - 1  q == m \div unit
<1>1. m \in Nat
  OBVIOUS
<1>2. q \in Int /\ unit * q <= m /\ m < unit * q + unit
  BY <1>1, Divided
<1>3. q \in Nat
  <2>1. unit * q + unit > 0 /\ unit * (q + 1) = unit * q + unit
    BY <1>1, <1>2
  <2>2. q + 1 > 0
    BY <2>1, <1>2
  <2> QED BY <2>2, <1>2
<1>4. n <= unit * q /\ unit * q < n + unit
  BY <1>2
<1> QED
  BY <1>3, <1>4 DEF RoundUp

(* The larger and the smaller of two numbers.                              *)
LEMMA OfTwo ==
  ASSUME NEW a \in Nat, NEW b \in Nat
  PROVE  /\ Max({a, b}) = IF a >= b THEN a ELSE b
         /\ Min({a, b}) = IF a <= b THEN a ELSE b
<1>1. Max({a, b}) = IF a >= b THEN a ELSE b
  BY DEF Max
<1>2. Min({a, b}) = IF a <= b THEN a ELSE b
  BY DEF Min
<1> QED
  BY <1>1, <1>2

(* The constants.                                                          *)
LEMMA Sizes ==
  /\ ByteBits \in Nat \ {0} /\ BmpStep \in Nat \ {0} /\ BmpCluster \in Nat \ {0}
  /\ MftCluster \in Nat \ {0} /\ Chunk \in Nat \ {0}
  /\ Reserved \in Nat /\ Limit \in Nat /\ Clusters \in Nat /\ MaxFrees \in Nat
BY MftAllocAssumption

(* No byte of the bitmap lies on both sides of the limit.                  *)
LEMMA LimitEndsByte == \E n \in Nat : Limit <= ByteBits * n /\ ByteBits * n <= Limit + 1
<1>1. CASE Limit % ByteBits = 0
  <2>1. PICK n \in Nat : Limit = ByteBits * n
    BY <1>1, Sizes, Multiple, Zenon
  <2> QED BY <2>1, Sizes
<1>2. CASE Limit % ByteBits = ByteBits - 1
  <2>1. PICK q \in Int : Limit = ByteBits * q + (ByteBits - 1)
    BY <1>2, Sizes
  <2>2. ByteBits * (q + 1) = Limit + 1 /\ q + 1 \in Int
    BY <2>1, Sizes
  <2>3. q + 1 \in Nat
    <3>1. ByteBits * 0 < ByteBits * (q + 1)
      BY <2>2, Sizes
    <3>2. 0 < q + 1
      BY <2>2, <3>1, Sizes, TimesMonotone
    <3> QED BY <2>2, <3>2
  <2>4. Limit <= Limit + 1 /\ Limit + 1 <= Limit + 1
    BY Sizes
  <2> QED BY <2>2, <2>3, <2>4, Zenon
<1> QED
  BY <1>1, <1>2, MftAllocAssumption

(* A set of numbers has a least one: LeastOf says what Min returns.        *)
LeastOf == \A S \in SUBSET Nat : S # {} => Min(S) \in S /\ \A n \in S : Min(S) <= n

-----------------------------------------------------------------------------
(* The search *)

(* The clear bits of a byte are in the byte.                               *)
LEMMA ClearBits ==
  ASSUME LeastOf, NEW k \in Nat, Clear(k) # {}
  PROVE  /\ Min(Clear(k)) \in Clear(k) /\ \A b \in Clear(k) : Min(Clear(k)) <= b
         /\ Min(Clear(k)) \in Nat /\ Min(Clear(k)) \notin bmp
         /\ ByteBits * k <= Min(Clear(k)) /\ Min(Clear(k)) < ByteBits * k + ByteBits
<1>1. \A b \in Clear(k) : b \in Nat /\ b \notin bmp /\ ByteBits * k <= b
      /\ b < ByteBits * k + ByteBits
  BY Sizes DEF Clear
<1>2. Clear(k) \in SUBSET Nat
  BY <1>1
<1>3. Min(Clear(k)) \in Clear(k) /\ \A b \in Clear(k) : Min(Clear(k)) <= b
  BY <1>2, Zenon DEF LeastOf
<1> QED
  BY <1>1, <1>3, Zenon

(* A bit that is found is clear, not below the start, and within the       *)
(* bitmap and the limit, although it may be beyond the end of the search.  *)
LEMMA HitsAreClear ==
  ASSUME LeastOf, Types, InOrder, NEW from \in Nat, NEW to \in Nat,
         to <= sz["bmp"].init, to <= Limit, NEW b \in Hits(from, to)
  PROVE  b \in Records /\ b \notin bmp /\ b >= from /\ b < sz["bmp"].init
<1> USE Sizes
<1> DEFINE first == from \div ByteBits  last == (to - 1) \div ByteBits
<1>1. PICK k \in first .. last : /\ Clear(k) # {} /\ b = Min(Clear(k))
                                 /\ k = first => b >= from
  BY Zenon DEF Hits
<1>2. /\ first \in Int /\ ByteBits * first <= from /\ from < ByteBits * first + ByteBits
      /\ last \in Int /\ ByteBits * last <= to - 1
  BY Divided
<1>3. first >= 0
  BY <1>2
<1>4. k \in Nat /\ k >= first /\ k <= last
  BY <1>1, <1>2, <1>3
<1>5. /\ b \in Nat /\ b \notin bmp
      /\ ByteBits * k <= b /\ b < ByteBits * k + ByteBits
  BY <1>1, <1>4, ClearBits
<1>6. b >= from
  <2>1. CASE k = first
    BY <2>1, <1>1
  <2>2. CASE k >= first + 1
    <3>1. ByteBits * (first + 1) <= ByteBits * k
      BY <2>2, <1>2, <1>4, TimesMonotone
    <3>2. ByteBits * (first + 1) = ByteBits * first + ByteBits
      BY <1>2
    <3> QED BY <3>1, <3>2, <1>2, <1>4, <1>5
  <2> QED BY <2>1, <2>2, <1>2, <1>4
<1>7. ByteBits * k <= to - 1
  <2>1. ByteBits * k <= ByteBits * last
    BY <1>2, <1>4, TimesMonotone
  <2> QED BY <2>1, <1>2, <1>4
<1>8. ASSUME NEW n \in Nat, to <= ByteBits * n
      PROVE  b < ByteBits * n
  <2>1. ByteBits * k < ByteBits * n
    BY <1>4, <1>7, <1>8
  <2>2. k + 1 <= n
    BY <2>1, <1>4, TimesMonotone
  <2>3. ByteBits * (k + 1) <= ByteBits * n
    BY <2>2, <1>4, TimesMonotone
  <2>4. ByteBits * (k + 1) = ByteBits * k + ByteBits
    BY <1>4
  <2> QED BY <2>3, <2>4, <1>4, <1>5
<1>9. b < sz["bmp"].init
  BY <1>8 DEF InOrder
<1>10. b <= Limit
  <2>1. PICK n \in Nat : Limit <= ByteBits * n /\ ByteBits * n <= Limit + 1
    BY LimitEndsByte
  <2>2. to <= ByteBits * n
    BY <2>1
  <2>3. b < ByteBits * n
    BY <2>2, <1>8, Zenon
  <2> QED BY <2>1, <2>3, <1>5
<1> QED
  BY <1>5, <1>6, <1>9, <1>10 DEF Records

(* Where nothing is found, the bytes are full; only in the first byte may  *)
(* a bit below the start be clear.                                         *)
LEMMA NoHits ==
  ASSUME LeastOf, NEW from \in Nat, NEW to \in Nat, Hits(from, to) = {},
         NEW b \in Nat, b \notin bmp, NEW c \in Nat, c < to,
         b \div ByteBits = c \div ByteBits, from \div ByteBits <= b \div ByteBits
  PROVE  /\ b \div ByteBits = from \div ByteBits
         /\ \E a \in Nat : /\ a \notin bmp /\ a < from /\ a <= b
                            /\ a \div ByteBits = from \div ByteBits
<1> USE Sizes
<1> DEFINE k == b \div ByteBits  first == from \div ByteBits  last == (to - 1) \div ByteBits
<1>1. /\ k \in Int /\ ByteBits * k <= b /\ b < ByteBits * k + ByteBits
      /\ first \in Int /\ first >= 0 /\ last \in Int
  <2>1. k \in Int /\ ByteBits * k <= b /\ b < ByteBits * k + ByteBits
    BY Divided
  <2>2. first \in Int /\ ByteBits * first <= from /\ from < ByteBits * first + ByteBits
    BY Divided
  <2>3. last \in Int
    BY Divided
  <2>4. first >= 0
    BY <2>2
  <2> QED BY <2>1, <2>2, <2>3, <2>4
<1>2. k <= last
  <2>1. ByteBits * k <= c /\ to - 1 < ByteBits * last + ByteBits
    BY Divided
  <2>2. ByteBits * (last + 1) = ByteBits * last + ByteBits
    BY <1>1
  <2>3. ByteBits * k < ByteBits * (last + 1)
    BY <2>1, <2>2, <1>1
  <2>4. k < last + 1
    BY <2>3, <1>1, TimesMonotone
  <2> QED BY <2>4, <1>1
<1>3. k \in first .. last /\ k \in Nat
  BY <1>1, <1>2
<1>4. b \in Clear(k)
  BY <1>1, <1>3 DEF Clear
<1>5. k = first /\ ~(Min(Clear(k)) >= from)
  <2>1. ~(k = first => Min(Clear(k)) >= from)
    BY <1>3, <1>4, Zenon DEF Hits
  <2> QED BY <2>1, Zenon
<1> DEFINE a == Min(Clear(k))
<1>6. /\ a \in Nat /\ a \notin bmp /\ a <= b
      /\ ByteBits * k <= a /\ a < ByteBits * k + ByteBits
  BY <1>3, <1>4, ClearBits, Zenon
<1>7. a \div ByteBits = k
  BY <1>6, <1>3
<1>8. a < from
  BY <1>5, <1>6
<1> QED
  BY <1>5, <1>6, <1>7, <1>8, Zenon

(* Division keeps the order, and the reserved records end with a byte.     *)
LEMMA ByteOrder ==
  ASSUME NEW a \in Nat, NEW b \in Nat
  PROVE  /\ a <= b => a \div ByteBits <= b \div ByteBits
         /\ a \div ByteBits = Reserved \div ByteBits => a >= Reserved
<1> USE Sizes
<1>1. a <= b => a \div ByteBits <= b \div ByteBits
  <2> DEFINE p == a \div ByteBits  q == b \div ByteBits
  <2>1. p \in Int /\ ByteBits * p <= a /\ q \in Int /\ b < ByteBits * q + ByteBits
    BY Divided
  <2>2. ByteBits * (q + 1) = ByteBits * q + ByteBits
    BY <2>1
  <2>3. a <= b => ByteBits * p < ByteBits * (q + 1)
    BY <2>1, <2>2
  <2>4. ByteBits * p < ByteBits * (q + 1) => p < q + 1
    BY <2>1, TimesMonotone
  <2>5. a <= b => p <= q
    BY <2>1, <2>3, <2>4
  <2> QED BY <2>5, Zenon
<1>2. a \div ByteBits = Reserved \div ByteBits => a >= Reserved
  <2>1. PICK n \in Nat : Reserved = ByteBits * n
    BY MftAllocAssumption, Multiple, Zenon
  <2>2. Reserved \div ByteBits = n
    BY <2>1
  <2>3. ByteBits * (a \div ByteBits) <= a
    BY Divided
  <2> QED BY <2>1, <2>2, <2>3
<1> QED
  BY <1>1, <1>2, Zenon

(* The search returns clear bits of records that may be allocated, and     *)
(* nothing only if there are none: a bit that the first pass misses in the *)
(* byte it starts in hides behind one that the second pass finds.          *)
LEMMA SearchFinds ==
  ASSUME LeastOf, Types, InOrder, NEW start \in Nat, start >= Reserved
  PROVE  /\ \A b \in FoundIn(start) : b \in Records /\ b \notin bmp /\ b >= Reserved
            /\ b < sz["bmp"].init
         /\ FoundIn(start) = {} => Reserved .. PassEnd - 1 \subseteq bmp
<1> USE Sizes
<1>1. /\ PassEnd \in Nat /\ PassEnd <= sz["bmp"].init /\ PassEnd <= Limit
      /\ sz["bmp"].init \in Nat
  <2>1. sz["bmp"].init \in Nat /\ sz["mft"].alloc \in Nat /\ sz["mft"].alloc <= Limit
    BY DEF Types, InOrder, Attributes
  <2>2. PassEnd = IF sz["mft"].alloc <= sz["bmp"].init THEN sz["mft"].alloc ELSE sz["bmp"].init
    BY <2>1, OfTwo, Zenon DEF PassEnd
  <2> QED BY <2>1, <2>2
<1>2. ASSUME NEW b \in FoundIn(start)
      PROVE  b \in Records /\ b \notin bmp /\ b >= Reserved /\ b < sz["bmp"].init
  <2>1. ASSUME b \in Hits(Reserved, PassEnd)
        PROVE  b \in Records /\ b \notin bmp /\ b >= Reserved /\ b < sz["bmp"].init
    BY <2>1, <1>1, HitsAreClear, Zenon
  <2>2. ASSUME b \in Hits(Reserved, start), start < PassEnd
        PROVE  b \in Records /\ b \notin bmp /\ b >= Reserved /\ b < sz["bmp"].init
    <3>1. start <= sz["bmp"].init /\ start <= Limit
      BY <2>2, <1>1
    <3> QED BY <2>2, <3>1, HitsAreClear, Zenon
  <2>3. ASSUME b \in Hits(start, PassEnd)
        PROVE  b \in Records /\ b \notin bmp /\ b >= Reserved /\ b < sz["bmp"].init
    <3>1. b \in Records /\ b \notin bmp /\ b >= start /\ b < sz["bmp"].init
      BY <2>3, <1>1, HitsAreClear, Zenon
    <3> QED BY <3>1 DEF Records
  <2>4. start >= PassEnd \/ start < PassEnd
    BY <1>1
  <2> QED BY <2>1, <2>2, <2>3, <2>4, <1>2, Zenon DEF FoundIn
<1>3. ASSUME FoundIn(start) = {}, NEW b \in Reserved .. PassEnd - 1, b \notin bmp
      PROVE  FALSE
  <2>1. b \in Nat /\ b >= Reserved /\ b < PassEnd
    BY <1>1, <1>3
  <2>2. ASSUME NEW to \in Nat, Hits(Reserved, to) = {}, NEW d \in Nat, d \notin bmp, d < to,
               Reserved \div ByteBits <= d \div ByteBits
        PROVE  FALSE
    <3>1. PICK a \in Nat : a < Reserved /\ a \div ByteBits = Reserved \div ByteBits
      BY <2>2, NoHits, Zenon
    <3>2. a >= Reserved
      BY <3>1, ByteOrder, Zenon
    <3> QED BY <3>1, <3>2
  <2>3. Reserved \div ByteBits <= b \div ByteBits
    <3>1. Reserved <= b
      BY <2>1
    <3> QED BY <2>1, <3>1, ByteOrder, Zenon
  <2>4. CASE start >= PassEnd
    <3>1. Hits(Reserved, PassEnd) = {}
      BY <2>4, <1>3, Zenon DEF FoundIn
    <3> QED BY <3>1, <1>1, <1>3, <2>1, <2>2, <2>3, Zenon
  <2>5. CASE start < PassEnd
    <3>1. Hits(start, PassEnd) = {} /\ Hits(Reserved, start) = {}
      <4>1. ~(start >= PassEnd)
        BY <2>5, <1>1
      <4> QED BY <4>1, <1>3, Zenon DEF FoundIn
    <3>2. CASE b < start
      BY <3>1, <3>2, <1>3, <2>1, <2>2, <2>3, Zenon
    <3>3. CASE start <= b
      <4>1. start \div ByteBits <= b \div ByteBits
        BY <3>3, <2>1, ByteOrder, Zenon
      <4>2. PICK a \in Nat : a \notin bmp /\ a < start /\ a \div ByteBits = start \div ByteBits
        BY <3>1, <4>1, <1>1, <1>3, <2>1, NoHits, Zenon
      <4>3. Reserved <= start
        OBVIOUS
      <4>4. Reserved \div ByteBits <= a \div ByteBits
        BY <4>2, <4>3, ByteOrder, Zenon
      <4> QED BY <3>1, <4>2, <4>4, <2>2, Zenon
    <3> QED BY <3>2, <3>3, <2>1
  <2> QED BY <2>4, <2>5, <1>1
<1> QED
  BY <1>2, <1>3, Zenon

-----------------------------------------------------------------------------
(* What a step of a task leaves alone *)

(* Task t goes to another place; the lock it takes or drops is its own or  *)
(* free.                                                                   *)
Locks(t) == lock' = lock \/ {lock, lock'} \subseteq {t, NoTask}

Moves(t) ==
  /\ pc' \in [Tasks -> Places] /\ loc' \in [Tasks -> Locals]
  /\ \A u \in Tasks \ {t} : pc'[u] = pc[u] /\ loc'[u] = loc[u]
  /\ Locks(t)

KeepsBelow == \A r \in Nat : Below(r) => Below(r)'

(* A task is not the mark for a free lock, and nobody else is at a place   *)
(* under the lock while it is free or the task's own.                      *)
LEMMA LockIsOne ==
  ASSUME \A u \in Tasks : Placed(u), NEW t \in Tasks, lock \in {t, NoTask}, NEW u \in Tasks \ {t}
  PROVE  pc[u] \notin UnderLock
<1>1. u # NoTask
  BY MftAllocAssumption, Zenon
<1> QED
  BY <1>1, Zenon DEF Placed

(* Initialized records stay so while the size does not shrink.             *)
LEMMA BelowKept ==
  ASSUME Types, NEW t \in Tasks, Moves(t),
         sz'["mft"].init \in Nat, sz["mft"].init <= sz'["mft"].init,
         pc'[t] \in Forming => pc[t] \in Forming /\ loc'[t].init = loc[t].init
  PROVE  KeepsBelow
<1> SUFFICES ASSUME NEW r \in Nat, Below(r) PROVE Below(r)'
  BY Zenon DEF KeepsBelow
<1>1. sz["mft"].init \in Nat
  BY DEF Types, Attributes
<1>2. r < sz'["mft"].init
  BY <1>1 DEF Below
<1>3. ASSUME NEW u \in Tasks, pc'[u] \in Forming PROVE r < loc'[u].init
  BY <1>3, Zenon DEF Below, Moves
<1> QED
  BY <1>2, <1>3, Zenon DEF Below

(* The other tasks know what they knew: those under the lock wait for it,  *)
(* or keep it.                                                             *)
LEMMA OthersPlaced ==
  ASSUME Types, \A u \in Tasks : Placed(u), NEW t \in Tasks, Moves(t), KeepsBelow,
         sz' = sz \/ lock = t, Placed(t)'
  PROVE  \A u \in Tasks : Placed(u)'
<1> SUFFICES ASSUME NEW u \in Tasks \ {t} PROVE Placed(u)'
  BY Zenon
<1>1. u # NoTask /\ pc'[u] = pc[u] /\ loc'[u] = loc[u] /\ Placed(u)
  BY MftAllocAssumption, Zenon DEF Moves
<1>2. Below(loc[u].bit) => Below(loc[u].bit)'
  <2>1. loc[u].bit \in Nat
    BY Sizes DEF Types, Locals, Records
  <2>2. PICK r \in Nat : r = loc[u].bit /\ r = loc'[u].bit
    BY <1>1, <2>1, Zenon
  <2>3. Below(r) => Below(r)'
    BY Zenon DEF KeepsBelow
  <2> QED BY <2>2, <2>3, Zenon DEF Below
<1>3. lock = u => lock' = u
  BY <1>1, Zenon DEF Moves, Locks
<1>5. pc[u] = "prepare" \/ (pc[u] = "clearbit" /\ lock' # u) => Below(loc[u].bit)'
  BY <1>1, <1>2, <1>3, Zenon DEF Placed
<1>5a. pc'[u] = "prepare" \/ (pc'[u] = "clearbit" /\ lock' # u) => Below(loc[u].bit)'
  BY <1>1, <1>5, Zenon
<1>6. CASE pc[u] \notin UnderLock
  BY <1>1, <1>5a, <1>6, Zenon DEF Placed, UnderLock, Forming
<1>7. CASE pc[u] \in UnderLock
  <2>1. lock = u /\ lock # t /\ sz' = sz
    BY <1>1, <1>7, Zenon DEF Placed
  <2> QED BY <1>1, <1>3, <1>5a, <2>1, Zenon DEF Placed
<1> QED
  BY <1>6, <1>7, Zenon

(* Nobody comes to own another record.                                     *)
LEMMA OwnedKept ==
  ASSUME \A u \in Tasks : Owned(u), NEW t \in Tasks, Moves(t), UNCHANGED <<bmp, live>>,
         pc'[t] \in Owning => pc[t] \in Owning /\ loc'[t].bit = loc[t].bit
  PROVE  \A u \in Tasks : Owned(u)'
<1>1. \A u \in Tasks : pc'[u] \in Owning => pc[u] \in Owning /\ loc'[u].bit = loc[u].bit
  BY Zenon DEF Moves
<1> SUFFICES ASSUME NEW u \in Tasks, pc'[u] \in Owning
             PROVE  /\ loc'[u].bit \in bmp /\ loc'[u].bit >= Reserved
                    /\ \A x \in live : x.r # loc'[u].bit
                    /\ \A v \in Tasks \ {u} : pc'[v] \in Owning => loc'[v].bit # loc'[u].bit
  BY Zenon DEF Owned
<1> QED
  BY <1>1, Zenon DEF Owned

(* The records in use are left alone.                                      *)
LEMMA GivenKept ==
  ASSUME Types, Given, KeepsBelow, UNCHANGED <<disk, live, issued>>, bmp \subseteq bmp',
         \A x \in live : mem'[x.r] = mem[x.r]
  PROVE  Given'
<1>1. \A i \in issued : i[1] \in Nat
  BY Sizes DEF Types, Records
<1>2. \A i \in issued : Below(i[1])'
  BY <1>1, Zenon DEF Given, KeepsBelow
<1>3. \A i \in issued' : Below(i[1])'
  BY <1>2, Zenon
<1>4. \A x \in live :
        /\ <<x.r, x.seq>> \in issued'
        /\ x.r \in bmp' /\ x.r >= Reserved
        /\ mem'[x.r].use /\ mem'[x.r].seq = x.seq
        /\ ~mem'[x.r].dirty => disk'[x.r].use /\ disk'[x.r].seq = x.seq
        /\ \A y \in live : y.r = x.r => y = x
  BY Zenon DEF Given
<1> QED
  BY <1>3, <1>4, Zenon DEF Given

(* A task that found no bit waits for nobody: the others do not have the   *)
(* lock.                                                                   *)
LEMMA FullKept ==
  ASSUME \A u \in Tasks : Placed(u), FullIsFull, NEW t \in Tasks, Moves(t),
         UNCHANGED <<bmp, sz>> \/ lock \in {t, NoTask},
         pc'[t] = "full" => (Reserved .. PassEnd - 1 \subseteq bmp)'
  PROVE  FullIsFull'
<1> SUFFICES ASSUME NEW u \in Tasks \ {t}, pc'[u] = "full"
             PROVE  (Reserved .. PassEnd - 1 \subseteq bmp)'
  BY Zenon DEF FullIsFull
<1>1. pc[u] = "full" /\ pc[u] \in UnderLock
  BY Zenon DEF Moves, UnderLock
<1>2. UNCHANGED <<bmp, sz>>
  BY <1>1, LockIsOne, Zenon
<1>3. PassEnd' = PassEnd
  BY <1>2, Zenon DEF PassEnd
<1> QED
  BY <1>1, <1>2, <1>3, Zenon DEF FullIsFull

(* The sizes agree as they did.                                            *)
LEMMA AgreeKept ==
  ASSUME SizesAgree, NEW t \in Tasks, Moves(t), UNCHANGED sizes, ~errors' => ~errors,
         pc[t] # "oops", pc[t] \in Forming <=> pc'[t] \in Forming,
         pc[t] \in Forming => loc'[t].init = loc[t].init /\ loc'[t].data = loc[t].data
  PROVE  SizesAgree'
<1> SUFFICES ASSUME ~errors', \A u \in Tasks : pc'[u] # "oops"
             PROVE  /\ Agree("bmp")
                    /\ sz["mft"].alloc = at["mft"].alloc /\ sz["mft"].rl = at["mft"].map
                    /\ sz["mft"].alloc = sz["mft"].rl * MftCluster
                    /\ used = sz["bmp"].rl + sz["mft"].rl
                    /\ \A u \in Tasks : pc'[u] \in Forming =>
                         at["mft"].init = loc'[u].init /\ at["mft"].data = loc'[u].data
                    /\ (\A u \in Tasks : pc'[u] \notin Forming) =>
                         at["mft"].init = sz["mft"].init /\ at["mft"].data = sz["mft"].data
  BY Zenon DEF SizesAgree, sizes, Agree
<1>1. \A u \in Tasks : pc[u] # "oops"
  BY Zenon DEF Moves
<1>2. \A u \in Tasks : /\ pc'[u] \in Forming <=> pc[u] \in Forming
                       /\ pc[u] \in Forming => loc'[u].init = loc[u].init
                          /\ loc'[u].data = loc[u].data
  BY Zenon DEF Moves
<1> QED
  BY <1>1, <1>2, Zenon DEF SizesAgree

(* A step that changes sizes or nothing but the place: it concerns no      *)
(* record that was given out.                                              *)
LEMMA SizesStep ==
  ASSUME AllocInv, NEW t \in Tasks, Moves(t), Types', InOrder', Placed(t)', SizesAgree',
         UNCHANGED <<bmp, disk, refs>>, \A r \in Records : mem'[r] = mem[r] \/ ~Below(r),
         sz' = sz \/ lock = t, KeepsBelow, pc'[t] # "full",
         pc'[t] \in Owning => pc[t] \in Owning /\ loc'[t].bit = loc[t].bit
  PROVE  AllocInv'
<1>1. /\ Types /\ \A u \in Tasks : Placed(u) /\ Owned(u)
      /\ Given /\ FullIsFull
  BY Zenon DEF AllocInv
<1>2. \A u \in Tasks : Placed(u)'
  BY <1>1, OthersPlaced, Zenon
<1>3. \A u \in Tasks : Owned(u)'
  <2>1. UNCHANGED <<bmp, live>>
    BY Zenon DEF refs
  <2> QED BY <1>1, <2>1, OwnedKept, Zenon
<1>4. Given'
  <2>1. UNCHANGED <<disk, live, issued>> /\ bmp \subseteq bmp'
    BY Zenon DEF refs
  <2>2. ASSUME NEW x \in live PROVE mem'[x.r] = mem[x.r]
    <3>1. x.r \in Records /\ <<x.r, x.seq>> \in issued /\ <<x.r, x.seq>>[1] = x.r
      BY <1>1 DEF Types, Given, References
    <3>2. Below(x.r)
      BY <1>1, <3>1, Zenon DEF Given
    <3> QED BY <3>1, <3>2, Zenon
  <2> QED BY <1>1, <2>1, <2>2, GivenKept, Zenon
<1>5. FullIsFull'
  <2>1. UNCHANGED <<bmp, sz>> \/ lock \in {t, NoTask}
    BY Zenon
  <2> QED BY <1>1, <2>1, FullKept, Zenon
<1> QED
  BY <1>2, <1>3, <1>4, <1>5, Zenon DEF AllocInv

(* The mark of the volume is not taken back.                               *)
LEMMA MarkStays ==
  ASSUME errors \in BOOLEAN, errors' = errors \/ errors' = TRUE
  PROVE  errors' \in BOOLEAN /\ (~errors' => ~errors)
BY Zenon

(* The numbers a task deals with.                                          *)
LEMMA Typed ==
  ASSUME Types
  PROVE  /\ \A x \in {"bmp", "mft"} : /\ sz[x].init \in Nat /\ sz[x].data \in Nat
                                     /\ sz[x].alloc \in Nat /\ sz[x].rl \in Nat
         /\ \A t \in Tasks : /\ loc[t].bit \in Records /\ loc[t].bit \in Nat
                             /\ loc[t].init \in Nat /\ loc[t].data \in Nat
<1>1. Records \subseteq Nat
  BY Sizes DEF Records
<1>2. \A t \in Tasks : loc[t].bit \in Records /\ loc[t].init \in Nat /\ loc[t].data \in Nat
  BY Zenon DEF Types, Locals
<1>3. \A x \in {"bmp", "mft"} : /\ sz[x].init \in Nat /\ sz[x].data \in Nat
                               /\ sz[x].alloc \in Nat /\ sz[x].rl \in Nat
  BY Zenon DEF Types, Attributes
<1> QED
  BY <1>1, <1>2, <1>3, Zenon

(* A task goes to another place, or ends.                                  *)
LEMMA Goes ==
  ASSUME Types, NEW t \in Tasks, NEW from, NEW to \in Places, Goto(t, from, to)
  PROVE  /\ pc[t] = from /\ pc'[t] = to /\ pc' \in [Tasks -> Places]
         /\ \A u \in Tasks \ {t} : pc'[u] = pc[u]
BY Zenon DEF Types, Goto

(* It moves, and keeps what it knows.                                      *)
LEMMA StaysLocal ==
  ASSUME Types, NEW t \in Tasks, NEW to \in Places, NEW from, Goto(t, from, to), UNCHANGED loc,
         Locks(t)
  PROVE  Moves(t) /\ pc[t] = from /\ pc'[t] = to
<1>1. loc' \in [Tasks -> Locals] /\ \A u \in Tasks \ {t} : loc'[u] = loc[u]
  BY Zenon DEF Types
<1> QED
  BY <1>1, Goes, Zenon DEF Moves

(* It moves, and knows something new.                                      *)
LEMMA SetsLocal ==
  ASSUME Types, NEW t \in Tasks, NEW to \in Places, NEW from, Goto(t, from, to),
         NEW l \in Locals, loc' = [loc EXCEPT ![t] = l],
         Locks(t)
  PROVE  Moves(t) /\ pc[t] = from /\ pc'[t] = to /\ loc'[t] = l
<1>1. loc \in [Tasks -> Locals]
  BY Zenon DEF Types
<1>2. /\ loc' \in [Tasks -> Locals] /\ loc'[t] = l
      /\ \A u \in Tasks \ {t} : loc'[u] = loc[u]
  BY <1>1, Zenon
<1>3. /\ pc[t] = from /\ pc'[t] = to /\ pc' \in [Tasks -> Places]
      /\ \A u \in Tasks \ {t} : pc'[u] = pc[u]
  BY Zenon DEF Types, Goto
<1> QED
  BY <1>2, <1>3, Zenon DEF Moves

(* What a task knows when it is idle.                                      *)
LEMMA NoLocIsLocal == NoLoc \in Locals /\ ~NoLoc.formatted /\ NoLoc.bit = 0
BY Sizes DEF NoLoc, Locals, Records

(* A task that ends knows nothing, and nothing is asked of it.             *)
LEMMA Ends ==
  ASSUME Types, NEW t \in Tasks, NEW from, Done(t, from),
         Locks(t)
  PROVE  Moves(t) /\ pc[t] = from /\ pc'[t] = "idle" /\ loc'[t] = NoLoc /\ Placed(t)'
<1>1. "idle" \in Places
  BY Zenon DEF Places
<1>2. Moves(t) /\ pc[t] = from /\ pc'[t] = "idle" /\ loc'[t] = NoLoc
  BY <1>1, NoLocIsLocal, SetsLocal, Zenon DEF Done
<1>3. "idle" \notin UnderLock \cup Forming
                     \cup {"bmpalloc", "bmpinit", "setbit", "have", "extend", "prepare", "clearbit"}
  BY Zenon DEF UnderLock, Forming
<1>4. Placed(t)'
  BY <1>2, <1>3, NoLocIsLocal, Zenon DEF Placed
<1> QED
  BY <1>2, <1>4, Zenon

(* A task chooses a bit.                                                   *)
LEMMA BitIsSet ==
  ASSUME Types, NEW t \in Tasks, NEW b \in Records
  PROVE  LET l == [loc[t] EXCEPT !["bit"] = b] IN
         /\ l \in Locals /\ l.bit = b /\ l.formatted = loc[t].formatted
         /\ l.init = loc[t].init /\ l.data = loc[t].data /\ l.ext = loc[t].ext
<1>1. loc[t] \in Locals
  BY Zenon DEF Types
<1> QED
  BY <1>1 DEF Locals

(* A step that changes nothing but the place, the locals and the lock.     *)
LEMMA PlaceStep ==
  ASSUME AllocInv, NEW t \in Tasks, Moves(t), Placed(t)',
         UNCHANGED <<bmp, sizes, record, dataPos, refs, errors>>,
         pc[t] # "oops", pc'[t] # "full", pc[t] \notin Forming, pc'[t] \notin Forming,
         pc'[t] \in Owning => pc[t] \in Owning /\ loc'[t].bit = loc[t].bit
  PROVE  AllocInv'
<1>1. Types /\ InOrder /\ SizesAgree
  BY Zenon DEF AllocInv
<1>2. /\ UNCHANGED <<bmp, sz, at, used, mem, disk, dataPos, live, issued, frees, errors>>
      /\ UNCHANGED sizes /\ UNCHANGED <<bmp, disk, refs>>
  BY Zenon DEF sizes, record, refs
<1>3. lock' \in Tasks \cup {NoTask}
  BY <1>1, Zenon DEF Types, Moves, Locks
<1>4. Types'
  BY <1>1, <1>2, <1>3, Zenon DEF Types, Moves
<1>5. InOrder'
  BY <1>1, <1>2, Zenon DEF InOrder
<1>6. SizesAgree'
  <2>1. errors \in BOOLEAN /\ (~errors' => ~errors)
    BY <1>1, <1>2, MarkStays, Zenon DEF Types
  <2>2. /\ pc[t] \in Forming <=> pc'[t] \in Forming
        /\ pc[t] \in Forming => loc'[t].init = loc[t].init /\ loc'[t].data = loc[t].data
    BY Zenon
  <2> QED BY <1>1, <1>2, <2>1, <2>2, AgreeKept, Zenon
<1>7. KeepsBelow
  <2>1. sz["mft"].init \in Nat
    BY <1>1 DEF Types, Attributes
  <2>2. sz'["mft"].init \in Nat /\ sz["mft"].init <= sz'["mft"].init
    BY <1>2, <2>1
  <2> QED BY <1>1, <2>2, BelowKept, Zenon
<1>8. \A r \in Records : mem'[r] = mem[r] \/ ~Below(r)
  BY <1>2, Zenon
<1> QED
  BY <1>2, <1>4, <1>5, <1>6, <1>7, <1>8, SizesStep, Zenon

(* A task that goes on with another bit.                                   *)
LEMMA GoesWithBit ==
  ASSUME Types, NEW t \in Tasks, NEW to \in Places, NEW from, Goto(t, from, to),
         NEW b \in Records, Set(t, "bit", b),
         Locks(t)
  PROVE  /\ Moves(t) /\ pc[t] = from /\ pc'[t] = to
         /\ loc'[t].bit = b /\ loc'[t].formatted = loc[t].formatted
         /\ loc'[t].ext = loc[t].ext
<1> DEFINE l == [loc[t] EXCEPT !["bit"] = b]
<1>1. loc' = [loc EXCEPT ![t] = l]
  BY Zenon DEF Set
<1>2. l \in Locals /\ l.bit = b /\ l.formatted = loc[t].formatted /\ l.ext = loc[t].ext
  BY BitIsSet, Zenon
<1> HIDE DEF l
<1>3. Moves(t) /\ pc[t] = from /\ pc'[t] = to /\ loc'[t] = l
  BY <1>1, <1>2, SetsLocal, Zenon
<1> QED
  BY <1>2, <1>3, Zenon

(* The next bit is that of the first record not initialized, or the first  *)
(* beyond the bitmap.                                                      *)
LEMMA NextBitKeeps ==
  ASSUME AllocInv, NEW t \in Tasks, NextBit(t)
  PROVE  AllocInv'
<1> DEFINE init == sz["mft"].init
           bits == sz["bmp"].init
           covered == bits > init /\ bits > Reserved
           bit == IF covered THEN Max({init, Reserved}) ELSE bits
           to == IF covered THEN "setbit"
                 ELSE IF bits + BmpStep > sz["bmp"].alloc THEN "bmpalloc" ELSE "bmpinit"
<1>1. Types /\ InOrder /\ Placed(t) /\ UNCHANGED <<bmp, sizes, record, dataPos, refs, errors>>
  BY Zenon DEF AllocInv, NextBit
<1>2. /\ init \in Nat /\ bits \in Nat /\ sz["bmp"].alloc \in Nat
      /\ Reserved <= init /\ init <= bits /\ UNCHANGED sz
  <2>1. init \in Nat /\ bits \in Nat /\ sz["bmp"].alloc \in Nat
    BY <1>1 DEF Types, Attributes
  <2> QED BY <1>1, <2>1, Zenon DEF InOrder, sizes
<1>3. CASE Fail(t, "full")
  <2>1. Done(t, "full") /\ lock' = NoTask /\ pc[t] = "full"
    BY <1>3, Zenon DEF Fail, Done, Goto
  <2>2. lock = t
    BY <1>1, <2>1, Zenon DEF Placed, UnderLock
  <2>3. Locks(t)
    BY <2>1, <2>2, Zenon DEF Locks
  <2>4. Moves(t) /\ pc'[t] = "idle" /\ Placed(t)'
    BY <1>1, <2>1, <2>3, Ends, Zenon
  <2>5. pc[t] # "oops" /\ pc'[t] # "full" /\ pc[t] \notin Forming /\ pc'[t] \notin Forming
        /\ pc'[t] \notin Owning
    BY <2>1, <2>4, Zenon DEF Forming, Owning
  <2> QED BY <1>1, <2>4, <2>5, PlaceStep, Zenon
<1>4. CASE bit < Limit /\ Goto(t, "full", to) /\ Set(t, "bit", bit) /\ UNCHANGED lock
  <2>1. bit = IF covered THEN init ELSE bits
    <3>1. Max({init, Reserved}) = init
      BY <1>2, Sizes, OfTwo
    <3> QED BY <3>1, Zenon
  <2>2. bit \in Nat /\ init <= bit /\ (covered => bit < bits) /\ (~covered => bit = bits)
    BY <1>2, <2>1, Sizes
  <2>3. to \in Places /\ to \in UnderLock
        /\ to \notin Forming \cup Owning \cup {"full", "prepare", "clearbit"}
    BY Zenon DEF Places, UnderLock, Forming, Owning
  <2> HIDE DEF bit
  <2>4. bit \in Records
    BY <1>4, <2>2, Sizes DEF Records
  <2>5. to \in {"bmpalloc", "bmpinit"} => bit = bits
    BY <2>2, Zenon
  <2>6. to = "bmpinit" => bits + BmpStep <= sz["bmp"].alloc
    BY <1>2, Sizes
  <2>7. to = "setbit" => bit < bits /\ init <= bit
    BY <2>2, Zenon
  <2>8. to \in {"setbit", "have", "extend"} \cup Forming => to = "setbit"
    BY <2>3, Zenon DEF Forming, Owning
  <2> HIDE DEF to
  <2>9. /\ Moves(t) /\ pc[t] = "full" /\ pc'[t] = to
        /\ loc'[t].bit = bit /\ loc'[t].formatted = loc[t].formatted
    <3>1. Locks(t)
      BY <1>4, Zenon DEF Locks
    <3> QED BY <1>1, <1>4, <2>3, <2>4, <3>1, GoesWithBit, ZenonT(30)
  <2>10. lock' = t /\ ~loc'[t].formatted
    BY <1>1, <1>4, <2>9, Zenon DEF Placed, UnderLock
  <2>11. Placed(t)'
    BY <1>2, <2>3, <2>5, <2>6, <2>7, <2>8, <2>9, <2>10, Zenon DEF Placed
  <2>12. pc[t] # "oops" /\ pc'[t] # "full" /\ pc[t] \notin Forming /\ pc'[t] \notin Forming
         /\ pc'[t] \notin Owning
    BY <2>3, <2>9, Zenon DEF Forming
  <2> QED BY <1>1, <2>9, <2>11, <2>12, PlaceStep, Zenon
<1> QED
  BY <1>3, <1>4, Zenon DEF NextBit

SizeTypes ==
  /\ sz \in [Attributes -> [init : Nat, data : Nat, alloc : Nat, rl : Nat]]
  /\ at \in [Attributes -> [init : Nat, data : Nat, alloc : Nat, map : Nat]]
  /\ used \in Nat

(* What growing an attribute by n clusters does to the sizes, in full, or  *)
(* with the size in the attribute record left behind.                      *)
LEMMA GrownSizes ==
  ASSUME Types, NEW x \in Attributes, NEW n \in Nat, Grown(x, n) \/ NotRestored(x, n)
  PROVE  /\ SizeTypes'
         /\ sz'[x].init = sz[x].init /\ sz'[x].data = sz[x].data
         /\ sz'[x].alloc = sz[x].alloc + n * Unit(x) /\ sz'[x].rl = sz[x].rl + n
         /\ at'[x].init = at[x].init /\ at'[x].data = at[x].data
         /\ at'[x].map = sz'[x].rl /\ used' = used + n
         /\ \A y \in Attributes \ {x} : sz'[y] = sz[y] /\ at'[y] = at[y]
         /\ Grown(x, n) => at'[x].alloc = sz'[x].alloc /\ errors' = errors
         /\ NotRestored(x, n) => errors' = TRUE
<1> DEFINE s == [sz[x] EXCEPT !.rl = @ + n, !.alloc = @ + n * Unit(x)]
<1>1. /\ sz \in [Attributes -> [init : Nat, data : Nat, alloc : Nat, rl : Nat]]
      /\ at \in [Attributes -> [init : Nat, data : Nat, alloc : Nat, map : Nat]]
      /\ used \in Nat
  BY Zenon DEF Types
<1>2. Unit(x) \in Nat
  BY Sizes DEF Unit
<1>3. n * Unit(x) \in Nat
  BY <1>2
<1>4. sz[x] \in [init : Nat, data : Nat, alloc : Nat, rl : Nat]
  BY <1>1, Zenon
<1> DEFINE a == sz[x].alloc + n * Unit(x)  m == sz[x].rl + n
<1>5. a \in Nat /\ m \in Nat
  BY <1>3, <1>4
<1>6. sz' = [sz EXCEPT ![x].rl = m, ![x].alloc = a]
  BY <1>1, Zenon DEF Grown, NotRestored
<1>7. /\ Grown(x, n) => at' = [at EXCEPT ![x].map = m, ![x].alloc = sz'[x].alloc]
         /\ errors' = errors
      /\ NotRestored(x, n) => at' = [at EXCEPT ![x].map = m] /\ errors' = TRUE
      /\ used' = used + n
  BY Zenon DEF Grown, NotRestored
<1> HIDE DEF a, m
<1>8. /\ sz' \in [Attributes -> [init : Nat, data : Nat, alloc : Nat, rl : Nat]]
      /\ sz'[x].init = sz[x].init /\ sz'[x].data = sz[x].data
      /\ sz'[x].alloc = a /\ sz'[x].rl = m
      /\ \A y \in Attributes \ {x} : sz'[y] = sz[y]
  BY <1>1, <1>5, <1>6, Zenon
<1>9. sz'[x].alloc \in Nat
  BY <1>5, <1>8, Zenon
<1>10. ASSUME Grown(x, n)
       PROVE  /\ at' \in [Attributes -> [init : Nat, data : Nat, alloc : Nat, map : Nat]]
              /\ at'[x].init = at[x].init /\ at'[x].data = at[x].data
              /\ at'[x].alloc = sz'[x].alloc /\ at'[x].map = m
              /\ \A y \in Attributes \ {x} : at'[y] = at[y]
  <2>1. at' = [at EXCEPT ![x].map = m, ![x].alloc = sz'[x].alloc]
    BY <1>7, <1>10, Zenon
  <2> QED BY <1>1, <1>5, <1>9, <2>1, Zenon
<1>11. ASSUME NotRestored(x, n)
       PROVE  /\ at' \in [Attributes -> [init : Nat, data : Nat, alloc : Nat, map : Nat]]
              /\ at'[x].init = at[x].init /\ at'[x].data = at[x].data
              /\ at'[x].map = m
              /\ \A y \in Attributes \ {x} : at'[y] = at[y]
  <2>1. at' = [at EXCEPT ![x].map = m]
    BY <1>7, <1>11, Zenon
  <2> QED BY <1>1, <1>5, <2>1, Zenon
<1>12. used' \in Nat /\ used' = used + n
  BY <1>1, <1>7
<1> QED
  BY <1>7, <1>8, <1>10, <1>11, <1>12, Zenon DEF SizeTypes, a, m

(* What is left when growing was undone: nothing, or the volume is marked. *)
LEMMA UndoneSizes ==
  ASSUME Types, NEW x \in Attributes, NEW n \in Nat, Undone(x, n)
  PROVE  /\ SizeTypes' /\ errors' \in BOOLEAN
         /\ sz'[x].init = sz[x].init /\ sz'[x].data = sz[x].data /\ sz'[x].alloc = sz[x].alloc
         /\ at'[x].init = at[x].init /\ at'[x].data = at[x].data /\ at'[x].alloc = at[x].alloc
         /\ \A y \in Attributes \ {x} : sz'[y] = sz[y] /\ at'[y] = at[y]
         /\ ~errors' => /\ ~errors /\ used' = used
                        /\ sz'[x].rl = sz[x].rl /\ at'[x].map = at[x].map
<1>1. /\ sz \in [Attributes -> [init : Nat, data : Nat, alloc : Nat, rl : Nat]]
      /\ at \in [Attributes -> [init : Nat, data : Nat, alloc : Nat, map : Nat]]
      /\ used \in Nat /\ errors \in BOOLEAN
  BY Zenon DEF Types
<1>2. PICK left : /\ used' = used + (IF "clusters" \in left THEN n ELSE 0)
                  /\ sz' = [sz EXCEPT ![x].rl = @ + (IF "rl" \in left THEN n ELSE 0)]
                  /\ at' = [at EXCEPT ![x].map =
                       @ + (IF "map" \in left THEN sz[x].rl + n - @ ELSE 0)]
                  /\ errors' = (errors \/ left # {})
  BY Zenon DEF Undone
<1> DEFINE m == sz[x].rl + (IF "rl" \in left THEN n ELSE 0)
           p == at[x].map + (IF "map" \in left THEN sz[x].rl + n - at[x].map ELSE 0)
<1>3. sz[x].rl \in Nat /\ at[x].map \in Nat
  BY <1>1
<1>4. m \in Nat /\ p \in Nat /\ used' \in Nat
  BY <1>1, <1>2, <1>3
<1>5. left = {} => m = sz[x].rl /\ p = at[x].map /\ used' = used
  BY <1>1, <1>2, <1>3
<1>6. sz' = [sz EXCEPT ![x].rl = m] /\ at' = [at EXCEPT ![x].map = p]
  BY <1>1, <1>2, Zenon
<1> HIDE DEF m, p
<1>7. /\ sz' \in [Attributes -> [init : Nat, data : Nat, alloc : Nat, rl : Nat]]
      /\ sz'[x].init = sz[x].init /\ sz'[x].data = sz[x].data
      /\ sz'[x].alloc = sz[x].alloc /\ sz'[x].rl = m
      /\ \A y \in Attributes \ {x} : sz'[y] = sz[y]
  BY <1>1, <1>4, <1>6, Zenon
<1>8. /\ at' \in [Attributes -> [init : Nat, data : Nat, alloc : Nat, map : Nat]]
      /\ at'[x].init = at[x].init /\ at'[x].data = at[x].data
      /\ at'[x].alloc = at[x].alloc /\ at'[x].map = p
      /\ \A y \in Attributes \ {x} : at'[y] = at[y]
  BY <1>1, <1>4, <1>6, Zenon
<1>9. errors' \in BOOLEAN /\ (~errors' => ~errors /\ left = {})
  BY <1>1, <1>2, Zenon
<1> QED
  BY <1>4, <1>5, <1>7, <1>8, <1>9, Zenon DEF SizeTypes

(* A step that changes the sizes under the lock.                           *)
LEMMA LockedStep ==
  ASSUME AllocInv, NEW t \in Tasks, Moves(t), lock = t, SizeTypes', errors' \in BOOLEAN,
         UNCHANGED <<bmp, record, dataPos, refs>>, InOrder', Placed(t)', SizesAgree',
         sz["mft"].init <= sz'["mft"].init, pc'[t] # "full",
         pc'[t] \in Forming => pc[t] \in Forming /\ loc'[t].init = loc[t].init,
         pc'[t] \in Owning => pc[t] \in Owning /\ loc'[t].bit = loc[t].bit
  PROVE  AllocInv'
<1>1. Types
  BY Zenon DEF AllocInv
<1>2. UNCHANGED <<mem, disk, live, issued, frees>> /\ UNCHANGED <<bmp, disk, refs>>
      /\ UNCHANGED dataPos
  BY Zenon DEF record, refs
<1>3. lock' \in Tasks \cup {NoTask}
  BY <1>1, Zenon DEF Types, Moves, Locks
<1>4. Types'
  BY <1>1, <1>2, <1>3, Zenon DEF Types, Moves, SizeTypes
<1>5. KeepsBelow
  <2>1. sz'["mft"].init \in Nat
    BY DEF SizeTypes, Attributes
  <2> QED BY <1>1, <2>1, BelowKept, Zenon
<1>6. \A r \in Records : mem'[r] = mem[r] \/ ~Below(r)
  BY <1>2, Zenon
<1> QED
  BY <1>2, <1>4, <1>5, <1>6, SizesStep, Zenon

(* The sizes keep their order when an attribute grows, or keeps its sizes. *)
LEMMA GrowsInOrder ==
  ASSUME Types, InOrder, SizeTypes',
         \A x \in Attributes : /\ sz'[x].init = sz[x].init /\ sz'[x].data = sz[x].data
                               /\ sz[x].alloc <= sz'[x].alloc,
         sz'["mft"].alloc <= Limit
  PROVE  InOrder'
<1>1. \A x \in Attributes : sz[x].init \in Nat /\ sz[x].data \in Nat /\ sz[x].alloc \in Nat
      /\ sz'[x].alloc \in Nat
  BY DEF Types, SizeTypes
<1>2. \A x \in Attributes : sz'[x].init <= sz'[x].data /\ sz'[x].data <= sz'[x].alloc
  BY <1>1 DEF InOrder
<1>3. "bmp" \in Attributes /\ "mft" \in Attributes
  BY Zenon DEF Attributes
<1> QED
  BY <1>2, <1>3, Zenon DEF InOrder

(* Both attributes agree, where nobody is forming records.                 *)
AllAgree ==
  \A x \in Attributes :
    /\ at[x].init = sz[x].init /\ at[x].data = sz[x].data /\ sz[x].alloc = at[x].alloc
    /\ sz[x].rl = at[x].map /\ sz[x].alloc = sz[x].rl * Unit(x)

AgreeIfFormed ==
  (\A u \in Tasks : pc[u] \notin Forming \cup {"oops"}) =>
    (SizesAgree <=> (~errors => AllAgree /\ used = sz["bmp"].rl + sz["mft"].rl))

(* With nobody forming records, the sizes agree or the volume is marked.   *)
LEMMA AgreeSplit == AgreeIfFormed
<1> SUFFICES ASSUME \A u \in Tasks : pc[u] \notin Forming \cup {"oops"}
             PROVE  SizesAgree <=> (~errors => AllAgree /\ used = sz["bmp"].rl + sz["mft"].rl)
  BY Zenon DEF AgreeIfFormed
<1>1. "bmp" \in Attributes /\ "mft" \in Attributes /\ \A x \in Attributes : x = "bmp" \/ x = "mft"
  BY Zenon DEF Attributes
<1>2. Unit("mft") = MftCluster /\ \A u \in Tasks : pc[u] # "oops" /\ pc[u] \notin Forming
  BY Zenon DEF Unit
<1>3. AllAgree => Agree("bmp") /\ sz["mft"].alloc = sz["mft"].rl * MftCluster
  BY <1>1, <1>2, Zenon DEF AllAgree, Agree
<1>4. AllAgree =>
        /\ sz["mft"].alloc = at["mft"].alloc /\ sz["mft"].rl = at["mft"].map
        /\ at["mft"].init = sz["mft"].init /\ at["mft"].data = sz["mft"].data
  BY <1>1, Zenon DEF AllAgree
<1>5. /\ Agree("bmp") /\ sz["mft"].alloc = sz["mft"].rl * MftCluster
      /\ sz["mft"].alloc = at["mft"].alloc /\ sz["mft"].rl = at["mft"].map
      /\ at["mft"].init = sz["mft"].init /\ at["mft"].data = sz["mft"].data
      => AllAgree
  BY <1>1, <1>2, Zenon DEF AllAgree, Agree
<1> QED
  BY <1>2, <1>3, <1>4, <1>5, Zenon DEF SizesAgree

(* The sizes agree when an attribute has grown, or that was undone.        *)
LEMMA GrowsAgree ==
  ASSUME AllocInv, NEW t \in Tasks, Moves(t), lock = t,
         pc[t] \notin Forming \cup {"oops"}, pc'[t] \notin Forming \cup {"oops"},
         NEW x \in Attributes, NEW n \in Nat, Grown(x, n) \/ NotRestored(x, n) \/ Undone(x, n)
  PROVE  SizesAgree'
<1>1. Types /\ SizesAgree /\ \A u \in Tasks : Placed(u)
  BY Zenon DEF AllocInv
<1>2. \A u \in Tasks : pc[u] \notin Forming \cup {"oops"}
  BY <1>1, LockIsOne, Zenon DEF UnderLock, Forming
<1>3. \A u \in Tasks : pc'[u] \notin Forming \cup {"oops"}
  BY <1>2, Zenon DEF Moves
<1>4. ~errors => AllAgree /\ used = sz["bmp"].rl + sz["mft"].rl
  BY <1>1, <1>2, AgreeSplit, Zenon DEF AgreeIfFormed
<1>5. AgreeIfFormed'
  BY AgreeSplit, PTL
<1> SUFFICES ASSUME ~errors' PROVE AllAgree' /\ used' = sz'["bmp"].rl + sz'["mft"].rl
  BY <1>3, <1>5, Zenon DEF AgreeIfFormed
<1>6. "bmp" \in Attributes /\ "mft" \in Attributes /\ \A y \in Attributes : y = "bmp" \/ y = "mft"
  BY Zenon DEF Attributes
<1>7. \A y \in Attributes : Unit(y) \in Nat /\ sz[y].rl \in Nat /\ sz[y].alloc \in Nat
  BY <1>1, Sizes DEF Types, Attributes, Unit
<1>8. CASE Undone(x, n)
  <2>1. /\ sz'[x].init = sz[x].init /\ sz'[x].data = sz[x].data /\ sz'[x].alloc = sz[x].alloc
        /\ at'[x].init = at[x].init /\ at'[x].data = at[x].data /\ at'[x].alloc = at[x].alloc
        /\ \A y \in Attributes \ {x} : sz'[y] = sz[y] /\ at'[y] = at[y]
        /\ ~errors /\ used' = used
        /\ sz'[x].rl = sz[x].rl /\ at'[x].map = at[x].map
    BY <1>1, <1>8, UndoneSizes, Zenon
  <2>2. AllAgree'
    <3>1. AllAgree
      BY <1>4, <2>1, Zenon
    <3> SUFFICES ASSUME NEW y \in Attributes
                 PROVE  /\ at'[y].init = sz'[y].init /\ at'[y].data = sz'[y].data
                        /\ sz'[y].alloc = at'[y].alloc
                        /\ sz'[y].rl = at'[y].map /\ sz'[y].alloc = sz'[y].rl * Unit(y)
      BY Zenon DEF AllAgree, Unit
    <3>2. CASE y = x
      <4>1. /\ at[x].init = sz[x].init /\ at[x].data = sz[x].data
            /\ sz[x].alloc = at[x].alloc
            /\ sz[x].rl = at[x].map /\ sz[x].alloc = sz[x].rl * Unit(x)
        BY <3>1, Zenon DEF AllAgree
      <4> QED BY <2>1, <3>2, <4>1, Zenon
    <3>3. CASE y # x
      <4>1. sz'[y] = sz[y] /\ at'[y] = at[y]
        BY <2>1, <3>3, Zenon
      <4> QED BY <3>1, <4>1, Zenon DEF AllAgree
    <3> QED BY <3>2, <3>3, Zenon
  <2>3. sz'["bmp"].rl = sz["bmp"].rl /\ sz'["mft"].rl = sz["mft"].rl
    BY <1>6, <2>1, Zenon
  <2> QED BY <1>4, <2>1, <2>2, <2>3, Zenon
<1>9. CASE Grown(x, n)
  <2>1. /\ sz'[x].init = sz[x].init /\ sz'[x].data = sz[x].data
        /\ sz'[x].alloc = sz[x].alloc + n * Unit(x) /\ sz'[x].rl = sz[x].rl + n
        /\ at'[x].init = at[x].init /\ at'[x].data = at[x].data
        /\ at'[x].map = sz'[x].rl /\ used' = used + n
        /\ \A y \in Attributes \ {x} : sz'[y] = sz[y] /\ at'[y] = at[y]
        /\ at'[x].alloc = sz'[x].alloc /\ errors' = errors
    BY <1>1, <1>9, GrownSizes, Zenon
  <2>2. ~errors
    BY <2>1
  <2>3. sz'[x].alloc = sz'[x].rl * Unit(x)
    <3>1. sz[x].alloc = sz[x].rl * Unit(x)
      BY <1>4, <2>2, Zenon DEF AllAgree
    <3>2. sz[x].rl * Unit(x) + n * Unit(x) = (sz[x].rl + n) * Unit(x)
      BY <1>7
    <3> QED BY <2>1, <3>1, <3>2, Zenon
  <2>4. AllAgree'
    <3>1. AllAgree
      BY <1>4, <2>2, Zenon
    <3> SUFFICES ASSUME NEW y \in Attributes
                 PROVE  /\ at'[y].init = sz'[y].init /\ at'[y].data = sz'[y].data
                        /\ sz'[y].alloc = at'[y].alloc
                        /\ sz'[y].rl = at'[y].map /\ sz'[y].alloc = sz'[y].rl * Unit(y)
      BY Zenon DEF AllAgree, Unit
    <3>2. CASE y = x
      BY <2>1, <2>3, <3>1, <3>2, Zenon DEF AllAgree
    <3>3. CASE y # x
      <4>1. sz'[y] = sz[y] /\ at'[y] = at[y]
        BY <2>1, <3>3, Zenon
      <4> QED BY <3>1, <4>1, Zenon DEF AllAgree
    <3> QED BY <3>2, <3>3, Zenon
  <2>5. used' = sz'["bmp"].rl + sz'["mft"].rl
    <3>1. used = sz["bmp"].rl + sz["mft"].rl
      BY <1>4, <2>2, Zenon
    <3>2. CASE x = "bmp"
      BY <1>6, <1>7, <2>1, <3>1, <3>2
    <3>3. CASE x = "mft"
      BY <1>6, <1>7, <2>1, <3>1, <3>3
    <3> QED BY <1>6, <3>2, <3>3, Zenon
  <2> QED BY <2>4, <2>5, Zenon
<1>10. CASE NotRestored(x, n)
  BY <1>1, <1>10, GrownSizes, Zenon
<1> QED
  BY <1>8, <1>9, <1>10, Zenon

(* The bitmap gets another cluster, or that fails.                         *)
LEMMA BmpExtendAllocKeeps ==
  ASSUME AllocInv, NEW t \in Tasks, BmpExtendAlloc(t)
  PROVE  AllocInv'
<1>1. Types /\ InOrder /\ Placed(t) /\ UNCHANGED <<bmp, record, dataPos, refs>>
  BY Zenon DEF AllocInv, BmpExtendAlloc
<1>2. pc[t] = "bmpalloc"
  BY Zenon DEF BmpExtendAlloc, Fail, Done, Goto
<1>3. lock = t /\ loc[t].bit = sz["bmp"].init /\ ~loc[t].formatted
  BY <1>1, <1>2, Zenon DEF Placed, UnderLock
<1>4. Grown("bmp", 1) \/ NotRestored("bmp", 1) \/ Undone("bmp", 1)
  BY Zenon DEF BmpExtendAlloc
<1>5. "bmp" \in Attributes /\ "mft" \in Attributes \ {"bmp"} /\ 1 \in Nat
      /\ Unit("bmp") = BmpCluster
  BY Zenon DEF Attributes, Unit
<1>6. /\ SizeTypes' /\ errors' \in BOOLEAN /\ sz'["mft"] = sz["mft"]
      /\ sz'["bmp"].init = sz["bmp"].init /\ sz'["bmp"].data = sz["bmp"].data
      /\ sz'["bmp"].alloc = sz["bmp"].alloc \/ sz'["bmp"].alloc = sz["bmp"].alloc + 1 * BmpCluster
      /\ Grown("bmp", 1) => sz'["bmp"].alloc = sz["bmp"].alloc + 1 * BmpCluster
  <2>1. CASE Grown("bmp", 1) \/ NotRestored("bmp", 1)
    <3>1. errors \in BOOLEAN
      BY <1>1, Zenon DEF Types
    <3> QED BY <1>1, <1>5, <2>1, <3>1, GrownSizes, Zenon
  <2>2. CASE Undone("bmp", 1) /\ ~Grown("bmp", 1)
    BY <1>1, <1>5, <2>2, UndoneSizes, Zenon
  <2> QED BY <1>4, <2>1, <2>2, Zenon
<1>7. /\ sz["bmp"].init \in Nat /\ sz["bmp"].data \in Nat /\ sz["bmp"].alloc \in Nat
      /\ sz["mft"].init \in Nat /\ sz["mft"].data \in Nat /\ sz["mft"].alloc \in Nat
  BY <1>1 DEF Types, Attributes
<1>8. InOrder'
  <2>1. sz["bmp"].alloc <= sz'["bmp"].alloc
    BY <1>6, <1>7, Sizes
  <2>2. sz["mft"].alloc <= sz'["mft"].alloc
    BY <1>6, <1>7
  <2>3. \A x \in Attributes : /\ sz'[x].init = sz[x].init /\ sz'[x].data = sz[x].data
                              /\ sz[x].alloc <= sz'[x].alloc
    BY <1>6, <2>1, <2>2, Zenon DEF Attributes
  <2>4. sz'["mft"].alloc <= Limit
    BY <1>1, <1>6, Zenon DEF InOrder
  <2> QED BY <1>1, <1>6, <2>3, <2>4, GrowsInOrder, Zenon
<1>9. /\ Moves(t) /\ Placed(t)'
      /\ pc'[t] \notin Owning \cup Forming \cup {"full", "oops"}
  <2>1. CASE Goto(t, "bmpalloc", "bmpinit") /\ Grown("bmp", 1) /\ UNCHANGED <<lock, loc>>
    <3>1. "bmpinit" \in Places /\ Locks(t) /\ UNCHANGED loc
      BY <2>1, Zenon DEF Places, Locks
    <3>2. Moves(t) /\ pc'[t] = "bmpinit"
      BY <1>1, <2>1, <3>1, StaysLocal, Zenon
    <3>3. sz'["bmp"].init + BmpStep <= sz'["bmp"].alloc
      <4>1. sz["bmp"].init <= sz["bmp"].alloc
        BY <1>1, <1>5, <1>7 DEF InOrder
      <4> QED BY <2>1, <1>6, <1>7, <4>1, MftAllocAssumption, Sizes
    <3>4. lock' = t /\ loc'[t].bit = sz'["bmp"].init /\ ~loc'[t].formatted
      BY <1>3, <1>6, <2>1, Zenon
    <3>5. Placed(t)'
      BY <3>2, <3>3, <3>4, Zenon DEF Placed, Forming
    <3> QED BY <3>2, <3>5, Zenon DEF Owning, Forming
  <2>2. CASE Fail(t, "bmpalloc")
    <3>1. Done(t, "bmpalloc") /\ Locks(t)
      BY <1>3, <2>2, Zenon DEF Fail, Locks
    <3>2. Moves(t) /\ pc'[t] = "idle" /\ Placed(t)'
      BY <1>1, <3>1, Ends, Zenon
    <3> QED BY <3>2, Zenon DEF Owning, Forming
  <2> QED BY <2>1, <2>2, Zenon DEF BmpExtendAlloc
<1>10. SizesAgree'
  BY <1>2, <1>3, <1>4, <1>5, <1>9, GrowsAgree, Zenon DEF Forming
<1>11. sz["mft"].init <= sz'["mft"].init
  BY <1>6, <1>7
<1> QED
  BY <1>1, <1>3, <1>6, <1>8, <1>9, <1>10, <1>11, LockedStep, Zenon

(* $MFT gets more clusters, or that fails in one of several ways.          *)
LEMMA MftExtendAllocKeeps ==
  ASSUME AllocInv, NEW t \in Tasks, MftExtendAlloc(t)
  PROVE  AllocInv'
<1>1. /\ Types /\ InOrder /\ Placed(t) /\ SizesAgree
      /\ UNCHANGED <<bmp, record, dataPos, refs>> /\ UNCHANGED lock /\ UNCHANGED loc
  BY Zenon DEF AllocInv, MftExtendAlloc
<1>2. pc[t] = "extend"
  BY Zenon DEF MftExtendAlloc, Goto
<1>3. lock = t /\ loc[t].bit < sz["bmp"].init /\ ~loc[t].formatted
  BY <1>1, <1>2, Zenon DEF Placed, UnderLock
<1>4. /\ Moves(t) /\ pc'[t] \in {"have", "clearbit", "oops"}
      /\ pc'[t] \notin Forming \cup {"full"} /\ pc[t] \in Owning
  <2>1. \E to \in {"have", "clearbit", "oops"} : Goto(t, "extend", to)
    BY Zenon DEF MftExtendAlloc
  <2>2. PICK to \in {"have", "clearbit", "oops"} : Goto(t, "extend", to)
    BY <2>1, Zenon
  <2>3. to \in Places /\ Locks(t)
    BY <1>1, Zenon DEF Places, Locks
  <2>4. Moves(t) /\ pc'[t] = to
    BY <1>1, <2>2, <2>3, StaysLocal, Zenon
  <2> QED BY <1>2, <2>4, Zenon DEF Forming, Owning
<1>5. /\ sz["bmp"].init \in Nat /\ sz["bmp"].alloc \in Nat
      /\ sz["mft"].init \in Nat /\ sz["mft"].data \in Nat /\ sz["mft"].alloc \in Nat
      /\ sz["mft"].rl \in Nat /\ errors \in BOOLEAN
  BY <1>1 DEF Types, Attributes
<1>6. "mft" \in Attributes /\ "bmp" \in Attributes \ {"mft"} /\ Unit("mft") = MftCluster
  BY Zenon DEF Attributes, Unit
<1>7. /\ SizeTypes' /\ errors' \in BOOLEAN /\ SizesAgree' /\ sz'["bmp"] = sz["bmp"]
      /\ sz'["mft"].init = sz["mft"].init /\ sz'["mft"].data = sz["mft"].data
      /\ sz'["mft"].alloc = sz["mft"].alloc \/ (/\ sz["mft"].alloc <= sz'["mft"].alloc
                                                /\ sz'["mft"].alloc <= Limit)
  <2>1. ASSUME NEW n \in {1, Chunk}, MftClusters(n),
               Grown("mft", n) \/ Undone("mft", n) \/ NotRestored("mft", n), pc'[t] # "oops"
        PROVE  <1>7!:
    <3>1. n \in Nat
      BY Sizes
    <3>2. pc[t] \notin Forming \cup {"oops"} /\ pc'[t] \notin Forming \cup {"oops"}
      BY <1>2, <1>4, <2>1, Zenon DEF Forming
    <3>3. SizesAgree'
      BY <1>3, <1>4, <1>6, <2>1, <3>1, <3>2, GrowsAgree, Zenon
    <3>4. CASE Undone("mft", n)
      BY <1>1, <1>6, <3>1, <3>3, <3>4, UndoneSizes, Zenon
    <3>5. CASE Grown("mft", n) \/ NotRestored("mft", n)
      <4>1. /\ SizeTypes' /\ errors' \in BOOLEAN /\ sz'["bmp"] = sz["bmp"]
            /\ sz'["mft"].init = sz["mft"].init /\ sz'["mft"].data = sz["mft"].data
            /\ sz'["mft"].alloc = sz["mft"].alloc + n * MftCluster
        BY <1>1, <1>5, <1>6, <3>1, <3>5, GrownSizes, ZenonT(30)
      <4>2. sz["mft"].alloc <= sz'["mft"].alloc /\ sz'["mft"].alloc <= Limit
        <5>1. sz["mft"].alloc + n * MftCluster < Limit
          BY <2>1, Zenon DEF MftClusters
        <5>2. n * MftCluster \in Nat
          BY <3>1, Sizes
        <5> QED BY <1>5, <4>1, <5>1, <5>2, Sizes
      <4> QED BY <3>3, <4>1, <4>2, Zenon
    <3> QED BY <2>1, <3>4, <3>5, Zenon
  <2>2. ASSUME UNCHANGED <<sizes, errors>>, pc'[t] # "oops"
        PROVE  <1>7!:
    <3>1. UNCHANGED <<sz, at, used>> /\ UNCHANGED sizes
      BY <2>2, Zenon DEF sizes
    <3>2. SizeTypes'
      BY <1>1, <3>1, Zenon DEF Types, SizeTypes
    <3>3. pc[t] \notin Forming /\ pc'[t] \notin Forming /\ pc[t] # "oops"
      BY <1>2, <1>4, Zenon DEF Forming
    <3>4. /\ pc[t] \in Forming <=> pc'[t] \in Forming
          /\ pc[t] \in Forming => loc'[t].init = loc[t].init /\ loc'[t].data = loc[t].data
      BY <3>3, Zenon
    <3>5. errors' \in BOOLEAN /\ (~errors' => ~errors)
      BY <1>5, <2>2
    <3>6. SizesAgree'
      BY <1>1, <1>4, <3>1, <3>3, <3>4, <3>5, AgreeKept, Zenon
    <3> QED BY <3>1, <3>2, <3>5, <3>6, Zenon
  <2>3. ASSUME NEW n \in {1, Chunk}, sz' = [sz EXCEPT !["mft"].rl = @ + n], pc'[t] = "oops",
               UNCHANGED <<at, used, errors>>
        PROVE  <1>7!:
    <3>1. SizesAgree'
      BY <2>3, Zenon DEF SizesAgree
    <3>2. sz["mft"].rl + n \in Nat
      BY <1>5, Sizes
    <3>3. sz \in [Attributes -> [init : Nat, data : Nat, alloc : Nat, rl : Nat]]
      BY <1>1, Zenon DEF Types
    <3>4. /\ sz' \in [Attributes -> [init : Nat, data : Nat, alloc : Nat, rl : Nat]]
          /\ sz'["mft"].init = sz["mft"].init /\ sz'["mft"].data = sz["mft"].data
          /\ sz'["mft"].alloc = sz["mft"].alloc /\ sz'["bmp"] = sz["bmp"]
      BY <1>6, <2>3, <3>2, <3>3, Zenon
    <3>5. SizeTypes' /\ errors' \in BOOLEAN
      BY <1>1, <1>5, <2>3, <3>4, Zenon DEF SizeTypes, Types
    <3> QED BY <3>1, <3>4, <3>5, Zenon
  <2>4. "have" # "oops" /\ "clearbit" # "oops"
    BY Zenon
  <2>5. \A to \in Places : Goto(t, "extend", to) => pc'[t] = to
    BY <1>1, Goes, Zenon
  <2>6. {"have", "clearbit", "oops"} \subseteq Places
    BY Zenon DEF Places
  <2>7. \/ \E n \in {1, Chunk} : /\ MftClusters(n) /\ pc'[t] # "oops"
                                 /\ Grown("mft", n) \/ Undone("mft", n) \/ NotRestored("mft", n)
        \/ UNCHANGED <<sizes, errors>> /\ pc'[t] # "oops"
        \/ \E n \in {1, Chunk} : /\ sz' = [sz EXCEPT !["mft"].rl = @ + n] /\ pc'[t] = "oops"
                                 /\ UNCHANGED <<at, used, errors>>
    BY <2>4, <2>5, <2>6, Zenon DEF MftExtendAlloc
  <2> QED BY <2>1, <2>2, <2>3, <2>7, Zenon
<1>8. InOrder'
  <2>1. sz["mft"].alloc <= sz'["mft"].alloc /\ sz["bmp"].alloc <= sz'["bmp"].alloc
    BY <1>5, <1>7
  <2>2. \A x \in Attributes : /\ sz'[x].init = sz[x].init /\ sz'[x].data = sz[x].data
                              /\ sz[x].alloc <= sz'[x].alloc
    BY <1>7, <2>1, Zenon DEF Attributes
  <2>3. sz'["mft"].alloc <= Limit
    BY <1>1, <1>7, Zenon DEF InOrder
  <2> QED BY <1>1, <1>7, <2>2, <2>3, GrowsInOrder, Zenon
<1>9. Placed(t)'
  <2>1. lock' = t /\ ~loc'[t].formatted /\ loc'[t].bit < sz'["bmp"].init
    BY <1>1, <1>3, <1>7, Zenon
  <2> QED BY <1>4, <2>1, Zenon DEF Placed, Forming
<1>10. sz["mft"].init <= sz'["mft"].init
  BY <1>5, <1>7
<1>11. /\ pc'[t] # "full" /\ (pc'[t] \in Forming => pc[t] \in Forming /\ loc'[t].init = loc[t].init)
       /\ (pc'[t] \in Owning => pc[t] \in Owning /\ loc'[t].bit = loc[t].bit)
  BY <1>1, <1>4, Zenon
<1> QED
  BY <1>1, <1>3, <1>4, <1>7, <1>8, <1>9, <1>10, <1>11, LockedStep, Zenon

(* The bitmap gets another step of initialized bits, if there is room.     *)
LEMMA BmpInitializedSizes ==
  ASSUME Types, InOrder, BmpInitialized(sz["bmp"].init + BmpStep),
         sz["bmp"].init + BmpStep <= sz["bmp"].alloc, UNCHANGED used
  PROVE  /\ SizeTypes' /\ InOrder' /\ sz'["mft"] = sz["mft"] /\ at'["mft"] = at["mft"]
         /\ sz'["bmp"].init = sz["bmp"].init + BmpStep
         /\ at'["bmp"].init = sz'["bmp"].init /\ at'["bmp"].data = sz'["bmp"].data
         /\ sz'["bmp"].alloc = sz["bmp"].alloc /\ at'["bmp"].alloc = at["bmp"].alloc
         /\ sz'["bmp"].rl = sz["bmp"].rl /\ at'["bmp"].map = at["bmp"].map
<1> DEFINE init == sz["bmp"].init + BmpStep
           data == Max({sz["bmp"].data, init})
<1>1. /\ sz \in [Attributes -> [init : Nat, data : Nat, alloc : Nat, rl : Nat]]
      /\ at \in [Attributes -> [init : Nat, data : Nat, alloc : Nat, map : Nat]]
      /\ used \in Nat
  BY Zenon DEF Types
<1>2. "bmp" \in Attributes /\ "mft" \in Attributes \ {"bmp"}
      /\ \A x \in Attributes : x = "bmp" \/ x = "mft"
  BY Zenon DEF Attributes
<1>3. /\ sz["bmp"].init \in Nat /\ sz["bmp"].data \in Nat /\ sz["bmp"].alloc \in Nat
      /\ sz["mft"].init \in Nat /\ sz["bmp"].data <= sz["bmp"].alloc
  BY <1>1, <1>2 DEF InOrder
<1>4. init \in Nat
  BY <1>3, Sizes
<1>5. data = IF sz["bmp"].data >= init THEN sz["bmp"].data ELSE init
  BY <1>3, <1>4, OfTwo, Zenon
<1>6. data \in Nat /\ init <= data /\ data <= sz["bmp"].alloc
  BY <1>3, <1>4, <1>5
<1>7. /\ sz' = [sz EXCEPT !["bmp"].init = init, !["bmp"].data = data]
      /\ at' = [at EXCEPT !["bmp"].init = init, !["bmp"].data = data]
  BY Zenon DEF BmpInitialized
<1> HIDE DEF data, init
<1>8. /\ sz' \in [Attributes -> [init : Nat, data : Nat, alloc : Nat, rl : Nat]]
      /\ sz'["bmp"].init = init /\ sz'["bmp"].data = data
      /\ sz'["bmp"].alloc = sz["bmp"].alloc /\ sz'["bmp"].rl = sz["bmp"].rl
      /\ sz'["mft"] = sz["mft"]
  BY <1>1, <1>2, <1>4, <1>6, <1>7, ZenonT(30)
<1>9. /\ at' \in [Attributes -> [init : Nat, data : Nat, alloc : Nat, map : Nat]]
      /\ at'["bmp"].init = init /\ at'["bmp"].data = data
      /\ at'["bmp"].alloc = at["bmp"].alloc /\ at'["bmp"].map = at["bmp"].map
      /\ at'["mft"] = at["mft"]
  BY <1>1, <1>2, <1>4, <1>6, <1>7, ZenonT(30)
<1>10. InOrder'
  <2>1. \E n \in Nat : sz'["bmp"].init = ByteBits * n
    <3>1. PICK n \in Nat : sz["bmp"].init = ByteBits * n
      BY DEF InOrder
    <3>2. PICK k \in Nat : BmpStep = ByteBits * k
      BY MftAllocAssumption, Sizes, Multiple, Zenon
    <3>3. ByteBits * (n + k) = ByteBits * n + ByteBits * k /\ n + k \in Nat
      BY Sizes
    <3> QED BY <1>8, <3>1, <3>2, <3>3, Zenon DEF init
  <2>2. sz'["mft"].init <= sz'["bmp"].init
    BY <1>3, <1>8, Sizes DEF InOrder, init
  <2> QED BY <1>2, <1>6, <1>8, <2>1, <2>2, Zenon DEF InOrder
<1> QED
  BY <1>1, <1>8, <1>9, <1>10, Zenon DEF SizeTypes, init

(* The bitmap's initialized size is extended, or that fails.               *)
LEMMA BmpExtendInitKeeps ==
  ASSUME AllocInv, NEW t \in Tasks, BmpExtendInit(t)
  PROVE  AllocInv'
<1>1. /\ Types /\ InOrder /\ Placed(t) /\ SizesAgree /\ (\A u \in Tasks : Placed(u))
      /\ UNCHANGED <<bmp, record, dataPos, refs>> /\ UNCHANGED used
  BY Zenon DEF AllocInv, BmpExtendInit
<1>2. pc[t] = "bmpinit"
  BY Zenon DEF BmpExtendInit, Fail, Done, Goto
<1>3. /\ lock = t /\ loc[t].bit = sz["bmp"].init /\ ~loc[t].formatted
      /\ sz["bmp"].init + BmpStep <= sz["bmp"].alloc
  BY <1>1, <1>2, Zenon DEF Placed, UnderLock
<1>4. /\ sz["bmp"].init \in Nat /\ sz["mft"].init \in Nat /\ sz["mft"].init <= sz["bmp"].init
      /\ errors \in BOOLEAN
  <2>1. sz["bmp"].init \in Nat /\ sz["mft"].init \in Nat
    BY <1>1 DEF Types, Attributes
  <2> QED BY <1>1, <2>1, Zenon DEF InOrder, Types
<1>5. pc[t] \notin Forming \cup {"oops"}
  BY <1>2, Zenon DEF Forming
<1>6. /\ SizeTypes' /\ InOrder' /\ sz'["mft"] = sz["mft"]
      /\ \/ BmpInitialized(sz["bmp"].init + BmpStep)
         \/ UNCHANGED sizes
      /\ errors' = errors \/ errors' = TRUE
      /\ errors' = errors \/ BmpInitialized(sz["bmp"].init + BmpStep)
  <2>1. CASE BmpInitialized(sz["bmp"].init + BmpStep)
    <3>1. errors' = errors \/ errors' = TRUE
      BY Zenon DEF BmpExtendInit
    <3> QED BY <1>1, <1>3, <2>1, <3>1, BmpInitializedSizes, Zenon
  <2>2. CASE UNCHANGED <<sz, at, errors>>
    <3>1. SizeTypes' /\ InOrder' /\ UNCHANGED sizes
      BY <1>1, <2>2, Zenon DEF Types, SizeTypes, InOrder, sizes
    <3> QED BY <2>2, <3>1, Zenon
  <2> QED BY <2>1, <2>2, Zenon DEF BmpExtendInit
<1>7. errors' \in BOOLEAN /\ (~errors' => ~errors)
  BY <1>4, <1>6, MarkStays, Zenon
<1>8. /\ Moves(t) /\ Placed(t)'
      /\ pc'[t] \notin Owning \cup Forming \cup {"full", "oops"}
  <2>1. CASE Goto(t, "bmpinit", "setbit") /\ BmpInitialized(sz["bmp"].init + BmpStep)
             /\ UNCHANGED <<lock, loc>>
    <3>1. "setbit" \in Places /\ Locks(t) /\ UNCHANGED loc
      BY <2>1, Zenon DEF Places, Locks
    <3>2. Moves(t) /\ pc'[t] = "setbit"
      BY <1>1, <2>1, <3>1, StaysLocal, Zenon
    <3>3. sz'["bmp"].init = sz["bmp"].init + BmpStep
      BY <1>1, <1>3, <2>1, BmpInitializedSizes, Zenon
    <3>4. lock' = t /\ ~loc'[t].formatted /\ loc'[t].bit = sz["bmp"].init
      BY <1>3, <2>1, ZenonT(30)
    <3>5. loc'[t].bit < sz'["bmp"].init /\ sz'["mft"].init <= loc'[t].bit
      BY <1>4, <1>6, <3>3, <3>4, Sizes
    <3>6. Placed(t)'
      BY <3>2, <3>4, <3>5, Zenon DEF Placed, Forming
    <3> QED BY <3>2, <3>6, Zenon DEF Owning, Forming
  <2>2. CASE Fail(t, "bmpinit")
    <3>1. Done(t, "bmpinit") /\ Locks(t)
      BY <1>3, <2>2, Zenon DEF Fail, Locks
    <3>2. Moves(t) /\ pc'[t] = "idle" /\ Placed(t)'
      BY <1>1, <3>1, Ends, Zenon
    <3> QED BY <3>2, Zenon DEF Owning, Forming
  <2> QED BY <2>1, <2>2, Zenon DEF BmpExtendInit
<1>9. SizesAgree'
  <2>1. CASE UNCHANGED sizes
    <3>1. /\ pc[t] # "oops" /\ (pc[t] \in Forming <=> pc'[t] \in Forming)
          /\ pc[t] \in Forming => loc'[t].init = loc[t].init /\ loc'[t].data = loc[t].data
      BY <1>5, <1>8, Zenon
    <3> QED BY <1>1, <1>7, <1>8, <2>1, <3>1, AgreeKept, Zenon
  <2>2. CASE BmpInitialized(sz["bmp"].init + BmpStep)
    <3>1. \A u \in Tasks : pc[u] \notin Forming \cup {"oops"}
      BY <1>1, <1>3, <1>5, LockIsOne, Zenon DEF UnderLock, Forming
    <3>2. \A u \in Tasks : pc'[u] \notin Forming \cup {"oops"}
      BY <1>8, <3>1, Zenon DEF Moves
    <3>3. ~errors => AllAgree /\ used = sz["bmp"].rl + sz["mft"].rl
      BY <1>1, <3>1, AgreeSplit, Zenon DEF AgreeIfFormed
    <3>4. AgreeIfFormed'
      BY AgreeSplit, PTL
    <3> SUFFICES ASSUME ~errors' PROVE AllAgree' /\ used' = sz'["bmp"].rl + sz'["mft"].rl
      BY <3>2, <3>4, Zenon DEF AgreeIfFormed
    <3>5. AllAgree /\ used = sz["bmp"].rl + sz["mft"].rl
      BY <1>7, <3>3, Zenon
    <3>6. /\ sz'["mft"] = sz["mft"] /\ at'["mft"] = at["mft"]
          /\ at'["bmp"].init = sz'["bmp"].init /\ at'["bmp"].data = sz'["bmp"].data
          /\ sz'["bmp"].alloc = sz["bmp"].alloc /\ at'["bmp"].alloc = at["bmp"].alloc
          /\ sz'["bmp"].rl = sz["bmp"].rl /\ at'["bmp"].map = at["bmp"].map
      BY <1>1, <1>3, <2>2, BmpInitializedSizes, Zenon
    <3>7. \A x \in Attributes : x = "bmp" \/ x = "mft"
      BY Zenon DEF Attributes
    <3>8. AllAgree'
      <4> SUFFICES ASSUME NEW y \in Attributes
                   PROVE  /\ at'[y].init = sz'[y].init /\ at'[y].data = sz'[y].data
                          /\ sz'[y].alloc = at'[y].alloc
                          /\ sz'[y].rl = at'[y].map /\ sz'[y].alloc = sz'[y].rl * Unit(y)
        BY Zenon DEF AllAgree, Unit
      <4>1. /\ at[y].init = sz[y].init /\ at[y].data = sz[y].data /\ sz[y].alloc = at[y].alloc
            /\ sz[y].rl = at[y].map /\ sz[y].alloc = sz[y].rl * Unit(y)
        BY <3>5, Zenon DEF AllAgree
      <4>2. CASE y = "mft"
        BY <3>6, <4>1, <4>2, Zenon
      <4>3. CASE y = "bmp"
        BY <3>6, <4>1, <4>3, ZenonT(30)
      <4> QED BY <3>7, <4>2, <4>3, Zenon
    <3> QED BY <1>1, <3>5, <3>6, <3>8, Zenon
  <2> QED BY <1>6, <2>1, <2>2, Zenon
<1>10. sz["mft"].init <= sz'["mft"].init
  BY <1>4, <1>6
<1> QED
  BY <1>1, <1>3, <1>6, <1>7, <1>8, <1>9, <1>10, LockedStep, Zenon

(* The sizes and types, when only the bitmap and the task change.          *)
LEMMA BitStep ==
  ASSUME AllocInv, NEW t \in Tasks, Moves(t), UNCHANGED <<sizes, record, dataPos>>,
         UNCHANGED refs, errors' = errors \/ errors' = TRUE, Placed(t)',
         pc[t] \notin Forming \cup {"oops"}, pc'[t] \notin Forming \cup {"oops"}
  PROVE  /\ Types' /\ InOrder' /\ SizesAgree' /\ KeepsBelow
         /\ \A u \in Tasks : Placed(u)'
<1>1. Types /\ InOrder /\ SizesAgree /\ \A u \in Tasks : Placed(u)
  BY Zenon DEF AllocInv
<1>2. /\ UNCHANGED <<sz, at, used, mem, disk, dataPos, live, issued, frees>>
      /\ UNCHANGED sizes
  BY Zenon DEF sizes, record, refs
<1>3. lock' \in Tasks \cup {NoTask} /\ errors' \in BOOLEAN /\ (~errors' => ~errors)
  <2>1. errors \in BOOLEAN
    BY <1>1, Zenon DEF Types
  <2>2. errors' \in BOOLEAN /\ (~errors' => ~errors)
    BY <2>1, MarkStays, Zenon
  <2> QED BY <1>1, <2>2, Zenon DEF Types, Moves, Locks
<1>4. Types'
  BY <1>1, <1>2, <1>3, Zenon DEF Types, Moves
<1>5. InOrder'
  BY <1>1, <1>2, Zenon DEF InOrder
<1>6. SizesAgree'
  <2>1. /\ pc[t] # "oops" /\ (pc[t] \in Forming <=> pc'[t] \in Forming)
        /\ pc[t] \in Forming => loc'[t].init = loc[t].init /\ loc'[t].data = loc[t].data
    BY Zenon
  <2> QED BY <1>1, <1>2, <1>3, <2>1, AgreeKept, Zenon
<1>7. KeepsBelow
  <2>1. sz["mft"].init \in Nat
    BY <1>1 DEF Types, Attributes
  <2>2. sz'["mft"].init \in Nat /\ sz["mft"].init <= sz'["mft"].init
    BY <1>2, <2>1
  <2>3. pc'[t] \in Forming => pc[t] \in Forming /\ loc'[t].init = loc[t].init
    BY Zenon
  <2> QED BY <1>1, <2>2, <2>3, BelowKept, Zenon
<1>8. \A u \in Tasks : Placed(u)'
  BY <1>1, <1>2, <1>7, OthersPlaced, Zenon
<1> QED
  BY <1>4, <1>5, <1>6, <1>7, <1>8, Zenon

(* A task sets a bit that is nobody's.                                     *)
LEMMA ClaimStep ==
  ASSUME AllocInv, NEW t \in Tasks, Moves(t), lock \in {t, NoTask},
         UNCHANGED <<sizes, record, dataPos>>, UNCHANGED refs, UNCHANGED errors,
         pc[t] \in {"idle", "setbit"}, pc'[t] = "have", Placed(t)',
         bmp' = bmp \cup {loc'[t].bit}, loc'[t].bit >= Reserved,
         \A x \in live : x.r # loc'[t].bit,
         \A u \in Tasks \ {t} : pc[u] \in Owning => loc[u].bit # loc'[t].bit
  PROVE  AllocInv'
<1>1. Types /\ Given /\ FullIsFull /\ \A u \in Tasks : Placed(u) /\ Owned(u)
  BY Zenon DEF AllocInv
<1>2. pc[t] \notin Forming \cup {"oops"} /\ pc'[t] \notin Forming \cup {"oops", "full"}
  BY Zenon DEF Forming
<1>3. /\ Types' /\ InOrder' /\ SizesAgree' /\ KeepsBelow /\ \A u \in Tasks : Placed(u)'
  BY <1>2, BitStep, Zenon
<1>4. UNCHANGED <<disk, live, issued>> /\ bmp \subseteq bmp' /\ \A x \in live : mem'[x.r] = mem[x.r]
  BY Zenon DEF record, refs
<1>5. Given'
  BY <1>1, <1>3, <1>4, GivenKept, Zenon
<1>6. FullIsFull'
  BY <1>1, <1>2, FullKept, Zenon
<1>7. ASSUME NEW u \in Tasks PROVE Owned(u)'
  <2>1. CASE u = t
    BY <1>4, <2>1, Zenon DEF Owned, Moves
  <2>2. CASE u # t
    <3> SUFFICES ASSUME pc'[u] \in Owning
                 PROVE  /\ loc'[u].bit \in bmp' /\ loc'[u].bit >= Reserved
                        /\ \A x \in live' : x.r # loc'[u].bit
                        /\ \A v \in Tasks \ {u} : pc'[v] \in Owning => loc'[v].bit # loc'[u].bit
      BY Zenon DEF Owned
    <3>1. pc[u] \in Owning /\ loc'[u].bit = loc[u].bit
      BY <2>2, Zenon DEF Moves
    <3>2. /\ loc[u].bit \in bmp /\ loc[u].bit >= Reserved
          /\ \A x \in live : x.r # loc[u].bit
          /\ \A v \in Tasks \ {u} : pc[v] \in Owning => loc[v].bit # loc[u].bit
      BY <1>1, <3>1, Zenon DEF Owned
    <3>3. ASSUME NEW v \in Tasks \ {u}, pc'[v] \in Owning PROVE loc'[v].bit # loc'[u].bit
      <4>1. CASE v = t
        BY <2>2, <3>1, <4>1, Zenon
      <4>2. CASE v # t
        <5>1. pc[v] \in Owning /\ loc'[v].bit = loc[v].bit
          BY <3>3, <4>2, Zenon DEF Moves
        <5> QED BY <3>1, <3>2, <5>1, Zenon
      <4> QED BY <4>1, <4>2, Zenon
    <3> QED BY <1>4, <3>1, <3>2, <3>3, Zenon
  <2> QED BY <2>1, <2>2, Zenon
<1> QED
  BY <1>3, <1>5, <1>6, <1>7, Zenon DEF AllocInv

(* The task that found no clear bit sets the next one.                     *)
LEMMA SetBitKeeps ==
  ASSUME AllocInv, NEW t \in Tasks, SetBit(t)
  PROVE  AllocInv'
<1>1. /\ Types /\ InOrder /\ Given /\ (\A u \in Tasks : Placed(u)) /\ Placed(t)
      /\ UNCHANGED <<sizes, record, dataPos>> /\ UNCHANGED refs /\ UNCHANGED errors
      /\ UNCHANGED <<sizes, record, dataPos, refs, errors>>
  BY Zenon DEF AllocInv, SetBit
<1>2. pc[t] = "setbit"
  BY Zenon DEF SetBit, Fail, Done, Goto
<1>3. /\ lock = t /\ ~loc[t].formatted /\ sz["mft"].init <= loc[t].bit
         /\ loc[t].bit < sz["bmp"].init
  BY <1>1, <1>2, Zenon DEF Placed, UnderLock
<1>4. CASE Goto(t, "setbit", "have") /\ bmp' = bmp \cup {loc[t].bit} /\ UNCHANGED <<lock, loc>>
  <2>1. "have" \in Places /\ Locks(t) /\ UNCHANGED loc /\ UNCHANGED sz
    BY <1>1, <1>4, Zenon DEF Places, Locks, sizes
  <2>2. Moves(t) /\ pc'[t] = "have"
    BY <1>1, <1>4, <2>1, StaysLocal, Zenon
  <2>3. Placed(t)'
    BY <1>3, <1>4, <2>1, <2>2, Zenon DEF Placed, Forming
  <2>4. loc[t].bit \in Nat /\ sz["mft"].init \in Nat /\ Reserved <= sz["mft"].init
    BY <1>1, Typed, Zenon DEF InOrder
  <2>5. ASSUME NEW r \in Records, Below(r) PROVE r # loc[t].bit
    BY <1>3, <2>4, <2>5, Sizes DEF Below, Records
  <2>6. ASSUME NEW x \in live PROVE x.r # loc[t].bit
    <3>1. x.r \in Records /\ <<x.r, x.seq>> \in issued /\ <<x.r, x.seq>>[1] = x.r
      BY <1>1 DEF Types, Given, References
    <3>2. Below(x.r)
      BY <1>1, <3>1, Zenon DEF Given
    <3> QED BY <3>1, <3>2, <2>5, Zenon
  <2>7. ASSUME NEW u \in Tasks \ {t}, pc[u] \in Owning PROVE loc[u].bit # loc[t].bit
    <3>1. pc[u] \notin UnderLock /\ lock # u
      BY <1>1, <1>3, LockIsOne, Zenon
    <3>2. Below(loc[u].bit)
      BY <1>1, <2>7, <3>1, ZenonT(30) DEF Placed, Owning, UnderLock
    <3>3. loc[u].bit \in Records
      BY <1>1 DEF Types, Locals
    <3> QED BY <2>5, <3>2, <3>3, Zenon
  <2>8. loc[t].bit >= Reserved
    BY <1>3, <2>4, Sizes
  <2> QED BY <1>1, <1>2, <1>3, <1>4, <2>1, <2>2, <2>3, <2>6, <2>7, <2>8, ClaimStep, ZenonT(30)
<1>5. CASE Fail(t, "setbit") /\ UNCHANGED bmp
  <2>1. Done(t, "setbit") /\ Locks(t)
    BY <1>3, <1>5, Zenon DEF Fail, Locks
  <2>2. Moves(t) /\ pc'[t] = "idle" /\ Placed(t)'
    BY <1>1, <2>1, Ends, Zenon
  <2>3. /\ pc[t] # "oops" /\ pc'[t] # "full" /\ pc[t] \notin Forming /\ pc'[t] \notin Forming
        /\ pc'[t] \notin Owning /\ UNCHANGED <<bmp, sizes, record, dataPos, refs, errors>>
    BY <1>1, <1>2, <1>5, <2>2, Zenon DEF Forming, Owning
  <2> QED BY <2>2, <2>3, PlaceStep, Zenon
<1> QED
  BY <1>4, <1>5, Zenon DEF SetBit

(* The task has a bit: the record is initialized, allocated or neither.    *)
LEMMA HaveBitKeeps ==
  ASSUME AllocInv, NEW t \in Tasks, HaveBit(t)
  PROVE  AllocInv'
<1>1. /\ Types /\ InOrder /\ SizesAgree /\ Placed(t) /\ (\A u \in Tasks : Placed(u))
      /\ UNCHANGED <<bmp, sizes, record, dataPos, refs, errors>>
      /\ UNCHANGED <<sz, at, used, mem, disk>> /\ UNCHANGED <<bmp, disk, refs>>
      /\ UNCHANGED <<dataPos, live, issued, frees, errors>>
  BY Zenon DEF AllocInv, HaveBit, sizes, record, refs
<1>2. pc[t] = "have"
  BY Zenon DEF HaveBit, Goto
<1>3. lock = t /\ ~loc[t].formatted /\ loc[t].bit < sz["bmp"].init /\ pc[t] \in Owning
  BY <1>1, <1>2, Zenon DEF Placed, UnderLock, Owning
<1>4. \A u \in Tasks : pc[u] \notin Forming \cup {"oops"}
  BY <1>1, <1>2, <1>3, LockIsOne, Zenon DEF UnderLock, Forming
<1>5. CASE /\ loc[t].bit < sz["mft"].init
           /\ Goto(t, "have", "prepare") /\ lock' = NoTask /\ UNCHANGED loc
  <2>1. "prepare" \in Places /\ Locks(t) /\ UNCHANGED loc
    BY <1>3, <1>5, Zenon DEF Places, Locks
  <2>2. Moves(t) /\ pc'[t] = "prepare"
    BY <1>1, <1>5, <2>1, StaysLocal, Zenon
  <2>3. pc'[t] \notin Forming \cup UnderLock
                      \cup {"full", "bmpalloc", "bmpinit", "setbit", "have", "extend"}
    BY <2>2, Zenon DEF Forming, UnderLock
  <2>4. \A u \in Tasks : pc'[u] \notin Forming
    BY <1>4, <2>2, <2>3, Zenon DEF Moves
  <2>5. (Below(loc[t].bit))'
    BY <1>1, <1>5, <2>4, Zenon DEF Below
  <2>6. Placed(t)'
    BY <2>2, <2>3, <2>5, Zenon DEF Placed
  <2>7. /\ pc[t] # "oops" /\ pc[t] \notin Forming
        /\ pc'[t] \in Owning => pc[t] \in Owning /\ loc'[t].bit = loc[t].bit
    BY <1>3, <1>4, <1>5, Zenon
  <2> QED BY <1>1, <2>2, <2>3, <2>6, <2>7, PlaceStep, Zenon
<1>6. CASE Goto(t, "have", "extend") /\ UNCHANGED <<lock, loc>>
  <2>1. "extend" \in Places /\ Locks(t) /\ UNCHANGED loc
    BY <1>6, Zenon DEF Places, Locks
  <2>2. Moves(t) /\ pc'[t] = "extend"
    BY <1>1, <1>6, <2>1, StaysLocal, Zenon
  <2>3. Placed(t)'
    BY <1>1, <1>3, <1>6, <2>2, Zenon DEF Placed, Forming
  <2>4. /\ pc[t] # "oops" /\ pc[t] \notin Forming /\ pc'[t] \notin Forming /\ pc'[t] # "full"
        /\ pc'[t] \in Owning => pc[t] \in Owning /\ loc'[t].bit = loc[t].bit
    BY <1>3, <1>4, <2>1, <2>2, Zenon DEF Forming
  <2> QED BY <1>1, <2>2, <2>3, <2>4, PlaceStep, Zenon
<1>7. CASE /\ loc[t].bit >= sz["mft"].init /\ loc[t].bit < sz["mft"].alloc
           /\ Goto(t, "have", "format")
           /\ loc' = [loc EXCEPT ![t].init = sz["mft"].init, ![t].data = sz["mft"].data]
           /\ UNCHANGED lock
  <2> DEFINE l == [loc[t] EXCEPT !.init = sz["mft"].init, !.data = sz["mft"].data]
  <2>1. loc[t] \in Locals /\ sz["mft"].init \in Nat /\ sz["mft"].data \in Nat
    BY <1>1, Typed, Zenon DEF Types
  <2>2. /\ l \in Locals /\ l.bit = loc[t].bit /\ l.formatted = loc[t].formatted
        /\ l.init = sz["mft"].init /\ l.data = sz["mft"].data
    BY <2>1, Zenon DEF Locals
  <2>3. loc' = [loc EXCEPT ![t] = l] /\ Goto(t, "have", "format")
    BY <1>7, Zenon
  <2> HIDE DEF l
  <2>4. "format" \in Places /\ Locks(t)
    BY <1>7, Zenon DEF Places, Locks
  <2>5. Moves(t) /\ pc'[t] = "format" /\ loc'[t] = l
    BY <1>1, <2>2, <2>3, <2>4, SetsLocal, Zenon
  <2>6. /\ loc'[t].bit = loc[t].bit /\ ~loc'[t].formatted
        /\ loc'[t].init = sz["mft"].init /\ loc'[t].data = sz["mft"].data
    BY <1>3, <2>2, <2>5, Zenon
  <2>7. Placed(t)'
    <3>1. /\ sz["mft"].init \in Nat /\ sz["mft"].data \in Nat /\ sz["mft"].alloc \in Nat
             /\ loc[t].bit \in Nat
          /\ sz["mft"].init <= sz["mft"].data /\ sz["mft"].data <= sz["mft"].alloc
          /\ Reserved <= sz["mft"].init
      BY <1>1, Typed, Zenon DEF InOrder, Attributes
    <3>2. sz["mft"].init <= loc[t].bit /\ sz["mft"].init <= sz["mft"].init
      BY <1>7, <3>1
    <3>3. lock' = t
      BY <1>3, <1>7, Zenon
    <3> QED BY <1>1, <1>3, <1>7, <2>5, <2>6, <3>1, <3>2, <3>3, ZenonT(30) DEF Placed, Forming
  <2>8. KeepsBelow
    <3> SUFFICES ASSUME NEW r \in Nat, Below(r) PROVE Below(r)'
      BY Zenon DEF KeepsBelow
    <3> QED BY <1>1, <2>5, <2>6, Zenon DEF Below, Moves
  <2>9. SizesAgree'
    <3>1. ~errors => AllAgree /\ used = sz["bmp"].rl + sz["mft"].rl
      BY <1>1, <1>4, AgreeSplit, Zenon DEF AgreeIfFormed
    <3>2. "bmp" \in Attributes /\ "mft" \in Attributes /\ Unit("mft") = MftCluster
      BY Zenon DEF Attributes, Unit
    <3> SUFFICES ASSUME ~errors'
                 PROVE  /\ Agree("bmp")
                        /\ sz["mft"].alloc = at["mft"].alloc /\ sz["mft"].rl = at["mft"].map
                        /\ sz["mft"].alloc = sz["mft"].rl * MftCluster
                        /\ used = sz["bmp"].rl + sz["mft"].rl
                        /\ \A u \in Tasks : pc'[u] \in Forming =>
                             at["mft"].init = loc'[u].init /\ at["mft"].data = loc'[u].data
                        /\ ~\A u \in Tasks : pc'[u] \notin Forming
      BY <1>1, Zenon DEF SizesAgree, Agree
    <3>3a. ~errors
      BY <1>1, MarkStays, Zenon DEF Types
    <3>3. Agree("bmp")
      BY <3>1, <3>2, <3>3a, Zenon DEF AllAgree, Agree
    <3>4. /\ sz["mft"].alloc = at["mft"].alloc /\ sz["mft"].rl = at["mft"].map
          /\ sz["mft"].alloc = sz["mft"].rl * MftCluster
          /\ at["mft"].init = sz["mft"].init /\ at["mft"].data = sz["mft"].data
      BY <3>1, <3>2, <3>3a, Zenon DEF AllAgree
    <3>5. \A u \in Tasks : pc'[u] \in Forming => u = t
      BY <1>4, <2>5, Zenon DEF Moves
    <3>6. pc'[t] \in Forming
      BY <2>5, Zenon DEF Forming
    <3> QED BY <2>6, <3>1, <3>3a, <3>3, <3>4, <3>5, <3>6, Zenon
  <2>10. Types'
    <3>1. lock' \in Tasks \cup {NoTask}
      BY <1>3, <1>7, Zenon
    <3> QED BY <1>1, <2>5, <3>1, Zenon DEF Types, Moves
  <2>11. InOrder' /\ sz' = sz /\ \A r \in Records : mem'[r] = mem[r] \/ ~Below(r)
    BY <1>1, Zenon DEF InOrder
  <2>12. pc'[t] # "full" /\ (pc'[t] \in Owning => pc[t] \in Owning /\ loc'[t].bit = loc[t].bit)
    BY <1>3, <2>5, <2>6, Zenon
  <2> QED BY <1>1, <2>5, <2>7, <2>8, <2>9, <2>10, <2>11, <2>12, SizesStep, ZenonT(30)
<1> QED
  BY <1>5, <1>6, <1>7, Zenon DEF HaveBit

(* The sizes agree while records are formed.                               *)
LEMMA AgreeForming ==
  ASSUME Types, SizesAgree, NEW t \in Tasks, Moves(t), pc[t] \in Forming, pc'[t] \in Forming,
         UNCHANGED <<at, used, errors, loc>>, sz'["bmp"] = sz["bmp"],
         sz'["mft"].alloc = sz["mft"].alloc, sz'["mft"].rl = sz["mft"].rl
  PROVE  SizesAgree'
<1> SUFFICES ASSUME ~errors', \A u \in Tasks : pc'[u] # "oops"
             PROVE  /\ Agree("bmp")
                    /\ sz["mft"].alloc = at["mft"].alloc /\ sz["mft"].rl = at["mft"].map
                    /\ sz["mft"].alloc = sz["mft"].rl * MftCluster
                    /\ used = sz["bmp"].rl + sz["mft"].rl
                    /\ \A u \in Tasks : pc[u] \in Forming =>
                         at["mft"].init = loc[u].init /\ at["mft"].data = loc[u].data
  <2>1. \A u \in Tasks : pc'[u] \in Forming => pc[u] \in Forming
    BY Zenon DEF Moves
  <2>2. ~\A u \in Tasks : pc'[u] \notin Forming
    BY Zenon
  <2> QED BY <2>1, <2>2, Zenon DEF SizesAgree, Agree
<1>1. ~errors
  BY MarkStays, Zenon DEF Types
<1>2. \A u \in Tasks : pc[u] # "oops"
  BY Zenon DEF Moves, Forming
<1> QED
  BY <1>1, <1>2, Zenon DEF SizesAgree

(* A record is formed, or that fails.                                      *)
LEMMA FormatRecordKeeps ==
  ASSUME AllocInv, NEW t \in Tasks, FormatRecord(t)
  PROVE  AllocInv'
<1> DEFINE r == sz["mft"].init  data == Max({sz["mft"].data, r + 1})
<1>1. /\ Types /\ InOrder /\ SizesAgree /\ Placed(t) /\ r <= loc[t].bit
      /\ UNCHANGED <<lock, bmp, at, used, disk, dataPos, refs, errors, loc>>
      /\ UNCHANGED <<bmp, disk, refs>> /\ UNCHANGED <<at, used, errors, loc>>
  BY Zenon DEF AllocInv, FormatRecord
<1>2. pc[t] = "format"
  BY Zenon DEF FormatRecord, Goto
<1>3. /\ lock = t /\ ~loc[t].formatted /\ loc[t].bit < sz["bmp"].init
      /\ loc[t].bit < sz["mft"].alloc /\ loc[t].init <= loc[t].bit
      /\ Reserved <= loc[t].init /\ loc[t].init <= sz["mft"].init
      /\ loc[t].init <= loc[t].data /\ loc[t].data <= sz["mft"].alloc
  BY <1>1, <1>2, Zenon DEF Placed, UnderLock, Forming
<1>4. /\ r \in Nat /\ sz["mft"].data \in Nat /\ sz["mft"].alloc \in Nat
      /\ sz["bmp"].init \in Nat /\ loc[t].bit \in Nat /\ loc[t].bit \in Records
      /\ loc[t].init \in Nat /\ sz["mft"].data <= sz["mft"].alloc /\ Reserved <= r
      /\ r <= sz["mft"].data
  BY <1>1, Typed, Zenon DEF InOrder, Attributes
<1>5. data = IF sz["mft"].data >= r + 1 THEN sz["mft"].data ELSE r + 1
  BY <1>4, OfTwo
<1>6. /\ data \in Nat /\ r + 1 \in Nat /\ r <= r + 1 /\ r <= data /\ r + 1 <= data
      /\ data <= sz["mft"].alloc /\ r + 1 <= sz["bmp"].init
  BY <1>3, <1>4, <1>5, <1>1
<1>7. PICK to \in {"format", "undoinit"} : Goto(t, "format", to)
  BY Zenon DEF FormatRecord
<1>8. Moves(t) /\ pc'[t] = to /\ pc'[t] \in Forming /\ pc[t] \in Forming
  <2>1. to \in Places /\ Locks(t) /\ UNCHANGED loc
    BY <1>1, Zenon DEF Places, Locks
  <2>2. Moves(t) /\ pc'[t] = to
    BY <1>1, <1>7, <2>1, StaysLocal, Zenon
  <2> QED BY <1>2, <2>2, Zenon DEF Forming
<1>9. /\ sz \in [Attributes -> [init : Nat, data : Nat, alloc : Nat, rl : Nat]]
      /\ mem \in [Records -> [use : BOOLEAN, seq : Nat, dirty : BOOLEAN]]
      /\ "mft" \in Attributes /\ "bmp" \in Attributes \ {"mft"}
  BY <1>1, ZenonT(30) DEF Types, Attributes
<1>10. r \in Records
  BY <1>1, <1>4, Sizes DEF Records
<1>11. \/ /\ sz' = [sz EXCEPT !["mft"].init = r + 1, !["mft"].data = data]
          /\ mem' = [mem EXCEPT ![r] = Layout(r)]
       \/ /\ sz' = [sz EXCEPT !["mft"].data = data]
          /\ UNCHANGED mem
  BY Zenon DEF FormatRecord
<1> HIDE DEF data, r
<1>12. /\ sz' \in [Attributes -> [init : Nat, data : Nat, alloc : Nat, rl : Nat]]
       /\ sz'["bmp"] = sz["bmp"] /\ sz'["mft"].alloc = sz["mft"].alloc
       /\ sz'["mft"].rl = sz["mft"].rl /\ sz'["mft"].data = data
       /\ sz'["mft"].init = sz["mft"].init \/ sz'["mft"].init = r + 1
  <2>1. CASE sz' = [sz EXCEPT !["mft"].init = r + 1, !["mft"].data = data]
    BY <1>6, <1>9, <2>1, ZenonT(30)
  <2>2. CASE sz' = [sz EXCEPT !["mft"].data = data]
    BY <1>6, <1>9, <2>2, Zenon
  <2> QED BY <1>11, <2>1, <2>2, Zenon
<1>13. /\ mem' \in [Records -> [use : BOOLEAN, seq : Nat, dirty : BOOLEAN]]
       /\ \A q \in Records : mem'[q] = mem[q] \/ q = r
  <2>1. Layout(r) \in [use : BOOLEAN, seq : Nat, dirty : BOOLEAN]
    BY DEF Layout
  <2>2. CASE mem' = [mem EXCEPT ![r] = Layout(r)]
    BY <1>9, <1>10, <2>1, <2>2, Zenon
  <2>3. CASE UNCHANGED mem
    BY <1>9, <2>3, Zenon
  <2> QED BY <1>11, <2>2, <2>3, Zenon
<1>14. Types'
  BY <1>1, <1>8, <1>12, <1>13, ZenonT(30) DEF Types, Moves, refs
<1>15. sz'["mft"].init \in Nat /\ sz["mft"].init <= sz'["mft"].init
       /\ sz'["mft"].init <= sz'["bmp"].init
       /\ sz'["mft"].init <= sz'["mft"].data /\ sz'["mft"].data <= sz'["mft"].alloc
  <2>1. sz["mft"].init <= sz["bmp"].init
    BY <1>1, Zenon DEF InOrder
  <2> QED BY <1>4, <1>6, <1>12, <2>1 DEF r
<1>16. InOrder'
  <2>1. Reserved <= sz'["mft"].init
    BY <1>4, <1>15, Sizes DEF r
  <2> QED BY <1>1, <1>12, <1>15, <2>1, ZenonT(30) DEF InOrder, Attributes
<1>17. SizesAgree'
  BY <1>1, <1>8, <1>12, AgreeForming, Zenon
<1>18. KeepsBelow
  BY <1>1, <1>8, <1>15, BelowKept, Zenon
<1>19. \A q \in Records : mem'[q] = mem[q] \/ ~Below(q)
  <2>1. ~Below(r)
    BY <1>4 DEF Below, r
  <2> QED BY <1>13, <2>1, Zenon
<1>20. Placed(t)'
  <2>1. loc[t].init <= sz'["mft"].init
    BY <1>3, <1>4, <1>15 DEF r
  <2> QED BY <1>1, <1>3, <1>8, <1>12, <2>1, ZenonT(30) DEF Placed, Forming
<1>21. pc'[t] # "full" /\ (pc'[t] \in Owning => pc[t] \in Owning /\ loc'[t].bit = loc[t].bit)
  BY <1>1, <1>8, Zenon DEF Forming, Owning
<1> QED
  BY <1>1, <1>3, <1>8, <1>14, <1>16, <1>17, <1>18, <1>19, <1>20, <1>21, SizesStep, ZenonT(30)

(* They agree when a task is done forming records, or has given them up.   *)
LEMMA AgreeFormed ==
  ASSUME Types, SizesAgree, \A u \in Tasks : Placed(u), NEW t \in Tasks, Moves(t), lock = t,
         pc[t] \in Forming, pc'[t] \notin Forming \cup {"oops"},
         UNCHANGED errors, UNCHANGED used, sz'["bmp"] = sz["bmp"], at'["bmp"] = at["bmp"],
         sz'["mft"].alloc = sz["mft"].alloc, sz'["mft"].rl = sz["mft"].rl,
         at'["mft"].alloc = at["mft"].alloc, at'["mft"].map = at["mft"].map,
         at["mft"].init = loc[t].init /\ at["mft"].data = loc[t].data =>
           at'["mft"].init = sz'["mft"].init /\ at'["mft"].data = sz'["mft"].data
  PROVE  SizesAgree'
<1>1. \A u \in Tasks : pc[u] # "oops" /\ pc'[u] \notin Forming
  <2>1. \A u \in Tasks \ {t} : pc[u] \notin UnderLock
    BY LockIsOne, Zenon
  <2>2. \A u \in Tasks \ {t} : pc[u] # "oops" /\ pc[u] \notin Forming
    BY <2>1, Zenon DEF UnderLock, Forming
  <2>3. \A u \in Tasks \ {t} : pc[u] # "oops" /\ pc'[u] \notin Forming
    BY <2>2, Zenon DEF Moves
  <2>4. pc[t] # "oops"
    BY Zenon DEF Forming
  <2> QED BY <2>3, <2>4, Zenon
<1> SUFFICES ASSUME ~errors'
             PROVE  /\ Agree("bmp")
                    /\ sz["mft"].alloc = at["mft"].alloc /\ sz["mft"].rl = at["mft"].map
                    /\ sz["mft"].alloc = sz["mft"].rl * MftCluster
                    /\ used = sz["bmp"].rl + sz["mft"].rl
                    /\ at["mft"].init = loc[t].init /\ at["mft"].data = loc[t].data
  BY <1>1, Zenon DEF SizesAgree, Agree
<1>2. ~errors
  BY MarkStays, Zenon DEF Types
<1> QED
  BY <1>1, <1>2, Zenon DEF SizesAgree

(* The records are formed and the sizes updated, or that fails.            *)
LEMMA UpdateSizesKeeps ==
  ASSUME AllocInv, NEW t \in Tasks, UpdateSizes(t)
  PROVE  AllocInv'
<1>1. /\ Types /\ InOrder /\ SizesAgree /\ Placed(t) /\ (\A u \in Tasks : Placed(u))
      /\ sz["mft"].init > loc[t].bit
      /\ UNCHANGED <<bmp, sz, used, record, dataPos, refs, errors>>
  BY Zenon DEF AllocInv, UpdateSizes
<1>2. pc[t] = "format" /\ pc[t] \in Forming
  BY Zenon DEF UpdateSizes, Goto, Forming
<1>3. /\ lock = t /\ ~loc[t].formatted /\ loc[t].bit < sz["bmp"].init
      /\ loc[t].bit < sz["mft"].alloc /\ loc[t].init <= loc[t].bit
      /\ Reserved <= loc[t].init /\ loc[t].init <= sz["mft"].init
      /\ loc[t].init <= loc[t].data /\ loc[t].data <= sz["mft"].alloc
  BY <1>1, <1>2, Zenon DEF Placed, UnderLock
<1>4. /\ UNCHANGED <<bmp, disk, refs>> /\ UNCHANGED <<sz, mem, dataPos, live, issued, frees>>
      /\ UNCHANGED errors /\ UNCHANGED used /\ \A r \in Records : mem'[r] = mem[r] \/ ~Below(r)
      /\ sz' = sz
  BY <1>1, Zenon DEF record, refs
<1>5. InOrder'
  BY <1>1, <1>4, ZenonT(30) DEF InOrder
<1>6. /\ sz["mft"].init \in Nat /\ sz["mft"].data \in Nat
      /\ loc[t].bit \in Nat /\ loc[t].bit < sz["mft"].init
      /\ sz'["mft"].init \in Nat /\ sz["mft"].init <= sz'["mft"].init
  <2>1. sz["mft"].init \in Nat /\ sz["mft"].data \in Nat /\ loc[t].bit \in Nat
    BY <1>1, Typed, Zenon
  <2> QED BY <1>1, <1>4, <2>1
<1>7. at \in [Attributes -> [init : Nat, data : Nat, alloc : Nat, map : Nat]]
      /\ "mft" \in Attributes /\ "bmp" \in Attributes \ {"mft"}
  BY <1>1, Zenon DEF Types, Attributes
<1>8. CASE /\ Goto(t, "format", "prepare") /\ lock' = NoTask
           /\ at' = [at EXCEPT !["mft"].init = sz["mft"].init, !["mft"].data = sz["mft"].data]
           /\ loc' = [loc EXCEPT ![t].formatted = TRUE, ![t].init = 0, ![t].data = 0]
  <2>1. "prepare" \in Places /\ Locks(t) /\ Goto(t, "format", "prepare") /\ lock' = NoTask
    BY <1>3, <1>8, Zenon DEF Places, Locks
  <2>2. PICK l : l = [loc[t] EXCEPT !.formatted = TRUE, !.init = 0, !.data = 0]
    BY Zenon
  <2>3. l \in Locals /\ l.bit = loc[t].bit
    <3>1. loc[t] \in Locals
      BY <1>1, Zenon DEF Types
    <3> QED BY <2>2, <3>1, Zenon DEF Locals
  <2>4. loc' = [loc EXCEPT ![t] = l]
    <3>1. loc \in [Tasks -> Locals]
      BY <1>1, Zenon DEF Types
    <3>2. \A u \in Tasks : [loc EXCEPT ![t].formatted = TRUE, ![t].init = 0, ![t].data = 0][u]
                           = [loc EXCEPT ![t] = l][u]
      BY <2>2, <3>1, Zenon
    <3> QED BY <1>8, <3>1, <3>2, Zenon
  <2>5. Moves(t) /\ pc'[t] = "prepare" /\ loc'[t].bit = loc[t].bit
    BY <1>1, <2>1, <2>3, <2>4, SetsLocal, Zenon
  <2>6. /\ at' \in [Attributes -> [init : Nat, data : Nat, alloc : Nat, map : Nat]]
        /\ at'["mft"].init = sz["mft"].init /\ at'["mft"].data = sz["mft"].data
        /\ at'["mft"].alloc = at["mft"].alloc /\ at'["mft"].map = at["mft"].map
        /\ at'["bmp"] = at["bmp"]
    BY <1>6, <1>7, <1>8, Zenon
  <2>7. Types'
    BY <1>1, <1>4, <2>1, <2>5, <2>6, Zenon DEF Types, Moves
  <2>8. pc'[t] \notin Forming \cup {"oops"}
    BY <2>5, Zenon DEF Forming
  <2>9. SizesAgree'
    BY <1>1, <1>2, <1>3, <1>4, <2>5, <2>6, <2>8, AgreeFormed, ZenonT(30)
  <2>10. KeepsBelow
    BY <1>1, <1>6, <2>5, <2>8, BelowKept, Zenon
  <2>11. \A u \in Tasks : pc'[u] \notin Forming
    BY <1>1, <1>3, <2>5, <2>8, LockIsOne, Zenon DEF Moves, UnderLock, Forming
  <2>12. Below(loc[t].bit)'
    <3>1. loc'[t].bit < sz'["mft"].init
      BY <1>4, <1>6, <2>5, Zenon
    <3> QED BY <2>11, <3>1, Zenon DEF Below
  <2>13. Placed(t)'
    BY <2>5, <2>8, <2>12, Zenon DEF Placed, UnderLock
  <2>14. pc'[t] # "full" /\ (pc'[t] \in Owning => pc[t] \in Owning /\ loc'[t].bit = loc[t].bit)
    BY <1>2, <2>5, Zenon DEF Owning
  <2> QED BY <1>4, <1>5, <2>5, <2>7, <2>9, <2>10, <2>13, <2>14, SizesStep, ZenonT(30)
<1>9. CASE Goto(t, "format", "undoinit") /\ UNCHANGED <<lock, at, loc>>
  <2>1. /\ "undoinit" \in Places /\ Locks(t) /\ Goto(t, "format", "undoinit")
        /\ UNCHANGED loc /\ UNCHANGED at /\ lock' = lock
    BY <1>3, <1>9, Zenon DEF Places, Locks
  <2>2. Moves(t) /\ pc'[t] = "undoinit"
    BY <1>1, <2>1, StaysLocal, Zenon
  <2>3. pc'[t] \in Forming /\ pc'[t] # "full"
    BY <2>2, Zenon DEF Forming
  <2>4. Types'
    BY <1>1, <1>4, <2>1, <2>2, Zenon DEF Types, Moves
  <2>5. SizesAgree'
    BY <1>1, <1>2, <1>4, <2>1, <2>2, <2>3, AgreeForming, Zenon
  <2>6. KeepsBelow
    BY <1>1, <1>2, <1>6, <2>1, <2>2, BelowKept, Zenon
  <2>7. Placed(t)'
    BY <1>3, <1>4, <2>1, <2>2, Zenon DEF Placed, Forming
  <2>8. pc'[t] \in Owning => pc[t] \in Owning /\ loc'[t].bit = loc[t].bit
    BY <1>2, <2>1, Zenon DEF Owning
  <2> QED BY <1>4, <1>5, <2>2, <2>3, <2>4, <2>5, <2>6, <2>7, <2>8, SizesStep, ZenonT(30)
<1> QED
  BY <1>8, <1>9, Zenon DEF UpdateSizes

(* The records that were formed are given up, and the sizes put back.      *)
LEMMA UndoInitKeeps ==
  ASSUME AllocInv, NEW t \in Tasks, UndoInit(t)
  PROVE  AllocInv'
<1>1. /\ Types /\ InOrder /\ SizesAgree /\ Placed(t) /\ (\A u \in Tasks : Placed(u))
      /\ Goto(t, "undoinit", "clearbit")
      /\ sz' = [sz EXCEPT !["mft"].init = loc[t].init, !["mft"].data = loc[t].data]
      /\ loc' = [loc EXCEPT ![t].init = 0, ![t].data = 0]
      /\ UNCHANGED <<lock, bmp, at, used, record, dataPos, refs, errors>>
  BY Zenon DEF AllocInv, UndoInit
<1>2. pc[t] = "undoinit" /\ pc[t] \in Forming
  BY <1>1, Zenon DEF Goto, Forming
<1>3. /\ lock = t /\ Reserved <= loc[t].init /\ loc[t].init <= sz["mft"].init
      /\ loc[t].init <= loc[t].data /\ loc[t].data <= sz["mft"].alloc
  BY <1>1, <1>2, Zenon DEF Placed, UnderLock
<1>4. /\ UNCHANGED <<bmp, disk, refs>> /\ UNCHANGED <<at, mem, dataPos, live, issued, frees>>
      /\ UNCHANGED errors /\ UNCHANGED used /\ \A r \in Records : mem'[r] = mem[r] \/ ~Below(r)
      /\ lock' = lock
  BY <1>1, Zenon DEF record, refs
<1>5. "clearbit" \in Places /\ Locks(t)
  BY <1>4, Zenon DEF Places, Locks
<1>6. PICK l : l = [loc[t] EXCEPT !.init = 0, !.data = 0]
  BY Zenon
<1>7. l \in Locals /\ l.bit = loc[t].bit
  <2>1. loc[t] \in Locals
    BY <1>1, Zenon DEF Types
  <2> QED BY <1>6, <2>1, Zenon DEF Locals
<1>8. loc' = [loc EXCEPT ![t] = l]
  <2>1. loc \in [Tasks -> Locals]
    BY <1>1, Zenon DEF Types
  <2>2. \A u \in Tasks : [loc EXCEPT ![t].init = 0, ![t].data = 0][u] = [loc EXCEPT ![t] = l][u]
    BY <1>6, <2>1, Zenon
  <2> QED BY <1>1, <2>1, <2>2, Zenon
<1>9. Moves(t) /\ pc'[t] = "clearbit" /\ loc'[t].bit = loc[t].bit
  BY <1>1, <1>5, <1>7, <1>8, SetsLocal, Zenon
<1>10. /\ sz \in [Attributes -> [init : Nat, data : Nat, alloc : Nat, rl : Nat]]
       /\ "mft" \in Attributes /\ "bmp" \in Attributes \ {"mft"}
       /\ loc[t].init \in Nat /\ loc[t].data \in Nat /\ sz["mft"].init \in Nat
       /\ sz["bmp"].init \in Nat
  BY <1>1, Typed, Zenon DEF Types, Attributes
<1>11. /\ sz' \in [Attributes -> [init : Nat, data : Nat, alloc : Nat, rl : Nat]]
       /\ sz'["bmp"] = sz["bmp"] /\ sz'["mft"].alloc = sz["mft"].alloc
       /\ sz'["mft"].rl = sz["mft"].rl
       /\ sz'["mft"].init = loc[t].init /\ sz'["mft"].data = loc[t].data
  BY <1>1, <1>10, Zenon
<1>12. Types'
  BY <1>1, <1>4, <1>9, <1>11, Zenon DEF Types, Moves
<1>13. InOrder'
  <2>1. sz["mft"].init <= sz["bmp"].init
    BY <1>1, Zenon DEF InOrder
  <2>2. loc[t].init <= sz["bmp"].init
    BY <1>3, <1>10, <2>1
  <2> QED BY <1>1, <1>3, <1>11, <2>2, Zenon DEF InOrder, Attributes
<1>14. pc'[t] \notin Forming \cup {"oops"}
  BY <1>9, Zenon DEF Forming
<1>15. SizesAgree'
  <2>1. at'["bmp"] = at["bmp"] /\ at'["mft"] = at["mft"]
    BY <1>4, Zenon
  <2> QED BY <1>1, <1>2, <1>3, <1>4, <1>9, <1>11, <1>14, <2>1, AgreeFormed, ZenonT(30)
<1>16. KeepsBelow
  <2>1. \A u \in Tasks : pc'[u] \in Forming => pc[u] \in Forming /\ loc'[u].init = loc[u].init
    BY <1>9, <1>14, Zenon DEF Moves
  <2> QED BY <1>2, <1>11, <2>1, Zenon DEF KeepsBelow, Below
<1>17. Placed(t)'
  BY <1>3, <1>4, <1>9, <1>14, Zenon DEF Placed, UnderLock
<1>18. pc'[t] # "full" /\ (pc'[t] \in Owning => pc[t] \in Owning /\ loc'[t].bit = loc[t].bit)
  BY <1>2, <1>9, Zenon DEF Owning
<1> QED
  BY <1>3, <1>4, <1>9, <1>12, <1>13, <1>15, <1>16, <1>17, <1>18, SizesStep, ZenonT(30)

(* A bit is cleared, or the volume is marked.                              *)
LEMMA ClearBitKeeps ==
  ASSUME AllocInv, NEW t \in Tasks, ClearBit(t)
  PROVE  AllocInv'
<1>1. /\ Types /\ Given /\ FullIsFull /\ (\A u \in Tasks : Placed(u)) /\ (\A u \in Tasks : Owned(u))
      /\ lock \in {t, NoTask} /\ Done(t, "clearbit") /\ lock' = NoTask
      /\ bmp' = bmp \ {loc[t].bit} \/ bmp' = bmp
      /\ errors' = errors \/ errors' = TRUE
      /\ UNCHANGED <<sizes, record, dataPos>> /\ UNCHANGED refs
  BY Zenon DEF AllocInv, ClearBit
<1>2. Locks(t)
  BY <1>1, Zenon DEF Locks
<1>3. Moves(t) /\ pc[t] = "clearbit" /\ pc'[t] = "idle" /\ Placed(t)'
  BY <1>1, <1>2, Ends, Zenon
<1>4. pc[t] \notin Forming \cup {"oops"} /\ pc'[t] \notin Forming \cup {"oops"}
  BY <1>3, Zenon DEF Forming
<1>5. Types' /\ InOrder' /\ SizesAgree' /\ KeepsBelow /\ \A u \in Tasks : Placed(u)'
  BY <1>1, <1>3, <1>4, BitStep, Zenon
<1>6. FullIsFull'
  BY <1>1, <1>3, FullKept, Zenon
<1>7. /\ pc[t] \in Owning /\ pc'[t] \notin Owning
      /\ \A x \in live : x.r # loc[t].bit
      /\ \A u \in Tasks \ {t} : pc[u] \in Owning => loc[u].bit # loc[t].bit
  <2>1. pc[t] \in Owning /\ pc'[t] \notin Owning
    BY <1>3, Zenon DEF Owning
  <2> QED BY <1>1, <2>1, Zenon DEF Owned
<1>8. \A b : b \in bmp /\ b # loc[t].bit => b \in bmp'
  BY <1>1, Zenon
<1>9. UNCHANGED <<mem, disk, live, issued>>
  BY <1>1, Zenon DEF record, refs
<1>10. ASSUME NEW u \in Tasks PROVE Owned(u)'
  <2> SUFFICES ASSUME pc'[u] \in Owning
               PROVE  /\ loc'[u].bit \in bmp' /\ loc'[u].bit >= Reserved
                      /\ \A x \in live' : x.r # loc'[u].bit
                      /\ \A v \in Tasks \ {u} : pc'[v] \in Owning => loc'[v].bit # loc'[u].bit
    BY Zenon DEF Owned
  <2>1. u # t /\ pc[u] \in Owning /\ loc'[u] = loc[u]
    BY <1>3, <1>7, Zenon DEF Moves
  <2>2. /\ loc[u].bit \in bmp /\ loc[u].bit >= Reserved
        /\ \A x \in live : x.r # loc[u].bit
        /\ \A v \in Tasks \ {u} : pc[v] \in Owning => loc[v].bit # loc[u].bit
    BY <1>1, <2>1, Zenon DEF Owned
  <2>3. loc[u].bit \in bmp'
    BY <1>7, <1>8, <2>1, <2>2, Zenon
  <2>4. \A v \in Tasks \ {u} : pc'[v] \in Owning => pc[v] \in Owning /\ loc'[v] = loc[v]
    BY <1>3, <1>7, Zenon DEF Moves
  <2> QED BY <1>9, <2>1, <2>2, <2>3, <2>4, Zenon
<1>11. Given'
  <2>1. \A i \in issued' : Below(i[1])'
    <3>1. \A i \in issued : i[1] \in Nat
      BY <1>1, Sizes DEF Types, Records
    <3> QED BY <1>1, <1>5, <1>9, <3>1, Zenon DEF Given, KeepsBelow
  <2>2. \A x \in live : x.r \in bmp'
    BY <1>1, <1>7, <1>8, Zenon DEF Given
  <2> QED BY <1>1, <1>9, <2>1, <2>2, Zenon DEF Given
<1> QED
  BY <1>5, <1>6, <1>10, <1>11, Zenon DEF AllocInv

(* A task takes the lock and finds a clear bit, or that there is none.     *)
LEMMA SearchKeeps ==
  ASSUME LeastOf, AllocInv, NEW t \in Tasks, NEW ext \in BOOLEAN, NEW base \in Nat,
         Search(t, ext, base)
  PROVE  AllocInv'
<1> DEFINE start == Max({Reserved, IF ext THEN base + 1 ELSE dataPos})
           found == {b \in FoundIn(start) : Min(FoundIn(start)) <= Limit}
           bit == IF found = {} THEN 0 ELSE Min(found)
           l == [NoLoc EXCEPT !.bit = bit, !.ext = ext]
<1>1. /\ Types /\ InOrder /\ Given /\ FullIsFull
      /\ (\A u \in Tasks : Placed(u)) /\ (\A u \in Tasks : Owned(u))
      /\ lock = NoTask /\ lock' = t
      /\ Goto(t, "idle", IF found = {} THEN "full" ELSE "have")
      /\ bmp' = (IF found = {} THEN bmp ELSE bmp \cup {bit})
      /\ loc' = [loc EXCEPT ![t] = l]
      /\ UNCHANGED <<sizes, record, dataPos>> /\ UNCHANGED refs /\ UNCHANGED errors
  BY Zenon DEF AllocInv, Search
<1>2. start \in Nat /\ start >= Reserved
  <2>1. dataPos \in Nat /\ Reserved \in Nat
    BY <1>1, Sizes, Zenon DEF Types
  <2>2. (IF ext THEN base + 1 ELSE dataPos) \in Nat
    BY <2>1
  <2>3. PICK n \in Nat : n = IF ext THEN base + 1 ELSE dataPos
    BY <2>2, Zenon
  <2>4. Max({Reserved, n}) = IF Reserved >= n THEN Reserved ELSE n
    BY <2>1, OfTwo, Zenon
  <2>5. Max({Reserved, n}) \in Nat /\ Max({Reserved, n}) >= Reserved
    BY <2>1, <2>4
  <2> QED BY <2>3, <2>5, Zenon
<1> HIDE DEF start
<1>3. /\ \A b \in FoundIn(start) : /\ b \in Records /\ b \notin bmp
                                   /\ b >= Reserved /\ b < sz["bmp"].init
      /\ FoundIn(start) = {} => Reserved .. PassEnd - 1 \subseteq bmp
  BY <1>1, <1>2, SearchFinds, Zenon
<1>4. found = {} => FoundIn(start) = {}
  <2> SUFFICES ASSUME FoundIn(start) # {} PROVE found # {}
    BY Zenon
  <2>1. FoundIn(start) \subseteq Nat
    BY <1>3, Sizes DEF Records
  <2>2. Min(FoundIn(start)) \in FoundIn(start)
    BY <2>1, Zenon DEF LeastOf
  <2>3. Min(FoundIn(start)) <= Limit
    BY <1>3, <2>2, Sizes DEF Records
  <2> QED BY <2>2, <2>3, Zenon
<1>5. found # {} => bit \in FoundIn(start)
  <2> SUFFICES ASSUME found # {} PROVE Min(found) \in FoundIn(start)
    BY Zenon
  <2>1. found \subseteq Nat
    BY <1>3, Sizes DEF Records
  <2> QED BY <2>1, Zenon DEF LeastOf
<1>6. bit \in Records
  BY <1>3, <1>5, Sizes DEF Records
<1> HIDE DEF found, bit
<1>7. l \in Locals /\ l.bit = bit /\ ~l.formatted
  BY <1>6, NoLocIsLocal, Zenon DEF Locals, NoLoc
<1> HIDE DEF l
<1>8. Locks(t) /\ "full" \in Places /\ "have" \in Places /\ UNCHANGED sz
  BY <1>1, Zenon DEF Locks, Places, sizes
<1>9. CASE found = {}
  <2>1. Goto(t, "idle", "full") /\ bmp' = bmp
    BY <1>1, <1>9, Zenon
  <2>2. Moves(t) /\ pc[t] = "idle" /\ pc'[t] = "full" /\ loc'[t] = l
    BY <1>1, <1>7, <1>8, <2>1, SetsLocal, Zenon
  <2>3. Placed(t)'
    BY <1>1, <1>7, <2>2, Zenon DEF Placed, Forming
  <2>4. pc[t] \notin Forming \cup {"oops"} /\ pc'[t] \notin Forming \cup {"oops"}
        /\ pc'[t] \notin Owning
    BY <2>2, Zenon DEF Forming, Owning
  <2>5. Types' /\ InOrder' /\ SizesAgree' /\ KeepsBelow /\ \A u \in Tasks : Placed(u)'
    BY <1>1, <2>2, <2>3, <2>4, BitStep, Zenon
  <2>6. UNCHANGED <<disk, live, issued>> /\ UNCHANGED <<bmp, live>> /\ bmp \subseteq bmp'
        /\ UNCHANGED <<bmp, sz>> /\ \A x \in live : mem'[x.r] = mem[x.r]
    BY <1>1, <1>8, <2>1, Zenon DEF record, refs
  <2>7. Given'
    BY <1>1, <2>5, <2>6, GivenKept, Zenon
  <2>8. \A u \in Tasks : Owned(u)'
    BY <1>1, <2>2, <2>4, <2>6, OwnedKept, Zenon
  <2>9. (Reserved .. PassEnd - 1 \subseteq bmp)'
    BY <1>3, <1>4, <1>9, <2>6, Zenon DEF PassEnd
  <2>10. FullIsFull'
    BY <1>1, <2>2, <2>6, <2>9, FullKept, Zenon
  <2> QED BY <2>5, <2>7, <2>8, <2>10, Zenon DEF AllocInv
<1>10. CASE found # {}
  <2>1. Goto(t, "idle", "have") /\ bmp' = bmp \cup {bit}
    BY <1>1, <1>10, Zenon
  <2>2. /\ Moves(t) /\ pc[t] = "idle" /\ pc'[t] = "have" /\ loc'[t] = l
        /\ bmp' = bmp \cup {loc'[t].bit}
    BY <1>1, <1>7, <1>8, <2>1, SetsLocal, Zenon
  <2>3. /\ loc'[t].bit \notin bmp /\ loc'[t].bit >= Reserved /\ loc'[t].bit < sz'["bmp"].init
    BY <1>3, <1>5, <1>7, <1>8, <1>10, <2>2, Zenon
  <2>4. Placed(t)'
    BY <1>1, <1>7, <2>2, <2>3, Zenon DEF Placed, Forming
  <2>5. \A x \in live : x.r # loc'[t].bit
    BY <1>1, <2>3, Zenon DEF Given
  <2>6. \A u \in Tasks \ {t} : pc[u] \in Owning => loc[u].bit # loc'[t].bit
    BY <1>1, <2>3, Zenon DEF Owned
  <2> QED BY <1>1, <2>2, <2>3, <2>4, <2>5, <2>6, ClaimStep, Zenon
<1> QED
  BY <1>9, <1>10, Zenon
=============================================================================
