---------------------------- MODULE FlashProofs ----------------------------
(***************************************************************************)
(* The flash driver.  The key/value store: until the first power cut each  *)
(* key reads as its last successful call left it, and a cut while a record *)
(* is superseded touches no other key, for every size of the sector, set   *)
(* of keys and set of values whose records fit the sector.  The raw        *)
(* interface: for every sector map that tiles the part, every owner of the *)
(* two key/value sectors and every length a uint32_t holds, raw access     *)
(* stays in the sectors a loader owns, and HAL_OK means the data is there. *)
(***************************************************************************)
EXTENDS FlashKV, FlashRaw, NumberLemmas, SequenceTheorems, TLAPS

-----------------------------------------------------------------------------
(* What the driver sees in a memory m, which is mem before a step or after. *)

Mem == [0 .. 2 * Sector - 1 -> Bytes]
Furthest == Sector + ByteMax + HDR

Get(m, a) == IF a \in DOMAIN m THEN m[a] ELSE ByteMax
After(m, a) == a + Get(m, a + 2) + HDR
Lives(m, k, a) == Get(m, a + 1) = k /\ Get(m, a + 3) = VALID
Value(m, a) == [i \in 1 .. Get(m, a + 2) |-> Get(m, a + HDR + i - 1)]

\* a walk of the primary sector goes on here
Goes(m, a) == a < Sector /\ Get(m, a) = MAGIC

FreeIn(m) ==
  LET walk[a \in 0 .. Furthest] ==
        IF Get(m, a) = MAGIC /\ a < Sector THEN walk[After(m, a)] ELSE a
  IN  IF walk[0] >= Sector THEN NULL ELSE walk[0]

FindIn(m, k) ==
  LET walk[a \in 0 .. Furthest] ==
        IF a >= Sector \/ Get(m, a) # MAGIC THEN NULL
        ELSE IF Lives(m, k, a) THEN a
        ELSE walk[After(m, a)]
  IN  walk[0]

ReadIn(m, k) ==
  LET r == FindIn(m, k)
  IN  IF r = NULL THEN Absent
      ELSE IF Get(m, r + 5) # CalculateCrc(Value(m, r)) THEN Absent
      ELSE Value(m, r)

(* The sizes, as the provers need them.                                    *)
LEMMA Sizes ==
  /\ ByteMax \in Nat /\ ByteMax > 0 /\ Sector \in Nat /\ Sector % 2 = 0
  /\ MAGIC \in Nat /\ MAGIC < ByteMax /\ MAGIC \in Bytes /\ Bytes = 0 .. ByteMax
  /\ HDR = 6 /\ VALID = 1 /\ DELETED = 0 /\ NULL = 2 * Sector
  /\ Furthest \in Nat /\ Furthest = Sector + 6 + ByteMax
  BY StoreAssumption DEF StoreAssumption, HDR, VALID, DELETED, NULL, Furthest, Bytes

(* What is read is a byte, in the storage and outside it.                  *)
LEMMA GetByte ==
  ASSUME NEW m \in Mem, NEW a
  PROVE  Get(m, a) \in Bytes /\ Get(m, a) \in Nat /\ Get(m, a) <= ByteMax
  <1>1. Get(m, a) \in Bytes
    BY Sizes DEF Get, Mem
  <1> QED BY <1>1, Sizes

(* A walk moves a header at least, and a header and a value of ByteMax     *)
(* bytes at most.                                                          *)
LEMMA AfterIs ==
  ASSUME NEW m \in Mem, NEW a \in Nat
  PROVE  /\ After(m, a) \in Nat /\ a + 6 <= After(m, a) /\ After(m, a) = a + 6 + Get(m, a + 2)
         /\ After(m, a) <= a + 6 + ByteMax
  BY GetByte, Sizes DEF After

(* The driver's two walks are those of the memory of the moment.           *)
LEMMA SeesIn ==
  /\ FindNextFree = FreeIn(mem) /\ FindNextFree' = FreeIn(mem')
  /\ \A k : FindFirstValid(k) = FindIn(mem, k)
  /\ \A k : FindFirstValid(k)' = FindIn(mem', k)
  BY DEF FindNextFree, FindFirstValid, FreeIn, FindIn, Reach, Furthest, Magic, Key, Status, Byte,
         NextRecord, Size, Get, After, Lives

(* ... and so is what a read gives.                                        *)
LEMMA ReadsIn ==
  /\ \A k : Read(k) = ReadIn(mem, k)
  /\ \A k : Read(k)' = ReadIn(mem', k)
  BY SeesIn DEF Read, ReadIn, Value, Get, Data, Crc, Size, Byte

-----------------------------------------------------------------------------
(* The places a walk from 0 comes to: the members of S, of which e is the  *)
(* last.                                                                   *)

Path(m, S, e) ==
  /\ S \subseteq 0 .. Furthest /\ 0 \in S /\ e \in S
  /\ \A s \in S : s <= e
  /\ \A s \in S \ {e} :
       Goes(m, s) /\ After(m, s) \in S /\ \A t \in S : t <= s \/ After(m, s) <= t

\* f is the walk from any place, ending with val at what D holds
IsWalk(f, m, D, val) ==
  f = [a \in 0 .. Furthest |-> IF ~Goes(m, a) \/ a \in D THEN val[a] ELSE f[After(m, a)]]

(* A walk stops at the first place of D, or at the end.                    *)
LEMMA WalkEnds ==
  ASSUME NEW m \in Mem, NEW S, NEW e, Path(m, S, e), ~Goes(m, e), NEW D, NEW val,
         NEW f, IsWalk(f, m, D, val)
  PROVE  \E z \in S : /\ f[0] = val[z] /\ (z = e \/ z \in D)
                      /\ \A t \in S : t < z => t \notin D
  <1> DEFINE Halts(s) == \E z \in S : /\ s <= z /\ f[s] = val[z] /\ (z = e \/ z \in D)
                                      /\ \A t \in S : s <= t /\ t < z => t \notin D
             Bad == {s \in S : ~Halts(s)}
  <1>2. Furthest \in Nat /\ \A s \in S : s \in Nat /\ s \in 0 .. Furthest
    BY Sizes DEF Path
  <1>1. SUFFICES ASSUME Bad # {}
                 PROVE  FALSE
    <2>1. Halts(0)
      BY <1>1 DEF Path
    <2> QED BY <1>2, <2>1
  <1>3. PICK s \in Bad : \A t \in Bad : t <= s
    <2>1. Bad \subseteq 0 .. Furthest
      BY <1>2
    <2> HIDE DEF Bad
    <2> QED BY <1>1, <1>2, <2>1, Greatest
  <1>4. f[s] = IF ~Goes(m, s) \/ s \in D THEN val[s] ELSE f[After(m, s)]
    BY <1>2 DEF IsWalk
  <1>5. CASE ~Goes(m, s) \/ s \in D
    <2>1. f[s] = val[s] /\ (s = e \/ s \in D)
      BY <1>4, <1>5 DEF Path
    <2> QED BY <1>2, <2>1
  <1>6. CASE Goes(m, s) /\ s \notin D
    <2> DEFINE n == After(m, s)
    <2>0. s \in Nat /\ s \in S /\ s \in Bad
      BY <1>2
    <2> HIDE DEF Bad, Halts
    <2>1. s # e /\ n \in S /\ \A t \in S : t <= s \/ n <= t
      BY <1>6, <2>0 DEF Path
    <2>2. s < n /\ n \in Nat
      BY <2>0, AfterIs
    <2>3. Halts(n)
      <3>2. n \notin Bad
        BY <1>3, <2>0, <2>2
      <3> QED BY <2>1, <3>2 DEF Bad
    <2>4. f[s] = f[n]
      BY <1>4, <1>6
    <2> HIDE DEF n
    <2>5. PICK z \in S : /\ n <= z /\ f[n] = val[z] /\ (z = e \/ z \in D)
                         /\ \A t \in S : n <= t /\ t < z => t \notin D
      BY <2>3 DEF Halts
    <2>6. z \in Nat /\ s <= z /\ f[s] = val[z]
      <3>1. z \in Nat
        BY <1>2
      <3>2. n <= z /\ f[n] = val[z]
        BY <2>5
      <3>3. s <= z
        BY <2>0, <2>2, <3>1, <3>2
      <3> QED BY <2>4, <3>1, <3>2, <3>3
    <2>7. ASSUME NEW t \in S, s <= t, t < z
          PROVE  t \notin D
      <3>1. t \in Nat /\ (t <= s \/ n <= t)
        BY <1>2, <2>1
      <3>2. CASE t = s
        BY <1>6, <3>2
      <3>3. CASE t # s
        BY <2>0, <2>5, <2>7, <3>1, <3>3
      <3> QED BY <3>2, <3>3
    <2>8. Halts(s)
      BY <2>5, <2>6, <2>7 DEF Halts
    <2> QED BY <2>0, <2>8 DEF Bad
  <1> QED BY <1>5, <1>6

(* From any place there is a walk: each of its steps goes up.              *)
LEMMA WalkIs ==
  ASSUME NEW m \in Mem, NEW D, NEW val
  PROVE  \E f : IsWalk(f, m, D, val)
  <1> DEFINE Stop == {a \in 0 .. Furthest : ~Goes(m, a) \/ a \in D}
             next == [a \in 0 .. Furthest |-> After(m, a)]
  <1>1. Furthest \in Nat
    BY Sizes
  <1>2. ASSUME NEW a \in 0 .. Furthest, a \notin Stop
        PROVE  next[a] \in Nat /\ next[a] <= Furthest /\ a < next[a]
    <2>1. a \in Nat /\ a < Sector /\ next[a] = After(m, a)
      BY <1>2, Sizes DEF Goes
    <2>2. /\ After(m, a) \in Nat /\ a + 6 <= After(m, a) /\ After(m, a) <= a + 6 + ByteMax
      BY <2>1, AfterIs
    <2>3. ByteMax \in Nat /\ Sector \in Nat /\ Furthest = Sector + 6 + ByteMax
      BY Sizes
    <2> HIDE DEF next
    <2> QED BY <2>1, <2>2, <2>3
  <1> HIDE DEF Stop, next
  <1>3. PICK f : Walked(f, 0, Furthest, Stop, val, next)
    BY <1>1, <1>2, WalkExists
  <1> USE DEF Stop, next
  <1>4. IsWalk(f, m, D, val)
    BY <1>3 DEF IsWalk, Walked
  <1> QED BY <1>4

(* What the driver's two walks are.                                        *)
LEMMA FreeWalk ==
  ASSUME NEW m \in Mem
  PROVE  \E w : /\ IsWalk(w, m, {}, [a \in 0 .. Furthest |-> a])
                /\ FreeIn(m) = IF w[0] >= Sector THEN NULL ELSE w[0]
  <1> DEFINE D == {}
             val == [a \in 0 .. Furthest |-> a]
             K(f) == f = [a \in 0 .. Furthest |->
                            IF Get(m, a) = MAGIC /\ a < Sector THEN f[After(m, a)] ELSE a]
  <1>1. \A f : IsWalk(f, m, D, val) <=> K(f)
    <2>1. ASSUME NEW f
          PROVE  [a \in 0 .. Furthest |-> IF ~Goes(m, a) \/ a \in D THEN val[a] ELSE f[After(m, a)]]
                 = [a \in 0 .. Furthest |->
                      IF Get(m, a) = MAGIC /\ a < Sector THEN f[After(m, a)] ELSE a]
      BY DEF Goes
    <2> QED BY <2>1 DEF IsWalk
  <1>2. \E f : IsWalk(f, m, D, val)
    <2> HIDE DEF D, val
    <2> QED BY WalkIs
  <1>3. IsWalk(CHOOSE f : K(f), m, D, val)
    <2> HIDE DEF K
    <2> QED BY <1>1, <1>2
  <1>4. FreeIn(m) = IF (CHOOSE f : K(f))[0] >= Sector THEN NULL ELSE (CHOOSE f : K(f))[0]
    BY DEF FreeIn
  <1> QED BY <1>3, <1>4

\* what the search for a record ends with
Found(m) == [a \in 0 .. Furthest |-> IF Goes(m, a) THEN a ELSE NULL]

(* The search for a key stops at a valid record of that key.               *)
LEMMA FindWalk ==
  ASSUME NEW m \in Mem, NEW k
  PROVE  \E w : /\ IsWalk(w, m, {a \in 0 .. Furthest : Lives(m, k, a)}, Found(m))
                /\ FindIn(m, k) = w[0]
  <1> DEFINE D == {a \in 0 .. Furthest : Lives(m, k, a)}
             val == Found(m)
             K(f) == f = [a \in 0 .. Furthest |->
                            IF a >= Sector \/ Get(m, a) # MAGIC THEN NULL
                            ELSE IF Lives(m, k, a) THEN a ELSE f[After(m, a)]]
  <1>1. \A f : IsWalk(f, m, D, val) <=> K(f)
    <2>1. ASSUME NEW f
          PROVE  [a \in 0 .. Furthest |-> IF ~Goes(m, a) \/ a \in D THEN val[a] ELSE f[After(m, a)]]
                 = [a \in 0 .. Furthest |->
                      IF a >= Sector \/ Get(m, a) # MAGIC THEN NULL
                      ELSE IF Lives(m, k, a) THEN a ELSE f[After(m, a)]]
      <3>1. ASSUME NEW a \in 0 .. Furthest
            PROVE  (IF ~Goes(m, a) \/ a \in D THEN val[a] ELSE f[After(m, a)])
                   = IF a >= Sector \/ Get(m, a) # MAGIC THEN NULL
                     ELSE IF Lives(m, k, a) THEN a ELSE f[After(m, a)]
        <4>1. Goes(m, a) <=> ~(a >= Sector \/ Get(m, a) # MAGIC)
          BY Sizes DEF Goes
        <4> HIDE DEF Goes
        <4> QED BY <4>1 DEF Found
      <3> QED BY <3>1
    <2> QED BY <2>1 DEF IsWalk
  <1>2. \E f : IsWalk(f, m, D, val)
    <2> HIDE DEF D, val
    <2> QED BY WalkIs
  <1>3. IsWalk(CHOOSE f : K(f), m, D, val)
    <2> HIDE DEF K
    <2> QED BY <1>1, <1>2
  <1>4. FindIn(m, k) = (CHOOSE f : K(f))[0]
    BY DEF FindIn
  <1> QED BY <1>3, <1>4

(* The first free byte is the end of the path, and no byte if that is the  *)
(* end of the sector.                                                      *)
LEMMA FreeIs ==
  ASSUME NEW m \in Mem, NEW S, NEW e, Path(m, S, e), ~Goes(m, e)
  PROVE  FreeIn(m) = IF e >= Sector THEN NULL ELSE e
  <1> DEFINE D == {}
             val == [a \in 0 .. Furthest |-> a]
  <1>1. PICK w : IsWalk(w, m, D, val) /\ FreeIn(m) = IF w[0] >= Sector THEN NULL ELSE w[0]
    BY FreeWalk
  <1>2. e \in 0 .. Furthest /\ val[e] = e
    BY DEF Path
  <1> HIDE DEF val
  <1>3. PICK z \in S : w[0] = val[z] /\ (z = e \/ z \in D)
    <2> HIDE DEF D
    <2> QED BY <1>1, WalkEnds
  <1> QED BY <1>1, <1>2, <1>3

(* The record found for a key is one of the path that is valid.            *)
LEMMA FindIs ==
  ASSUME NEW m \in Mem, NEW S, NEW e, Path(m, S, e), ~Goes(m, e), NEW k
  PROVE  \/ FindIn(m, k) = NULL /\ \A s \in S \ {e} : ~Lives(m, k, s)
         \/ \E r \in S \ {e} : FindIn(m, k) = r /\ Lives(m, k, r)
  <1> DEFINE D == {a \in 0 .. Furthest : Lives(m, k, a)}
             val == Found(m)
  <1>1. PICK w : IsWalk(w, m, D, val) /\ FindIn(m, k) = w[0]
    BY FindWalk
  <1>2. PICK z \in S : /\ w[0] = val[z] /\ (z = e \/ z \in D)
                       /\ \A t \in S : t < z => t \notin D
    <2> HIDE DEF D, val
    <2> QED BY <1>1, WalkEnds
  <1>3. S \subseteq 0 .. Furthest /\ e \in S /\ \A s \in S : s <= e
    BY DEF Path
  <1>4. CASE z = e
    <2>1. FindIn(m, k) = NULL
      BY <1>1, <1>2, <1>3, <1>4 DEF Found
    <2>2. ASSUME NEW s \in S \ {e}
          PROVE  ~Lives(m, k, s)
      <3>1. s \in 0 .. Furthest /\ e \in 0 .. Furthest /\ s <= e /\ s # e
        BY <1>3
      <3>2. s < z
        BY <1>4, <3>1, Sizes
      <3>3. s \notin D
        BY <1>2, <3>2
      <3> QED BY <3>1, <3>3
    <2> QED BY <2>1, <2>2
  <1>5. CASE z # e
    <2>1. z \in 0 .. Furthest /\ Goes(m, z) /\ Lives(m, k, z)
      BY <1>2, <1>3, <1>5 DEF Path
    <2>2. FindIn(m, k) = z
      BY <1>1, <1>2, <2>1 DEF Found
    <2> QED BY <1>5, <2>1, <2>2
  <1> QED BY <1>4, <1>5

-----------------------------------------------------------------------------
(* The records of a sector that starts at b: one at every member of S but  *)
(* the last, e, and each ends where the next one starts.                   *)

\* its length, header included, is a uint8_t
Rec(m, s) ==
  /\ Get(m, s) = MAGIC /\ Get(m, s + 2) + HDR <= ByteMax
  /\ \E v \in Values : Get(m, s + 2) = Len(v)

\* records of len bytes fill a sector
Fills(len) == Sector % len = 0 /\ len <= ByteMax /\ \A v \in Values : HDR + Len(v) = len

\* how far from the start of its sector a record may be
Places == {x \in Nat : \A len \in Nat \ {0} : Fills(len) => x % len = 0}

(* Behind a record at one of the places is another.                        *)
LEMMA PlaceNext ==
  ASSUME NEW x \in Places, NEW v \in Values
  PROVE  x + 6 + Len(v) \in Places
  <1>1. x \in Nat /\ Len(v) \in Nat
    BY StoreAssumption DEF StoreAssumption, Places
  <1>2. ASSUME NEW len \in Nat \ {0}, Fills(len)
        PROVE  (x + 6 + Len(v)) % len = 0
    <2>1. x % len = 0 /\ len = 6 + Len(v)
      BY <1>2, Sizes DEF Places, Fills
    <2> DEFINE q == x \div len
    <2>2. x = len * q + (x % len) /\ q \in Int
      BY <1>1, DivMod
    <2> HIDE DEF q
    <2>3. len * q \in Int /\ len * (q + 1) = len * q + len
      BY <2>2
    <2>4. x + 6 + Len(v) = len * (q + 1) + 0
      BY <1>1, <2>1, <2>2, <2>3
    <2>5. x + 6 + Len(v) \in Int /\ q + 1 \in Int /\ 0 < len
      BY <1>1, <2>2
    <2>6. \A a \in Int, p \in Int : a = len * p + 0 => a % len = 0
      BY ModIs
    <2> QED BY <2>4, <2>5, <2>6
  <1> QED BY <1>1, <1>2 DEF Places

(* Records that fill a sector fit at each of the places.                   *)
LEMMA PlaceFits ==
  ASSUME NEW len \in Nat \ {0}, Fills(len), NEW x \in Places, x < Sector
  PROVE  x + len <= Sector
  <1>1. x \in Nat /\ x % len = 0 /\ Sector % len = 0 /\ Sector \in Nat
    BY Sizes DEF Places, Fills
  <1> DEFINE q == x \div len
             p == Sector \div len
  <1>2. q \in Int /\ p \in Int /\ x = len * q + (x % len) /\ Sector = len * p + (Sector % len)
    BY <1>1, DivMod
  <1> HIDE DEF q, p
  <1>3. len * q \in Int /\ len * p \in Int /\ len * (q + 1) = len * q + len
    BY <1>2
  <1>4. q < p
    <2>1. SUFFICES ASSUME p <= q
                   PROVE  FALSE
      BY <1>2
    <2>2. len * p <= len * q
      BY <1>2, <2>1, Times
    <2> QED BY <1>1, <1>2, <1>3, <2>2
  <1>5. len * (q + 1) <= len * p
    BY <1>2, <1>4, Times
  <1> QED BY <1>1, <1>2, <1>3, <1>5

Chain(m, b, S, e) ==
  /\ b \in Nat /\ S \subseteq Nat /\ b \in S /\ e \in S /\ e <= b + Sector
  /\ \A s \in S : b <= s /\ s <= e /\ s % 2 = 0 /\ s - b \in Places
  /\ \A s \in S \ {e} :
       Rec(m, s) /\ After(m, s) \in S /\ \A t \in S : t <= s \/ After(m, s) <= t

\* no two records of one key are valid
One(m, S, e) == \A s, t \in S \ {e} : \A k : Lives(m, k, s) /\ Lives(m, k, t) => s = t

\* nothing is written between lo and hi
Blank(m, lo, hi) == \A a \in Nat : lo <= a /\ a < hi => Get(m, a) = ByteMax

Gone(m, S, e, k) == \A s \in S \ {e} : ~Lives(m, k, s)

\* what a record reads as
Gives(m, r) == IF Get(m, r + 5) = CalculateCrc(Value(m, r)) THEN Value(m, r) ELSE Absent

\* the records say that k reads as x
Says(m, S, e, k, x) ==
  \/ Gone(m, S, e, k) /\ x = Absent
  \/ \E r \in S \ {e} : Lives(m, k, r) /\ x = Gives(m, r)

(* Where the records of a chain are, and where they end.                   *)
LEMMA ChainRange ==
  ASSUME NEW m \in Mem, NEW b, NEW S, NEW e, Chain(m, b, S, e)
  PROVE  /\ b \in Nat /\ e \in Nat /\ b <= e /\ e <= b + Sector /\ e % 2 = 0
         /\ \A s \in S : s \in Nat /\ b <= s /\ s <= e
         /\ \A s \in S \ {e} :
              /\ After(m, s) \in Nat /\ s + 6 <= After(m, s) /\ After(m, s) <= e
              /\ After(m, s) = s + 6 + Get(m, s + 2)
  <1>1. /\ b \in Nat /\ e \in Nat /\ b <= e /\ e <= b + Sector /\ e % 2 = 0
        /\ \A s \in S : s \in Nat /\ b <= s /\ s <= e
    BY DEF Chain
  <1>2. ASSUME NEW s \in S \ {e}
        PROVE  /\ After(m, s) \in Nat /\ s + 6 <= After(m, s) /\ After(m, s) <= e
               /\ After(m, s) = s + 6 + Get(m, s + 2)
    <2>1. After(m, s) \in S
      BY DEF Chain
    <2> QED BY <1>1, <2>1, AfterIs
  <1> QED BY <1>1, <1>2

(* A walk of the primary sector goes through its records.                  *)
LEMMA PathOf ==
  ASSUME NEW m \in Mem, NEW S, NEW e, Chain(m, 0, S, e)
  PROVE  Path(m, S, e)
  <1>1. /\ e \in Nat /\ e <= Sector
        /\ \A s \in S : s \in Nat /\ s <= e
        /\ \A s \in S \ {e} : After(m, s) \in Nat /\ s + 6 <= After(m, s) /\ After(m, s) <= e
    BY ChainRange, Sizes
  <1>2. ASSUME NEW s \in S \ {e}
        PROVE  Goes(m, s)
    <2>1. s < Sector
      BY <1>1, Sizes
    <2> QED BY <2>1 DEF Goes, Chain, Rec
  <1>3. S \subseteq 0 .. Furthest
    BY <1>1, Sizes
  <1> QED BY <1>1, <1>2, <1>3 DEF Path, Chain

(* ... and stops behind the last.                                          *)
LEMMA EndStops ==
  ASSUME NEW m \in Mem, NEW S, NEW e, Chain(m, 0, S, e), Blank(m, e, Sector)
  PROVE  ~Goes(m, e)
  <1>1. e \in Nat
    BY ChainRange
  <1> QED BY <1>1, Sizes DEF Blank, Goes

(* What a read gives, from the records.                                    *)
LEMMA ReadIs ==
  ASSUME NEW m \in Mem, NEW S, NEW e, Path(m, S, e), ~Goes(m, e), One(m, S, e),
         NEW k, NEW x, Says(m, S, e, k, x)
  PROVE  ReadIn(m, k) = x
  <1>1. \/ FindIn(m, k) = NULL /\ \A s \in S \ {e} : ~Lives(m, k, s)
        \/ \E r \in S \ {e} : FindIn(m, k) = r /\ Lives(m, k, r)
    BY FindIs
  <1>2. CASE FindIn(m, k) = NULL /\ \A s \in S \ {e} : ~Lives(m, k, s)
    BY <1>2 DEF ReadIn, Says
  <1>3. ASSUME NEW r \in S \ {e}, FindIn(m, k) = r, Lives(m, k, r)
        PROVE  ReadIn(m, k) = x
    <2>1. r # NULL
      BY Sizes DEF Path, Goes
    <2>2. x = Gives(m, r)
      BY <1>3 DEF Says, Gone, One
    <2> QED BY <1>3, <2>1, <2>2 DEF ReadIn, Gives
  <1> QED BY <1>1, <1>2, <1>3

-----------------------------------------------------------------------------
(* What a step may do to records.                                          *)

\* the record at t of n is the one at s of m, but for the status
Same(m, s, n, t) ==
  \A x \in Nat : x < 6 + Get(m, s + 2) /\ x # 3 => Get(n, t + x) = Get(m, s + x)

(* The same bytes are the same record.                                     *)
LEMMA RecordSame ==
  ASSUME NEW m \in Mem, NEW n \in Mem, NEW s \in Nat, NEW t \in Nat, Same(m, s, n, t)
  PROVE  /\ After(n, t) = After(m, s) - s + t /\ (Rec(n, t) <=> Rec(m, s))
         /\ Value(n, t) = Value(m, s) /\ Gives(n, t) = Gives(m, s)
         /\ Get(n, t + 1) = Get(m, s + 1)
         /\ Get(n, t + 3) = Get(m, s + 3) => \A k : Lives(n, k, t) <=> Lives(m, k, s)
  <1> DEFINE g == Get(m, s + 2)
  <1>1. g \in Nat
    BY GetByte
  <1>20. \A x \in Nat : x < 6 + g /\ x # 3 => Get(n, t + x) = Get(m, s + x)
    BY DEF Same
  <1> HIDE DEF g
  <1>2. /\ Get(n, t) = Get(m, s) /\ Get(n, t + 1) = Get(m, s + 1)
        /\ Get(n, t + 2) = Get(m, s + 2) /\ Get(n, t + 5) = Get(m, s + 5)
    <2>1. Get(n, t + 0) = Get(m, s + 0)
      BY <1>1, <1>20
    <2>2. t + 0 = t /\ s + 0 = s
      OBVIOUS
    <2> QED BY <1>1, <1>20, <2>1, <2>2
  <1>3. Rec(n, t) <=> Rec(m, s)
    BY <1>2 DEF Rec
  <1>30. After(n, t) = After(m, s) - s + t
    BY <1>1, <1>2, AfterIs DEF g
  <1>4. Value(n, t) = Value(m, s)
    <2>1. ASSUME NEW i \in 1 .. g
          PROVE  Get(n, t + HDR + i - 1) = Get(m, s + HDR + i - 1)
      <3>1. /\ 5 + i \in Nat /\ 5 + i < 6 + g /\ 5 + i # 3
            /\ t + HDR + i - 1 = t + (5 + i) /\ s + HDR + i - 1 = s + (5 + i)
        BY <1>1, Sizes
      <3> QED BY <1>20, <3>1
    <2> QED BY <1>2, <2>1 DEF Value, g
  <1> QED BY <1>2, <1>3, <1>30, <1>4 DEF Gives, Lives

\* the records of m, in the sector at b, stand in n too, in the one at c
Carried(m, b, S, e, n, c) ==
  LET T == {s - b + c : s \in S}
      f == e - b + c
  IN  /\ Chain(n, c, T, f) /\ One(n, T, f)
      /\ \A k, x : Says(m, S, e, k, x) => Says(n, T, f, k, x)
      /\ \A k : Gone(m, S, e, k) => Gone(n, T, f, k)
      /\ \A s \in S \ {e} :
           /\ \A k : Lives(n, k, s - b + c) <=> Lives(m, k, s)
           /\ Gives(n, s - b + c) = Gives(m, s)

(* The same bytes in another sector are the same records.                  *)
LEMMA Shifted ==
  ASSUME NEW m \in Mem, NEW n \in Mem, NEW b \in Nat, NEW c \in Nat, c % 2 = 0, b % 2 = 0,
         NEW S, NEW e, Chain(m, b, S, e), One(m, S, e),
         \A x \in Nat : x < e - b => Get(n, c + x) = Get(m, b + x)
  PROVE  Carried(m, b, S, e, n, c)
  <1> DEFINE T == {s - b + c : s \in S}
             f == e - b + c
             to(s) == s - b + c
  <1>1. /\ e \in Nat /\ b <= e /\ e <= b + Sector /\ e % 2 = 0
        /\ \A s \in S : s \in Nat /\ b <= s /\ s <= e /\ s % 2 = 0
        /\ \A s \in S \ {e} :
             /\ After(m, s) \in Nat /\ s + 6 <= After(m, s) /\ After(m, s) <= e
             /\ After(m, s) = s + 6 + Get(m, s + 2)
    <2>1. \A s \in S : s % 2 = 0
      BY DEF Chain
    <2> QED BY <2>1, ChainRange
  <1>2. ASSUME NEW s \in S \ {e}
        PROVE  /\ to(s) \in Nat /\ to(s) # f
               /\ After(n, to(s)) = to(After(m, s)) /\ Rec(n, to(s))
               /\ Gives(n, to(s)) = Gives(m, s)
               /\ \A k : Lives(n, k, to(s)) <=> Lives(m, k, s)
    <2>1. s \in Nat /\ b <= s /\ s <= e /\ s # e /\ to(s) \in Nat /\ to(s) # f
      BY <1>1
    <2>2. After(m, s) \in Nat /\ s + 6 + Get(m, s + 2) <= e /\ Get(m, s + 2) \in Nat /\ s + 6 <= e
      BY <1>1, GetByte
    <2>3. ASSUME NEW x \in Nat, x < 6 + Get(m, s + 2)
          PROVE  Get(n, to(s) + x) = Get(m, s + x)
      <3>0. PICK g \in Nat : g = Get(m, s + 2)
        BY <2>2
      <3>1. s - b + x \in Nat /\ s - b + x < e - b
        BY <1>1, <2>1, <2>2, <2>3, <3>0
      <3>2. c + (s - b + x) = to(s) + x /\ b + (s - b + x) = s + x
        BY <2>1
      <3> QED BY <3>1, <3>2
    <2>4. Same(m, s, n, to(s))
      BY <2>3 DEF Same
    <2>5. Get(n, to(s) + 3) = Get(m, s + 3)
      BY <2>2, <2>3
    <2>6. After(n, to(s)) = After(m, s) - s + to(s)
      BY <2>1, <2>4, RecordSame
    <2>7. After(n, to(s)) = to(After(m, s))
      BY <2>1, <2>2, <2>6
    <2>8. Rec(m, s)
      BY DEF Chain
    <2> QED BY <2>1, <2>4, <2>5, <2>7, <2>8, RecordSame
  <1>3. \A t \in T \ {f} : \E s \in S \ {e} : t = to(s)
    OBVIOUS
  <1>4. ASSUME NEW s \in S
        PROVE  /\ to(s) \in Nat /\ c <= to(s) /\ to(s) <= f /\ to(s) % 2 = 0 /\ to(s) \in T
               /\ to(s) - c \in Places
    <2>1. s \in Nat /\ b <= s /\ s <= e /\ s % 2 = 0
      BY <1>1
    <2>2. to(s) - c = s - b /\ s - b \in Places
      BY <2>1 DEF Chain
    <2>3. to(s) \in Nat /\ c <= to(s) /\ to(s) <= f /\ to(s) % 2 = 0
      BY <1>1, <2>1
    <2> QED BY <2>2, <2>3
  <1>5. /\ T \subseteq Nat /\ c \in T /\ f \in T
        /\ \A t \in T : c <= t /\ t <= f /\ t % 2 = 0 /\ t - c \in Places
    <2>1. to(b) = c /\ b \in S /\ e \in S
      BY DEF Chain
    <2> QED BY <1>4, <2>1
  <1>6. ASSUME NEW t \in T \ {f}
        PROVE  Rec(n, t) /\ After(n, t) \in T /\ \A u \in T : u <= t \/ After(n, t) <= u
    <2>1. PICK s \in S \ {e} : t = to(s)
      BY <1>3
    <2>2. After(m, s) \in S /\ \A u \in S : u <= s \/ After(m, s) <= u
      BY DEF Chain
    <2>3. Rec(n, t) /\ After(n, t) = to(After(m, s))
      BY <1>2, <2>1
    <2>4. ASSUME NEW u \in T
          PROVE  u <= t \/ After(n, t) <= u
      <3>1. PICK v \in S : u = to(v)
        OBVIOUS
      <3>2. v \in Nat /\ s \in Nat /\ After(m, s) \in Nat /\ (v <= s \/ After(m, s) <= v)
        BY <1>1, <2>2
      <3> QED BY <1>1, <2>1, <2>3, <3>1, <3>2
    <2> QED BY <1>4, <2>2, <2>3, <2>4
  <1>7. f <= c + Sector
    BY <1>1, Sizes
  <1> HIDE DEF T, f, to
  <1>8. Chain(n, c, T, f)
    BY <1>5, <1>6, <1>7 DEF Chain
  <1>9. One(n, T, f)
    BY <1>2, <1>3 DEF One
  <1>10. \A k : Gone(m, S, e, k) => Gone(n, T, f, k)
    BY <1>2, <1>3 DEF Gone
  <1>11. \A s \in S \ {e} : to(s) \in T \ {f}
    BY <1>2, <1>4
  <1>12. \A k, y : Says(m, S, e, k, y) => Says(n, T, f, k, y)
    BY <1>2, <1>10, <1>11 DEF Says
  <1> QED BY <1>2, <1>8, <1>9, <1>10, <1>12 DEF T, f, to, Carried

(* What is not touched below e leaves the records below e as they are.     *)
LEMMA BelowSame ==
  ASSUME NEW m \in Mem, NEW n \in Mem, NEW b, NEW S, NEW e, Chain(m, b, S, e), One(m, S, e),
         \A a \in Nat : b <= a /\ a < e => Get(n, a) = Get(m, a)
  PROVE  /\ Chain(n, b, S, e) /\ One(n, S, e)
         /\ \A k : Gone(m, S, e, k) => Gone(n, S, e, k)
         /\ \A k, x : Says(m, S, e, k, x) => Says(n, S, e, k, x)
         /\ \A s \in S \ {e} :
              (\A k : Lives(n, k, s) <=> Lives(m, k, s)) /\ Gives(n, s) = Gives(m, s)
  <1>1. b \in Nat /\ e \in Nat /\ b <= e /\ b % 2 = 0 /\ \A s \in S : s \in Nat
    BY ChainRange DEF Chain
  <1>2. ASSUME NEW x \in Nat, x < e - b
        PROVE  Get(n, b + x) = Get(m, b + x)
    <2>1. b + x \in Nat /\ b <= b + x /\ b + x < e
      BY <1>1, <1>2
    <2> QED BY <2>1
  <1>3. e - b + b = e /\ {s - b + b : s \in S} = S /\ \A s \in S : s - b + b = s
    <2>1. \A s \in S : s - b + b = s
      BY <1>1
    <2> QED BY <1>1, <2>1
  <1>4. Carried(m, b, S, e, n, b)
    BY <1>1, <1>2, Shifted
  <1> QED BY <1>3, <1>4 DEF Carried

(* Changing the status of the valid record of a key to anything else       *)
(* removes it, and touches no other key.                                   *)
LEMMA MarkGone ==
  ASSUME NEW m \in Mem, NEW n \in Mem, NEW b, NEW S, NEW e, Chain(m, b, S, e), One(m, S, e),
         NEW key, NEW r \in S \ {e}, Lives(m, key, r), Get(n, r + 3) # VALID,
         \A a \in Nat : a # r + 3 => Get(n, a) = Get(m, a)
  PROVE  /\ Chain(n, b, S, e) /\ One(n, S, e) /\ Gone(n, S, e, key)
         /\ \A k, x : k # key /\ Says(m, S, e, k, x) => Says(n, S, e, k, x)
  <1>1. /\ r \in Nat /\ e \in Nat /\ After(m, r) \in Nat /\ r + 6 <= After(m, r)
        /\ \A s \in S : s \in Nat
    BY ChainRange
  <1>4. ASSUME NEW s \in S \ {e}
        PROVE  /\ s \in Nat
               /\ After(n, s) = After(m, s) /\ Rec(n, s)
               /\ Gives(n, s) = Gives(m, s) /\ Get(n, s + 1) = Get(m, s + 1)
               /\ s # r => \A k : Lives(n, k, s) <=> Lives(m, k, s)
    <2>1. s \in Nat /\ After(m, s) \in Nat /\ After(m, s) = s + 6 + Get(m, s + 2)
          /\ Get(m, s + 2) \in Nat /\ s + 6 <= After(m, s)
      BY ChainRange, GetByte
    <2>2. s = r \/ After(m, s) <= r \/ r + 6 <= s
      <3>1. r <= s \/ After(m, s) <= r
        BY DEF Chain
      <3>2. s <= r \/ After(m, r) <= s
        BY DEF Chain
      <3> QED BY <1>1, <2>1, <3>1, <3>2
    <2>3. ASSUME NEW x \in Nat, x < 6 + Get(m, s + 2), x # 3
          PROVE  Get(n, s + x) = Get(m, s + x)
      <3>1. s + x \in Nat /\ s + x # r + 3
        BY <1>1, <2>1, <2>2, <2>3
      <3> QED BY <3>1
    <2>4. s # r => Get(n, s + 3) = Get(m, s + 3)
      BY <1>1, <2>1, <2>2
    <2>5. Same(m, s, n, s)
      BY <2>3 DEF Same
    <2>6. After(n, s) = After(m, s) - s + s
      BY <2>1, <2>5, RecordSame
    <2>7. After(n, s) = After(m, s)
      BY <2>1, <2>6
    <2>8. Rec(m, s)
      BY DEF Chain
    <2> QED BY <2>1, <2>4, <2>5, <2>7, <2>8, RecordSame
  <1>5. Chain(n, b, S, e)
    BY <1>4 DEF Chain
  <1>6. \A k : ~Lives(n, k, r)
    BY DEF Lives
  <1>7. One(n, S, e)
    BY <1>4, <1>6 DEF One
  <1>10. Gone(n, S, e, key)
    BY <1>4, <1>6 DEF One, Gone
  <1>9. \A s \in S \ {e} : \A k : k # key => (Lives(n, k, s) <=> Lives(m, k, s))
    <2>1. \A k : k # key => ~Lives(m, k, r)
      BY DEF Lives
    <2> QED BY <1>4, <1>6, <2>1
  <1>11. ASSUME NEW k, NEW x, k # key, Says(m, S, e, k, x)
         PROVE  Says(n, S, e, k, x)
    BY <1>4, <1>9, <1>11 DEF Says, Gone
  <1> QED BY <1>5, <1>7, <1>10, <1>11

\* with the record at e, a valid one of key, the records are those of T, to f
Grown(m, b, S, e, key, f, T) ==
  /\ Chain(m, b, T, f) /\ One(m, T, f) /\ T \ {f} = S
  /\ Says(m, T, f, key, Gives(m, e))
  /\ \A k, x : k # key /\ Says(m, S, e, k, x) => Says(m, T, f, k, x)

(* One more record.                                                        *)
LEMMA OneMore ==
  ASSUME NEW m \in Mem, NEW b, NEW S, NEW e, Chain(m, b, S, e), One(m, S, e),
         Rec(m, e), After(m, e) <= b + Sector,
         NEW key, Get(m, e + 1) = key, Get(m, e + 3) = VALID, Gone(m, S, e, key)
  PROVE  Grown(m, b, S, e, key, After(m, e), S \union {After(m, e)})
  <1> DEFINE f == After(m, e)
             T == S \union {f}
  <1>1. /\ b \in Nat /\ e \in Nat /\ e \in S
        /\ \A s \in S : s \in Nat /\ b <= s /\ s <= e /\ s % 2 = 0 /\ s - b \in Places
    BY ChainRange DEF Chain
  <1>2. f \in Nat /\ e + 6 <= f /\ f = e + 6 + Get(m, e + 2)
    BY <1>1, AfterIs
  <1>30. f % 2 = 0 /\ f - b \in Places
    <2>1. PICK v \in Values : Get(m, e + 2) = Len(v)
      BY DEF Rec
    <2>2. Len(v) \in Nat /\ Len(v) % 2 = 0 /\ e % 2 = 0
      BY <1>1, StoreAssumption DEF StoreAssumption
    <2>3. (e - b) + 6 + Len(v) \in Places
      BY <1>1, PlaceNext
    <2>4. f = e + 6 + Len(v)
      BY <1>2, <2>1
    <2> HIDE DEF f
    <2>5. (e - b) + 6 + Len(v) = f - b
      BY <1>1, <2>2, <2>4
    <2> QED BY <1>1, <2>2, <2>3, <2>4, <2>5
  <1>3. Rec(m, e) /\ f % 2 = 0 /\ f - b \in Places /\ f <= b + Sector
    BY <1>30
  <1>4. \A s \in S \ {e} : Rec(m, s) /\ After(m, s) \in S /\ After(m, s) <= e
                           /\ After(m, s) \in Nat
                           /\ \A t \in S : t <= s \/ After(m, s) <= t
    BY ChainRange DEF Chain
  <1>50. After(m, e) = f
    OBVIOUS
  <1> HIDE DEF f
  <1>5. T \ {f} = S
    BY <1>1, <1>2
  <1>6. ASSUME NEW s \in T \ {f}
        PROVE  Rec(m, s) /\ After(m, s) \in T /\ \A t \in T : t <= s \/ After(m, s) <= t
    <2>1. CASE s = e
      BY <1>1, <1>2, <1>3, <1>50, <2>1
    <2>2. CASE s \in S \ {e}
      BY <1>1, <1>2, <1>4, <2>2
    <2> QED BY <1>5, <2>1, <2>2
  <1>7. /\ T \subseteq Nat /\ b \in T /\ f \in T
        /\ \A s \in T : b <= s /\ s <= f /\ s % 2 = 0 /\ s - b \in Places
    <2>1. b \in S /\ S \subseteq Nat /\ b <= f
      BY <1>1, <1>2 DEF Chain
    <2>2. ASSUME NEW s \in S
          PROVE  b <= s /\ s <= f /\ s % 2 = 0 /\ s - b \in Places
      BY <1>1, <1>2
    <2>3. b <= f /\ f <= f /\ f % 2 = 0 /\ f - b \in Places
      BY <1>2, <1>3, <2>1
    <2>4. \A s \in T : s \in S \/ s = f
      OBVIOUS
    <2>5. T \subseteq Nat /\ b \in T /\ f \in T
      BY <1>2, <2>1
    <2> HIDE DEF T
    <2> QED BY <2>2, <2>3, <2>4, <2>5
  <1> HIDE DEF T
  <1>8. Chain(m, b, T, f)
    BY <1>1, <1>3, <1>6, <1>7 DEF Chain
  <1>9. \A k : Lives(m, k, e) <=> k = key
    BY DEF Lives
  <1>10. One(m, T, f)
    BY <1>5, <1>9 DEF One, Gone
  <1>11. Says(m, T, f, key, Gives(m, e))
    BY <1>1, <1>5, <1>9 DEF Says
  <1>12. \A k, x : k # key /\ Says(m, S, e, k, x) => Says(m, T, f, k, x)
    BY <1>5, <1>9 DEF Says, Gone
  <1> QED BY <1>5, <1>8, <1>10, <1>11, <1>12 DEF T, f, Grown

-----------------------------------------------------------------------------
(* Half-words, buffers and check bytes.                                    *)

(* What programming a half-word does: an AND of two bytes.                 *)
LEMMA ProgramIs ==
  ASSUME mem \in Mem, NEW a \in Nat, a % 2 = 0, a + 1 < 2 * Sector,
         NEW lo \in Bytes, NEW hi \in Bytes, Program(a, lo, hi)
  PROVE  /\ mem' \in Mem
         /\ \A x \in Nat : Get(mem', x) = IF x = a THEN BitAnd(Get(mem, a), lo)
                                          ELSE IF x = a + 1 THEN BitAnd(Get(mem, a + 1), hi)
                                          ELSE Get(mem, x)
  <1> DEFINE D == 0 .. 2 * Sector - 1
  <1>1. Sector \in Nat /\ DOMAIN mem = D /\ a \in D /\ a + 1 \in D
    BY Sizes DEF Mem
  <1>2. mem' = [x \in D |-> IF x = a THEN BitAnd(mem[x], lo)
                            ELSE IF x = a + 1 THEN BitAnd(mem[x], hi) ELSE mem[x]]
    BY <1>1 DEF Program
  <1>3. \A x \in D : mem[x] \in Bytes /\ BitAnd(mem[x], lo) \in Bytes /\ BitAnd(mem[x], hi) \in Bytes
    BY BitsAssumption DEF BitsAssumption, Mem
  <1> HIDE DEF D
  <1>4. mem' \in [D -> Bytes]
    BY <1>2, <1>3
  <1>5. DOMAIN mem' = D
    BY <1>2
  <1>6. \A x \in Nat : Get(mem', x) = IF x = a THEN BitAnd(Get(mem, a), lo)
                                      ELSE IF x = a + 1 THEN BitAnd(Get(mem, a + 1), hi)
                                      ELSE Get(mem, x)
    BY <1>1, <1>2, <1>5 DEF Get
  <1> QED BY <1>4, <1>6 DEF Mem, D

\* n is m with a half-word at a
Wrote(m, n, a, lo, hi) ==
  \A x \in Nat : Get(n, x) = IF x = a THEN lo ELSE IF x = a + 1 THEN hi ELSE Get(m, x)

(* A half-word that is blank takes any value.                              *)
LEMMA ProgramBlank ==
  ASSUME mem \in Mem, NEW a \in Nat, a % 2 = 0, a + 1 < 2 * Sector,
         NEW lo \in Bytes, NEW hi \in Bytes, Program(a, lo, hi),
         Get(mem, a) = ByteMax, Get(mem, a + 1) = ByteMax
  PROVE  mem' \in Mem /\ Wrote(mem, mem', a, lo, hi)
  <1>1. BitAnd(ByteMax, lo) = lo /\ BitAnd(ByteMax, hi) = hi
    BY BitsAssumption, Sizes DEF BitsAssumption
  <1> QED BY <1>1, ProgramIs DEF Wrote

(* What an erase does: one sector is blank, the other as it was.           *)
LEMMA ErasedIs ==
  ASSUME mem \in Mem, NEW first \in Nat
  PROVE  /\ Erased(first) \in Mem
         /\ \A x \in Nat : Get(Erased(first), x) =
              IF first <= x /\ x < first + Sector THEN ByteMax ELSE Get(mem, x)
  BY Sizes DEF Erased, Mem, Get

(* A function on 1..N is a sequence.                                       *)
LEMMA FunSeq ==
  ASSUME NEW N \in Nat, NEW X, NEW g \in [1 .. N -> X]
  PROVE  g \in Seq(X) /\ Len(g) = N
  OBVIOUS

(* What SubSeq leaves of a sequence without its first two elements.        *)
LEMMA DropTwo ==
  ASSUME NEW X, NEW q \in Seq(X), Len(q) >= 2
  PROVE  /\ SubSeq(q, 3, Len(q)) \in Seq(X) /\ Len(SubSeq(q, 3, Len(q))) = Len(q) - 2
         /\ \A i \in 1 .. Len(q) - 2 : SubSeq(q, 3, Len(q))[i] = q[i + 2]
  <1>1. Len(q) \in Nat /\ \A i \in 1 .. Len(q) : q[i] \in X
    BY Elements
  <1> DEFINE n == Len(q)
             p == SubSeq(q, 3, n)
  <1>2. 3 \in Int /\ n \in Int /\ n >= 2 /\ \A i \in 3 .. n : q[i] \in X
    BY <1>1
  <1> HIDE DEF n, p
  <1>3. /\ p \in Seq(X) /\ Len(p) = IF 3 <= n THEN n - 3 + 1 ELSE 0
        /\ \A i \in 1 .. n - 3 + 1 : p[i] = q[3 + i - 1]
    BY <1>2, SubSeqProperties DEF p
  <1>4. Len(p) = n - 2 /\ n - 3 + 1 = n - 2 /\ \A i \in 1 .. n - 2 : 3 + i - 1 = i + 2
    BY <1>2, <1>3
  <1> QED BY <1>3, <1>4 DEF p, n

\* q is what is left of data when the first t are gone
Suffix(q, data, t) ==
  /\ q \in Seq(Bytes) /\ Len(q) = Len(data) - t
  /\ \A i \in 1 .. Len(data) - t : q[i] = data[t + i]

\* q is empty, or its first half-word is the next one of data
HalfWordNext(q, data, t) ==
  /\ q = <<>> <=> t = Len(data)
  /\ t + 2 <= Len(data) =>
       /\ q[1] = data[t + 1] /\ q[2] = data[t + 2]
       /\ data[t + 1] \in Bytes /\ data[t + 2] \in Bytes
       /\ Suffix(SubSeq(q, 3, Len(q)), data, t + 2)

(* The loop of _flash_write_data_ programs the data in order.              *)
LEMMA SuffixNext ==
  ASSUME NEW data \in Seq(Bytes), NEW t \in 0 .. Len(data), NEW q, Suffix(q, data, t)
  PROVE  HalfWordNext(q, data, t)
  <1> DEFINE N == Len(data)
  <1>1. N \in Nat /\ \A i \in 1 .. N : data[i] \in Bytes
    BY Elements
  <1>2. q \in Seq(Bytes) /\ Len(q) = N - t /\ \A i \in 1 .. N - t : q[i] = data[t + i]
    BY DEF Suffix
  <1>0. t \in 0 .. N
    OBVIOUS
  <1> HIDE DEF N
  <1>3. q = <<>> <=> t = N
    <2>1. q = <<>> <=> Len(q) = 0
      BY <1>2
    <2> QED BY <1>0, <1>1, <1>2, <2>1
  <1>4. ASSUME t + 2 <= N
        PROVE  /\ q[1] = data[t + 1] /\ q[2] = data[t + 2]
               /\ data[t + 1] \in Bytes /\ data[t + 2] \in Bytes
               /\ Suffix(SubSeq(q, 3, Len(q)), data, t + 2)
    <2>1. q[1] = data[t + 1] /\ q[2] = data[t + 2] /\ data[t + 1] \in Bytes /\ data[t + 2] \in Bytes
      BY <1>0, <1>1, <1>2, <1>4
    <2> DEFINE p == SubSeq(q, 3, Len(q))
    <2>2. /\ p \in Seq(Bytes) /\ Len(p) = Len(q) - 2
          /\ \A i \in 1 .. Len(q) - 2 : p[i] = q[i + 2]
      <3>1. Len(q) >= 2
        BY <1>0, <1>1, <1>2, <1>4
      <3> QED BY <1>2, <3>1, DropTwo
    <2> HIDE DEF p
    <2>3. Len(p) = N - (t + 2)
      BY <1>0, <1>1, <1>2, <2>2
    <2>4. ASSUME NEW i \in 1 .. N - (t + 2)
          PROVE  p[i] = data[t + 2 + i]
      <3>1. i \in 1 .. Len(q) - 2 /\ i + 2 \in 1 .. N - t /\ t + (i + 2) = t + 2 + i
        BY <1>0, <1>1, <1>2, <1>4
      <3> QED BY <1>2, <2>2, <3>1
    <2>5. Suffix(p, data, t + 2)
      BY <2>2, <2>3, <2>4 DEF Suffix, N
    <2> QED BY <2>1, <2>5 DEF p
  <1> QED BY <1>3, <1>4 DEF N, HalfWordNext

(* A check byte is a byte.                                                 *)
LEMMA CrcByte ==
  ASSUME NEW v \in Seq(Bytes), Len(v) > 0
  PROVE  CalculateCrc(v) \in Bytes
  <1>0. Len(v) \in Nat /\ \A i \in 1 .. Len(v) : v[i] \in Bytes
    BY Elements
  <1> DEFINE N == Len(v)
             op == [p \in Bytes \X (1 .. N) |-> BitXor(p[1], v[p[2]])]
             K(f) == f = [i \in 1 .. N |-> IF i = 1 THEN v[1] ELSE BitXor(f[i - 1], v[i])]
  <1>1. \A x \in Bytes, i \in 1 + 1 .. N : op[<<x, i>>] = BitXor(x, v[i]) /\ op[<<x, i>>] \in Bytes
    <2>1. ASSUME NEW x \in Bytes, NEW i \in 1 + 1 .. N
          PROVE  op[<<x, i>>] = BitXor(x, v[i]) /\ op[<<x, i>>] \in Bytes
      <3>1. i \in 1 .. N /\ v[i] \in Bytes
        <4> HIDE DEF op, K
        <4> QED BY <1>0
      <3>2. BitXor(x, v[i]) \in Bytes
        BY <3>1, BitsAssumption DEF BitsAssumption
      <3>3. <<x, i>> \in Bytes \X (1 .. N)
        BY <3>1
      <3> QED BY <3>2, <3>3
    <2> QED BY <2>1
  <1>2. N \in Nat /\ 1 \in Nat /\ v[1] \in Bytes /\ N >= 1
    <2> HIDE DEF op, K
    <2> QED BY <1>0
  <1>20. v # <<>>
    BY <1>2
  <1> HIDE DEF op, N
  <1>3. \A f : Folded(f, 1, N, v[1], op) => \A i \in 1 .. N : f[i] \in Bytes
    BY <1>1, <1>2, FoldTyped
  <1>4. PICK g : Folded(g, 1, N, v[1], op)
    BY <1>2, FoldExists
  <1>5. K(g)
    <2>1. ASSUME NEW i \in 1 .. N, i # 1
          PROVE  op[<<g[i - 1], i>>] = BitXor(g[i - 1], v[i])
      <3>1. i - 1 \in 1 .. N /\ i \in 1 + 1 .. N
        BY <1>2, <2>1
      <3>2. g[i - 1] \in Bytes
        BY <1>3, <1>4, <3>1
      <3> QED BY <1>1, <3>1, <3>2
    <2> QED BY <1>4, <2>1 DEF Folded
  <1> DEFINE w == CHOOSE f : K(f)
  <1>6. K(w)
    BY <1>5
  <1>7. CalculateCrc(v) = w[N]
    BY <1>20 DEF CalculateCrc, N
  <1> HIDE DEF w
  <1> DEFINE Bad == {i \in 1 .. N : w[i] \notin Bytes}
  <1>8. SUFFICES ASSUME Bad # {}
                 PROVE  FALSE
    BY <1>2, <1>7
  <1>9. PICK k \in Bad : \A i \in Bad : k <= i
    <2>1. Bad \subseteq Nat
      OBVIOUS
    <2> HIDE DEF Bad
    <2> QED BY <1>8, <2>1, Least
  <1>10. CASE k = 1
    BY <1>2, <1>6, <1>10
  <1>11. CASE k # 1
    <2>1. k - 1 \in 1 .. N /\ k \in 1 + 1 .. N /\ k - 1 \notin Bad
      BY <1>2, <1>9, <1>11
    <2>2. w[k] = BitXor(w[k - 1], v[k])
      BY <1>6, <1>11
    <2> QED BY <1>1, <2>1, <2>2
  <1> QED BY <1>10, <1>11

\* a record as stm32_flash_save makes it
Record(key, v, reserved) ==
  <<MAGIC, key, Len(v), VALID, reserved, CalculateCrc(v)>> \o v

IsRecord(data, key, v) ==
  /\ v \in Seq(Bytes) /\ Len(v) \in 1 .. ByteMax /\ Len(v) % 2 = 0
  /\ data \in Seq(Bytes) /\ Len(data) = 6 + Len(v)
  /\ data[1] = MAGIC /\ data[2] = key /\ data[3] = Len(v) /\ data[4] = VALID
  /\ data[6] = CalculateCrc(v) /\ \A i \in 1 .. Len(v) : data[6 + i] = v[i]

(* What stm32_flash_save programs: a header, its check byte, and the       *)
(* value.                                                                  *)
LEMMA RecordBytes ==
  ASSUME NEW key \in Keys, NEW v \in Values, NEW reserved \in Bytes
  PROVE  IsRecord(Record(key, v, reserved), key, v)
  <1>1. /\ v \in Seq(Bytes) /\ Len(v) \in 1 .. ByteMax /\ Len(v) % 2 = 0 /\ Len(v) >= 2
        /\ key \in Bytes
    BY StoreAssumption DEF StoreAssumption
  <1> DEFINE head == <<MAGIC, key, Len(v), VALID, reserved, CalculateCrc(v)>>
  <1>2. head \in Seq(Bytes) /\ Len(head) = 6
    <2>1. CalculateCrc(v) \in Bytes
      BY <1>1, CrcByte
    <2> QED BY <1>1, <2>1, Sizes
  <1> QED BY <1>1, <1>2 DEF Record, IsRecord

-----------------------------------------------------------------------------
(* The invariant: what memory holds while a call is under way, if no power *)
(* cut came before.                                                        *)

\* each key of ks reads from the records as A says, and A leaves no choice
Agrees(A, m, S, e, ks) == \A k \in ks : \E x : Says(m, S, e, k, x) /\ A[k] = {x}

\* records from b to e, one valid to a key, and nothing behind them
Packed(m, b, S, e) == Chain(m, b, S, e) /\ One(m, S, e) /\ Blank(m, e, b + Sector)

Stored(m, A) ==
  \E S, e : Packed(m, 0, S, e) /\ Blank(m, Sector, 2 * Sector) /\ Agrees(A, m, S, e, Keys)

\* the records of the primary sector before s are copied, if they are valid
Copied(m, S, s, T, d) ==
  /\ \A t \in T \ {d} : \A k : Lives(m, k, t) =>
       \E r \in S \ {Sector} : r < s /\ Lives(m, k, r) /\ Gives(m, t) = Gives(m, r)
  /\ \A r \in S \ {Sector} : \A k : r < s /\ Lives(m, k, r) => \E t \in T \ {d} : Lives(m, k, t)

\* o bytes of the record at s are copied to d
Outward ==
  \E S, T, s, d, o :
    /\ Chain(mem, 0, S, Sector) /\ One(mem, S, Sector) /\ Agrees(allowed, mem, S, Sector, Keys)
    /\ Chain(mem, Sector, T, d) /\ One(mem, T, d) /\ Copied(mem, S, s, T, d)
    /\ s \in S /\ d <= s + Sector /\ o \in Nat /\ o % 2 = 0 /\ src = s + o /\ dst = d + o
    /\ Blank(mem, d + o, 2 * Sector)
    /\ \/ left = 0 /\ o = 0
       \/ /\ left \in Nat \ {0} /\ s # Sector /\ Get(mem, s + 3) = VALID
          /\ o + left = 6 + Get(mem, s + 2)
          /\ \A x \in Nat : x < o => Get(mem, d + x) = Get(mem, s + x)

Away(T, d) == Packed(mem, Sector, T, d) /\ Agrees(allowed, mem, T, d, Keys)

Homeward ==
  \E T, d :
    /\ Away(T, d) /\ Blank(mem, dst, Sector)
    /\ dst \in Nat /\ dst % 2 = 0 /\ src = Sector + dst /\ src <= d /\ left \in Nat
    /\ \A x \in Nat : x < dst => Get(mem, x) = Get(mem, Sector + x)
    /\ left = 0 => src \in T
    /\ left # 0 => \E t \in T \ {d} : t <= src /\ src + left = After(mem, t)

Home == \E S, e : Packed(mem, 0, S, e) /\ Agrees(allowed, mem, S, e, Keys)

\* what the header of a record is marked with
MarkOf(m, r, data) ==
  /\ data \in Seq(Bytes) /\ Len(data) = 6 /\ data[4] = DELETED
  /\ \A i \in 1 .. 6 : i # 4 => data[i] = Get(m, r + i - 1)

Marking ==
  \E S, e, r, t, data :
    /\ Packed(mem, 0, S, e) /\ Blank(mem, Sector, 2 * Sector)
    /\ r \in S \ {e} /\ t \in {0, 2, 4, 6} /\ dst = r + t
    /\ MarkOf(mem, r, data) /\ Suffix(buf, data, t)
    /\ call.op = "save" => free = e /\ e < Sector
    /\ IF t < 4 THEN Lives(mem, call.key, r) /\ Agrees(allowed, mem, S, e, Keys)
       ELSE Gone(mem, S, e, call.key) /\ Agrees(allowed, mem, S, e, Keys \ {call.key})

\* the record of the call is to go to e, and t bytes of it are there
Room(S, e, t) ==
  /\ Chain(mem, 0, S, e) /\ One(mem, S, e) /\ Gone(mem, S, e, call.key)
  /\ Blank(mem, e + t, Sector) /\ Blank(mem, Sector, 2 * Sector)
  /\ Agrees(allowed, mem, S, e, Keys \ {call.key})

Ready == \E S, e : Room(S, e, 0) /\ free = e /\ e < Sector

Fits(e) == e + HDR + Len(call.value) <= Sector /\ HDR + Len(call.value) <= ByteMax

\* ... and so are the first t bytes of data, the rest of it in buf
RecordTo(S, e, t, data) ==
  /\ Room(S, e, t) /\ Fits(e) /\ data \in Seq(Bytes) /\ Len(data) = 6 + Len(call.value)
  /\ t \in 0 .. Len(data) /\ t % 2 = 0 /\ dst = e + t /\ Suffix(buf, data, t)
  /\ \A x \in Nat : x < t => Get(mem, e + x) = data[x + 1]

Writing ==
  \E S, e, t : \E reserved \in Bytes :
    RecordTo(S, e, t, Record(call.key, call.value, reserved))

Saving == call.op = "save" /\ call.key \in Keys /\ call.value \in Values
Deleting == call.op = "delete" /\ call.key \in Keys

Stage ==
  /\ pc \in {"toSecondary", "erasePrimary", "toPrimary", "eraseSecondary", "place",
             "header", "record"} => Saving
  /\ pc = "mark" => Saving \/ Deleting
  /\ pc \notin {"toSecondary", "toPrimary"} => left = 0
  /\ pc \in {"idle", "place"} => Stored(mem, allowed)
  /\ pc = "clearSecondary" => Blank(mem, 0, Sector)
  /\ pc = "toSecondary" => Outward
  /\ pc = "erasePrimary" => \E T, d : Away(T, d)
  /\ pc = "toPrimary" => Homeward
  /\ pc = "eraseSecondary" => Home
  /\ pc = "mark" => Marking
  /\ pc = "header" => Ready
  /\ pc = "record" => Writing

Sound == mem \in Mem /\ allowed = [k \in Keys |-> allowed[k]] /\ Stage

StoreInv == cuts \in Nat /\ (cuts = 0 => Sound)

(* What a save needs of the sector: its record ends inside it, and the     *)
(* record's length is a uint8_t.                                           *)
RecordsFit == pc = "header" /\ cuts = 0 => Fits(free)

-----------------------------------------------------------------------------
(* A blank sector is a chain of no records.                                *)
LEMMA NoRecords ==
  ASSUME NEW m, NEW b \in Nat, b % 2 = 0
  PROVE  Chain(m, b, {b}, b) /\ One(m, {b}, b) /\ \A k : Gone(m, {b}, b, k)
  <1>1. 0 \in Places
    <2>1. \A len \in Nat \ {0} : 0 % len = 0
      OBVIOUS
    <2> QED BY <2>1 DEF Places
  <1>2. b - b = 0 /\ b <= b + Sector
    BY Sizes
  <1> QED BY <1>1, <1>2 DEF Chain, One, Gone

(* The storage starts erased.                                              *)
LEMMA StoreInit == Init => StoreInv
  <1> SUFFICES ASSUME Init
               PROVE  StoreInv
    OBVIOUS
  <1>1. mem \in Mem /\ \A a \in Nat : Get(mem, a) = ByteMax
    BY Sizes DEF Init, Mem, Get
  <1>2. allowed = [k \in Keys |-> allowed[k]]
    BY DEF Init
  <1>3. Packed(mem, 0, {0}, 0)
    <2>2. Chain(mem, 0, {0}, 0)
      BY NoRecords
    <2> QED BY <1>1, <2>2 DEF Packed, One, Blank
  <1>4. Agrees(allowed, mem, {0}, 0, Keys)
    BY DEF Agrees, Says, Gone, Init
  <1>5. Stored(mem, allowed)
    BY <1>1, <1>3, <1>4 DEF Stored, Blank
  <1> QED BY <1>1, <1>2, <1>5 DEF StoreInv, Sound, Stage, Init

(* Between calls a read gives what is allowed.                             *)
LEMMA StoredReads ==
  ASSUME NEW m \in Mem, NEW A, Stored(m, A), NEW k \in Keys
  PROVE  A[k] = {ReadIn(m, k)}
  <1>1. PICK S, e : Packed(m, 0, S, e) /\ Agrees(A, m, S, e, Keys)
    BY DEF Stored
  <1>2. Path(m, S, e) /\ ~Goes(m, e) /\ One(m, S, e)
    BY <1>1, PathOf, EndStops, Sizes DEF Packed
  <1>3. PICK x : Says(m, S, e, k, x) /\ A[k] = {x}
    BY <1>1 DEF Agrees
  <1> QED BY <1>2, <1>3, ReadIs

(* The invariant is enough for what a read between calls must give.        *)
LEMMA InvReads == StoreInv => ReadsBack
  <1>1. ASSUME StoreInv, pc = "idle", cuts = 0, NEW k \in Keys
        PROVE  Read(k) \in allowed[k]
    BY <1>1, StoredReads, ReadsIn DEF StoreInv, Sound, Stage
  <1> QED BY <1>1 DEF ReadsBack

-----------------------------------------------------------------------------
(* Calls.                                                                  *)

(* _flash_find_next_free finds the end of the records, and no room when    *)
(* they fill the sector.                                                   *)
LEMMA StoredEnds ==
  ASSUME NEW m \in Mem, NEW S, NEW e, Packed(m, 0, S, e)
  PROVE  /\ Path(m, S, e) /\ ~Goes(m, e) /\ e \in Nat /\ e <= Sector
         /\ FreeIn(m) = IF e = Sector THEN NULL ELSE e
         /\ FreeIn(m) = NULL <=> e = Sector
         /\ e # Sector => e < Sector
  <1>1. e \in Nat /\ e <= Sector
    BY ChainRange, Sizes DEF Packed
  <1>2. Path(m, S, e) /\ ~Goes(m, e)
    BY PathOf, EndStops, Sizes DEF Packed
  <1>3. FreeIn(m) = IF e >= Sector THEN NULL ELSE e
    BY <1>2, FreeIs
  <1> QED BY <1>1, <1>2, <1>3, Sizes

(* stm32_flash_save, up to the compaction or the append.                   *)
LEMMA SaveStep ==
  ASSUME Sound, NEW k \in Keys, NEW v \in Values, Save(k, v)
  PROVE  Sound'
  <1>1. /\ pc = "idle" /\ mem' = mem /\ allowed' = allowed /\ left' = left /\ left = 0
        /\ call' = [op |-> "save", key |-> k, value |-> v]
        /\ mem \in Mem /\ allowed = [j \in Keys |-> allowed[j]] /\ Stored(mem, allowed)
    BY DEF Sound, Stage, Save, Called
  <1>2. Saving'
    BY <1>1 DEF Saving
  <1>3. CASE NeedsCompaction
    <2>1. pc' = "toSecondary" /\ src' = 0 /\ dst' = Sector
      BY <1>3 DEF Save, Goto
    <2>2. PICK S, e : /\ Packed(mem, 0, S, e) /\ Blank(mem, Sector, 2 * Sector)
                      /\ Agrees(allowed, mem, S, e, Keys)
      BY <1>1 DEF Stored
    <2>3. e = Sector
      BY <1>1, <1>3, <2>2, StoredEnds, SeesIn DEF NeedsCompaction
    <2>4. Chain(mem, Sector, {Sector}, Sector) /\ One(mem, {Sector}, Sector)
      BY Sizes, NoRecords
    <2>5. Copied(mem, S, 0, {Sector}, Sector)
      <3>1. \A r \in S : ~(r < 0)
        BY <1>1, <2>2, ChainRange DEF Packed
      <3> QED BY <3>1 DEF Copied
    <2>6. 0 \in S /\ Sector \in Nat
      BY <2>2, Sizes DEF Packed, Chain
    <2>7. Outward'
      <3> DEFINE T == {Sector}
                 z == 0
      <3>1. /\ Chain(mem, 0, S, Sector) /\ One(mem, S, Sector)
            /\ Agrees(allowed, mem, S, Sector, Keys)
            /\ Chain(mem, Sector, T, Sector) /\ One(mem, T, Sector) /\ Copied(mem, S, z, T, Sector)
            /\ z \in S
        BY <2>2, <2>3, <2>4, <2>5, <2>6 DEF Packed
      <3>2. /\ Sector <= z + Sector /\ z \in Nat /\ z % 2 = 0 /\ src' = z + z /\ dst' = Sector + z
            /\ Blank(mem, Sector + z, 2 * Sector) /\ left' = 0
        BY <1>1, <2>1, <2>2, <2>6
      <3> HIDE DEF T, z
      <3>3. z = 0
        BY DEF z
      <3> QED BY <1>1, <3>1, <3>2, <3>3 DEF Outward
    <2> QED BY <1>1, <1>2, <2>1, <2>7 DEF Sound, Stage
  <1>4. CASE ~NeedsCompaction
    <2>1. pc' = "place"
      BY <1>4 DEF Save, Goto
    <2> QED BY <1>1, <1>2, <2>1 DEF Sound, Stage
  <1> QED BY <1>3, <1>4

\* the address is an even one of the primary sector
LEMMA RecordPlace ==
  ASSUME NEW m \in Mem, NEW S, NEW e, Packed(m, 0, S, e), NEW r \in S \ {e}
  PROVE  r \in Nat /\ r % 2 = 0 /\ r + 6 <= e /\ r + 6 <= Sector /\ r # NULL
  <1>1. r \in Nat /\ r % 2 = 0 /\ e \in Nat /\ e <= Sector
    BY ChainRange, Sizes DEF Packed, Chain
  <1>2. After(m, r) \in Nat /\ r + 6 <= After(m, r) /\ After(m, r) <= e
    BY ChainRange DEF Packed
  <1> QED BY <1>1, <1>2, Sizes

(* The header a record is marked with.                                     *)
LEMMA MarkData ==
  ASSUME mem \in Mem, NEW r \in Nat
  PROVE  /\ MarkOf(mem, r, [Header(r) EXCEPT ![4] = DELETED])
         /\ Suffix([Header(r) EXCEPT ![4] = DELETED], [Header(r) EXCEPT ![4] = DELETED], 0)
  <1> DEFINE q == [Header(r) EXCEPT ![4] = DELETED]
  <1>1. q \in [1 .. 6 -> Bytes]
    <2>1. \A i \in 1 .. 6 : Get(mem, r + i - 1) \in Bytes
      BY GetByte
    <2>2. Header(r) = [i \in 1 .. 6 |-> Get(mem, r + i - 1)]
      BY Sizes DEF Header, Byte, Get
    <2>3. DELETED \in Bytes
      BY Sizes
    <2>4. Header(r) \in [1 .. 6 -> Bytes]
      BY <2>1, <2>2
    <2> QED BY <2>3, <2>4
  <1>2. q[4] = DELETED /\ \A i \in 1 .. 6 : i # 4 => q[i] = Get(mem, r + i - 1)
    BY Sizes DEF Header, Byte, Get
  <1> HIDE DEF q
  <1>3. q \in Seq(Bytes) /\ Len(q) = 6
    BY <1>1, FunSeq
  <1>4. MarkOf(mem, r, q)
    BY <1>2, <1>3 DEF MarkOf
  <1>5. Suffix(q, q, 0)
    BY <1>3 DEF Suffix
  <1> QED BY <1>4, <1>5 DEF q

(* The mark begins: nothing of it is programmed.                           *)
LEMMA MarkStarts ==
  ASSUME mem \in Mem, NEW S, NEW e, Packed(mem, 0, S, e), Blank(mem, Sector, 2 * Sector),
         Agrees(allowed, mem, S, e, Keys), NEW r \in S \ {e}, Lives(mem, call'.key, r),
         mem' = mem, allowed' = allowed, Mark(r),
         call'.op = "save" => free' = e /\ e < Sector
  PROVE  Marking'
  <1> DEFINE data == [Header(r) EXCEPT ![4] = DELETED]
             z == 0
  <1>1. r \in Nat
    BY RecordPlace
  <1>2. MarkOf(mem, r, data) /\ Suffix(data, data, z)
    BY <1>1, MarkData
  <1>3. dst' = r + z /\ buf' = data
    BY <1>1 DEF Mark
  <1> HIDE DEF data
  <1>4. z \in {0, 2, 4, 6} /\ z < 4
    OBVIOUS
  <1> HIDE DEF z
  <1> QED BY <1>2, <1>3, <1>4 DEF Marking

(* stm32_flash_delete, up to the mark.                                     *)
LEMMA DeleteStep ==
  ASSUME Sound, NEW k \in Keys, Delete(k)
  PROVE  Sound'
  <1>1. /\ pc = "idle" /\ mem' = mem /\ allowed' = allowed /\ left' = left /\ left = 0
        /\ call' = [op |-> "delete", key |-> k]
        /\ mem \in Mem /\ allowed = [j \in Keys |-> allowed[j]] /\ Stored(mem, allowed)
    BY DEF Sound, Stage, Delete, Called
  <1>2. CASE FindFirstValid(k) = NULL
    <2>1. pc' = "idle"
      BY <1>2 DEF Delete, Return
    <2> QED BY <1>1, <2>1 DEF Sound, Stage
  <1>3. CASE FindFirstValid(k) # NULL
    <2>1. pc' = "mark" /\ Mark(FindFirstValid(k))
      BY <1>3 DEF Delete, Goto
    <2>2. PICK S, e : /\ Packed(mem, 0, S, e) /\ Blank(mem, Sector, 2 * Sector)
                      /\ Agrees(allowed, mem, S, e, Keys)
      BY <1>1 DEF Stored
    <2>3. PICK r \in S \ {e} : FindIn(mem, k) = r /\ Lives(mem, k, r)
      BY <1>1, <1>3, <2>2, StoredEnds, FindIs, SeesIn
    <2>4. Marking'
      BY <1>1, <2>1, <2>2, <2>3, SeesIn, MarkStarts
    <2>5. Deleting'
      BY <1>1 DEF Deleting
    <2> QED BY <1>1, <2>1, <2>4, <2>5 DEF Sound, Stage
  <1> QED BY <1>2, <1>3

(* stm32_flash_erase: no record is left in either sector.                  *)
LEMMA EraseAllStep ==
  ASSUME Sound, EraseAll \/ ClearPrimary \/ ClearSecondary
  PROVE  Sound'
  <1>0. mem \in Mem /\ allowed = [j \in Keys |-> allowed[j]]
    BY DEF Sound
  <1>1. CASE EraseAll
    BY <1>1 DEF Sound, Stage, EraseAll, Called, Goto, work
  <1>2. CASE ClearPrimary
    <2>1. /\ pc = "clearPrimary" /\ pc' = "clearSecondary" /\ mem' = Erased(0)
          /\ allowed' = allowed /\ left' = left
      BY <1>2 DEF ClearPrimary, Goto, Quiet, work
    <2>2. mem' \in Mem /\ Blank(mem', 0, Sector)
      BY <1>0, <2>1, ErasedIs, Sizes DEF Blank
    <2>3. left = 0
      BY <2>1 DEF Sound, Stage
    <2> QED BY <1>0, <2>1, <2>2, <2>3 DEF Sound, Stage
  <1>3. CASE ClearSecondary
    <2>1. /\ pc = "clearSecondary" /\ pc' = "idle" /\ mem' = Erased(Sector)
          /\ allowed' = [k \in Keys |-> {Absent}] /\ left' = left
      BY <1>3 DEF ClearSecondary, Return, work
    <2>2. left = 0 /\ Blank(mem, 0, Sector)
      BY <2>1 DEF Sound, Stage
    <2>3. mem' \in Mem /\ Blank(mem', Sector, 2 * Sector) /\ Blank(mem', 0, 0 + Sector)
      BY <1>0, <2>1, <2>2, ErasedIs, Sizes DEF Blank
    <2>4. Chain(mem', 0, {0}, 0) /\ One(mem', {0}, 0) /\ \A k : Gone(mem', {0}, 0, k)
      BY NoRecords
    <2>5. Packed(mem', 0, {0}, 0) /\ Agrees(allowed', mem', {0}, 0, Keys)
      BY <2>1, <2>3, <2>4 DEF Packed, Agrees, Says
    <2>6. Stored(mem', allowed')
      BY <2>3, <2>5 DEF Stored
    <2> QED BY <2>1, <2>2, <2>3, <2>6 DEF Sound, Stage
  <1> QED BY <1>1, <1>2, <1>3

-----------------------------------------------------------------------------
(* The compaction.                                                         *)

(* A record's uint8_t length is its length, when it fits.                  *)
LEMMA TotalIs ==
  ASSUME mem \in Mem, NEW a \in Nat, Rec(mem, a)
  PROVE  /\ TotalSize(a) = 6 + Get(mem, a + 2) /\ TotalSize(a) \in Nat /\ TotalSize(a) # 0
         /\ a + TotalSize(a) = After(mem, a)
  <1> DEFINE g == Get(mem, a + 2)
  <1>1. g \in Nat /\ g + 6 <= ByteMax /\ ByteMax \in Nat
    BY GetByte, Sizes DEF Rec
  <1>2. TotalSize(a) = (6 + g) % (ByteMax + 1)
    BY Sizes DEF TotalSize, Size, Byte, Get
  <1>3. After(mem, a) = a + 6 + g
    BY AfterIs
  <1> HIDE DEF g
  <1>4. (6 + g) % (ByteMax + 1) = 6 + g
    BY <1>1
  <1>5. TotalSize(a) = 6 + g
    BY <1>2, <1>4
  <1>6. TotalSize(a) \in Nat /\ TotalSize(a) # 0 /\ a + TotalSize(a) = After(mem, a)
    BY <1>1, <1>3, <1>5
  <1> QED BY <1>5, <1>6 DEF g

(* Copied speaks of the records alone.                                     *)
LEMMA CopiedSame ==
  ASSUME NEW m, NEW n, NEW S, NEW s, NEW T, NEW d, Copied(m, S, s, T, d),
         \A r \in S \ {Sector} : (\A k : Lives(n, k, r) <=> Lives(m, k, r)) /\ Gives(n, r) = Gives(m, r),
         \A t \in T \ {d} : (\A k : Lives(n, k, t) <=> Lives(m, k, t)) /\ Gives(n, t) = Gives(m, t)
  PROVE  Copied(n, S, s, T, d)
  <1>1. ASSUME NEW t \in T \ {d}, NEW k, Lives(n, k, t)
        PROVE  \E r \in S \ {Sector} : r < s /\ Lives(n, k, r) /\ Gives(n, t) = Gives(n, r)
    <2>1. PICK r \in S \ {Sector} : r < s /\ Lives(m, k, r) /\ Gives(m, t) = Gives(m, r)
      BY <1>1 DEF Copied
    <2> QED BY <2>1
  <1>2. ASSUME NEW r \in S \ {Sector}, NEW k, r < s, Lives(n, k, r)
        PROVE  \E t \in T \ {d} : Lives(n, k, t)
    BY <1>2 DEF Copied
  <1> QED BY <1>1, <1>2 DEF Copied

\* what Outward says, the places named
Out(S, T, s, d, o) ==
  /\ Chain(mem, 0, S, Sector) /\ One(mem, S, Sector) /\ Agrees(allowed, mem, S, Sector, Keys)
  /\ Chain(mem, Sector, T, d) /\ One(mem, T, d) /\ Copied(mem, S, s, T, d)
  /\ s \in S /\ d <= s + Sector /\ o \in Nat /\ o % 2 = 0 /\ src = s + o /\ dst = d + o
  /\ Blank(mem, d + o, 2 * Sector)

(* Where the pass to the secondary sector stands.                          *)
LEMMA OutRange ==
  ASSUME mem \in Mem, NEW S, NEW T, NEW s, NEW d, NEW o, Out(S, T, s, d, o)
  PROVE  /\ s \in Nat /\ s <= Sector /\ s % 2 = 0 /\ d \in Nat /\ Sector <= d /\ d <= 2 * Sector
         /\ d % 2 = 0
         /\ s # Sector =>
              /\ s < Sector /\ Rec(mem, s) /\ After(mem, s) \in S /\ After(mem, s) \in Nat
              /\ After(mem, s) = s + 6 + Get(mem, s + 2) /\ After(mem, s) <= Sector
              /\ Get(mem, s + 2) \in Nat /\ After(mem, s) % 2 = 0
              /\ \A r \in S : r <= s \/ After(mem, s) <= r
  <1>1. /\ s \in Nat /\ s <= Sector /\ s % 2 = 0 /\ d \in Nat /\ Sector <= d /\ d <= Sector + Sector
        /\ d % 2 = 0
    BY ChainRange, Sizes DEF Out, Chain
  <1>2. ASSUME s # Sector
        PROVE  /\ Rec(mem, s) /\ After(mem, s) \in S /\ After(mem, s) \in Nat
               /\ After(mem, s) = s + 6 + Get(mem, s + 2) /\ After(mem, s) <= Sector
               /\ Get(mem, s + 2) \in Nat /\ After(mem, s) % 2 = 0
               /\ \A r \in S : r <= s \/ After(mem, s) <= r
    <2>1. s \in S \ {Sector}
      BY <1>2 DEF Out
    <2>2. Rec(mem, s) /\ After(mem, s) \in S /\ \A r \in S : r <= s \/ After(mem, s) <= r
      BY <2>1 DEF Out, Chain
    <2>3. /\ After(mem, s) \in Nat /\ After(mem, s) <= Sector
          /\ After(mem, s) = s + 6 + Get(mem, s + 2)
      BY <2>1, ChainRange DEF Out
    <2>4. After(mem, s) % 2 = 0
      BY <2>2 DEF Out, Chain
    <2> QED BY <2>2, <2>3, <2>4, GetByte
  <1> QED BY <1>1, <1>2, Sizes

(* The valid records before s and the copies; then those before the next.  *)
LEMMA SkipStep ==
  ASSUME Sound, SkipRecord
  PROVE  Sound'
  <1>1. /\ pc = "toSecondary" /\ pc' = pc /\ mem' = mem /\ allowed' = allowed /\ call' = call
        /\ left = 0 /\ left' = left /\ dst' = dst /\ src' = src + TotalSize(src)
        /\ src < Sector /\ Get(mem, src + 3) # VALID
    BY Sizes DEF SkipRecord, AtRecord, Dropped, Limit, Quiet, Status, Byte, Get
  <1>2. Saving /\ Outward /\ mem \in Mem /\ allowed = [k \in Keys |-> allowed[k]]
    BY <1>1 DEF Sound, Stage
  <1>3. PICK S, T, s, d, o : Out(S, T, s, d, o) /\ o = 0
    BY <1>1, <1>2 DEF Outward, Out
  <1>4. s \in Nat /\ d \in Nat /\ src = s /\ dst = d
    BY <1>3, <1>2, OutRange DEF Out
  <1> DEFINE n == After(mem, s)
  <1>5. /\ s # Sector /\ Rec(mem, s) /\ n \in S /\ n \in Nat /\ s + 6 <= n
        /\ \A r \in S : r <= s \/ n <= r
    <2>1. s # Sector
      BY <1>1, <1>4, Sizes
    <2>2. Rec(mem, s) /\ n \in S /\ n \in Nat /\ \A r \in S : r <= s \/ n <= r
      BY <1>2, <1>3, <2>1, OutRange
    <2>3. s + 6 <= n
      BY <1>2, <1>4, AfterIs
    <2> QED BY <2>1, <2>2, <2>3
  <1>6. src' = n
    BY <1>1, <1>2, <1>4, <1>5, TotalIs
  <1> HIDE DEF n
  <1>7. Copied(mem, S, n, T, d)
    <2>1. Copied(mem, S, s, T, d) /\ \A r \in S : r \in Nat
      BY <1>2, <1>3, ChainRange DEF Out
    <2>2. \A r \in S : r < n => r < s \/ r = s
      BY <1>4, <1>5, <2>1
    <2>3. \A k : ~Lives(mem, k, s)
      BY <1>1, <1>4 DEF Lives
    <2>4. \A r \in S : r < s => r < n
      BY <1>4, <1>5, <2>1
    <2> QED BY <2>1, <2>2, <2>3, <2>4 DEF Copied
  <1>8. Outward'
    <2>1. /\ Chain(mem, 0, S, Sector) /\ One(mem, S, Sector) /\ Agrees(allowed, mem, S, Sector, Keys)
          /\ Chain(mem, Sector, T, d) /\ One(mem, T, d) /\ Blank(mem, d + o, 2 * Sector)
          /\ d <= s + Sector
      BY <1>3 DEF Out
    <2>2. d <= n + Sector /\ src' = n + o /\ dst' = d + o /\ o \in Nat /\ o % 2 = 0
      BY <1>1, <1>3, <1>4, <1>5, <1>6, <2>1, Sizes
    <2> QED BY <1>1, <1>3, <1>5, <1>7, <2>1, <2>2 DEF Outward
  <1>9. Saving'
    BY <1>1, <1>2 DEF Saving
  <1> QED BY <1>1, <1>2, <1>8, <1>9 DEF Sound, Stage

(* Where the records are on the way back.                                  *)
LEMMA HomeRange ==
  ASSUME mem \in Mem, NEW T, NEW d, Away(T, d)
  PROVE  /\ d \in Nat /\ Sector <= d /\ d <= 2 * Sector /\ d % 2 = 0 /\ Sector \in T
         /\ d < 2 * Sector => Get(mem, d) # MAGIC
         /\ \A t \in T : t \in Nat /\ t <= d /\ t % 2 = 0
         /\ \A t \in T \ {d} : /\ Sector <= t /\ Rec(mem, t) /\ After(mem, t) \in T
                               /\ After(mem, t) \in Nat /\ After(mem, t) <= d
                               /\ After(mem, t) % 2 = 0
  <1>1. /\ d \in Nat /\ Sector <= d /\ d <= Sector + Sector /\ d % 2 = 0 /\ Sector \in T
        /\ \A t \in T : t \in Nat /\ t <= d /\ t % 2 = 0
    BY ChainRange, Sizes DEF Away, Packed, Chain
  <1>2. ASSUME NEW t \in T \ {d}
        PROVE  /\ Sector <= t /\ Rec(mem, t) /\ After(mem, t) \in T
               /\ After(mem, t) \in Nat /\ After(mem, t) <= d
    BY ChainRange DEF Away, Packed, Chain
  <1>3. d < 2 * Sector => Get(mem, d) # MAGIC
    <2>1. d < Sector + Sector => Get(mem, d) = ByteMax
      BY <1>1 DEF Away, Packed, Blank
    <2> QED BY <2>1, Sizes
  <1> QED BY <1>1, <1>2, <1>3, Sizes

(* A record to copy: its length is not zero.                               *)
LEMMA CopyStep ==
  ASSUME Sound, CopyRecord
  PROVE  Sound'
  <1>1. /\ pc \in {"toSecondary", "toPrimary"} /\ mem' = mem /\ allowed' = allowed /\ call' = call
        /\ left = 0 /\ dst' = dst /\ src' = src /\ left' = TotalSize(src)
        /\ Get(mem, src) = MAGIC /\ src < Limit
        /\ TotalSize(src) # 0 => pc' = pc
        /\ pc = "toSecondary" => Get(mem, src + 3) = VALID
    BY DEF CopyRecord, AtRecord, Compacting, Dropped, Quiet, Magic, Status, Byte, Get
  <1>2. Saving /\ mem \in Mem /\ allowed = [k \in Keys |-> allowed[k]]
    BY <1>1 DEF Sound, Stage
  <1>3. Saving'
    BY <1>1, <1>2 DEF Saving
  <1>4. CASE pc = "toSecondary"
    <2>1. PICK S, T, s, d, o : Out(S, T, s, d, o) /\ o = 0
      BY <1>1, <1>4 DEF Sound, Stage, Outward, Out
    <2>2. s \in Nat /\ d \in Nat /\ src = s /\ dst = d /\ s # Sector
      BY <1>1, <1>2, <1>4, <2>1, OutRange, Sizes DEF Out, Limit
    <2>3. Rec(mem, s) /\ Get(mem, s + 2) \in Nat
      BY <1>2, <2>1, <2>2, OutRange
    <2>4. left' = 6 + Get(mem, s + 2) /\ left' \in Nat \ {0}
      BY <1>1, <1>2, <2>2, <2>3, TotalIs
    <2>5. pc' = pc
      BY <1>1, <2>4
    <2>6. Outward'
      <3>1. /\ o + left' = 6 + Get(mem, s + 2) /\ Get(mem, s + 3) = VALID
            /\ \A x \in Nat : ~(x < o)
        BY <1>1, <1>4, <2>1, <2>2, <2>3, <2>4
      <3> QED BY <1>1, <2>1, <2>2, <2>4, <3>1 DEF Outward, Out
    <2> QED BY <1>1, <1>2, <1>3, <1>4, <2>5, <2>6 DEF Sound, Stage
  <1>5. CASE pc = "toPrimary"
    <2>1. PICK T, d :
            /\ Away(T, d) /\ Blank(mem, dst, Sector)
            /\ dst \in Nat /\ dst % 2 = 0 /\ src = Sector + dst /\ src <= d
            /\ \A x \in Nat : x < dst => Get(mem, x) = Get(mem, Sector + x)
            /\ src \in T
      BY <1>1, <1>5 DEF Sound, Stage, Homeward
    <2>2. src \in T \ {d} /\ src \in Nat
      <3>1. src < 2 * Sector
        BY <1>1, <1>5 DEF Limit
      <3> QED BY <1>1, <1>2, <2>1, <3>1, HomeRange
    <2>3. Rec(mem, src)
      BY <1>2, <2>1, <2>2, HomeRange
    <2>4. left' \in Nat /\ left' # 0 /\ src + left' = After(mem, src)
      BY <1>1, <1>2, <2>2, <2>3, TotalIs
    <2>5. pc' = pc
      BY <1>1, <2>4
    <2>6. Homeward'
      <3>1. \E t \in T \ {d} : t <= src /\ src + left' = After(mem, t)
        BY <2>2, <2>4
      <3> QED BY <1>1, <2>1, <2>4, <3>1 DEF Homeward, Away
    <2> QED BY <1>1, <1>2, <1>3, <1>5, <2>5, <2>6 DEF Sound, Stage
  <1> QED BY <1>1, <1>4, <1>5

\* the half-word that a copy programs
LEMMA HalfWordIs ==
  ASSUME mem \in Mem, CopyHalfWord, left \in Nat, left % 2 = 0, src \in Nat,
         dst \in Nat, dst % 2 = 0, dst + 1 < 2 * Sector,
         Get(mem, dst) = ByteMax, Get(mem, dst + 1) = ByteMax
  PROVE  /\ mem' \in Mem /\ Wrote(mem, mem', dst, Get(mem, src), Get(mem, src + 1))
         /\ src' = src + 2 /\ dst' = dst + 2 /\ left' = left - 2 /\ left >= 2
         /\ pc' = pc /\ call' = call /\ allowed' = allowed
  <1>1. left > 0 /\ left > 1 /\ left >= 2
    BY DEF CopyHalfWord
  <1>2. Program(dst, Get(mem, src), Get(mem, src + 1))
    BY <1>1 DEF CopyHalfWord, Byte, Get
  <1>3. Get(mem, src) \in Bytes /\ Get(mem, src + 1) \in Bytes
    BY GetByte
  <1>4. mem' \in Mem /\ Wrote(mem, mem', dst, Get(mem, src), Get(mem, src + 1))
    BY <1>2, <1>3, ProgramBlank
  <1>5. /\ src' = src + 2 /\ dst' = dst + 2 /\ left' = left - 2
        /\ pc' = pc /\ call' = call /\ allowed' = allowed
    BY <1>1 DEF CopyHalfWord, Quiet
  <1> QED BY <1>1, <1>4, <1>5

(* A half-word further, in memory: the record at s and its copy at d.      *)
Growing(m, n, s, d, o, z) ==
  /\ m \in Mem /\ n \in Mem /\ s \in Nat /\ d \in Nat /\ o \in Nat /\ z \in Nat
  /\ s + z <= d /\ o + 2 <= z
  /\ Wrote(m, n, d + o, Get(m, s + o), Get(m, s + o + 1))
  /\ \A x \in Nat : x < o => Get(m, d + x) = Get(m, s + x)

(* What is copied so far, and what was there, stay.                        *)
LEMMA CopyGrows ==
  ASSUME NEW m, NEW n, NEW s, NEW d, NEW o, NEW z, Growing(m, n, s, d, o, z)
  PROVE  /\ \A x \in Nat : x < o + 2 => Get(n, d + x) = Get(n, s + x)
         /\ \A a \in Nat : a < d + o => Get(n, a) = Get(m, a)
         /\ \A a \in Nat : d + o + 2 <= a => Get(n, a) = Get(m, a)
  <1>0. /\ s \in Nat /\ d \in Nat /\ o \in Nat /\ z \in Nat /\ s + z <= d /\ o + 2 <= z
        /\ Wrote(m, n, d + o, Get(m, s + o), Get(m, s + o + 1))
        /\ \A x \in Nat : x < o => Get(m, d + x) = Get(m, s + x)
    BY DEF Growing
  <1>1. \A a \in Nat : a # d + o /\ a # d + o + 1 => Get(n, a) = Get(m, a)
    BY <1>0 DEF Wrote
  <1>2. Get(n, d + o) = Get(m, s + o) /\ Get(n, d + o + 1) = Get(m, s + o + 1)
    BY <1>0 DEF Wrote
  <1>3. ASSUME NEW x \in Nat, x < o + 2
        PROVE  Get(n, d + x) = Get(n, s + x)
    <2>1. Get(n, s + x) = Get(m, s + x)
      <3>1. s + x \in Nat /\ s + x # d + o /\ s + x # d + o + 1
        BY <1>0, <1>3
      <3> QED BY <1>1, <3>1
    <2>2. CASE x < o
      <3>1. d + x \in Nat /\ d + x # d + o /\ d + x # d + o + 1
        BY <1>0, <2>2
      <3> QED BY <1>0, <1>1, <2>1, <2>2, <3>1
    <2>3. CASE x = o
      BY <1>2, <2>1, <2>3
    <2>4. CASE x = o + 1
      <3>1. d + x = d + o + 1 /\ s + x = s + o + 1
        BY <1>0, <2>4
      <3> QED BY <1>2, <2>1, <3>1
    <2> QED BY <1>0, <1>3, <2>2, <2>3, <2>4
  <1>4. \A a \in Nat : a < d + o => Get(n, a) = Get(m, a)
    BY <1>0, <1>1
  <1>5. \A a \in Nat : d + o + 2 <= a => Get(n, a) = Get(m, a)
    BY <1>0, <1>1
  <1> QED BY <1>3, <1>4, <1>5

(* The last half-word of a record makes its copy one more of T.            *)
LEMMA CopyWhole ==
  ASSUME NEW m \in Mem, NEW S, NEW T, NEW s \in S \ {Sector}, NEW d,
         Chain(m, 0, S, Sector), One(m, S, Sector),
         Chain(m, Sector, T, d), One(m, T, d), Copied(m, S, s, T, d),
         d <= s + Sector, Get(m, s + 3) = VALID,
         \A x \in Nat : x < 6 + Get(m, s + 2) => Get(m, d + x) = Get(m, s + x)
  PROVE  LET f == After(m, d)
             U == T \union {f}
         IN  /\ f = d + 6 + Get(m, s + 2) /\ f <= After(m, s) + Sector
             /\ Chain(m, Sector, U, f) /\ One(m, U, f) /\ Copied(m, S, After(m, s), U, f)
  <1> DEFINE f == After(m, d)
             U == T \union {f}
             n == After(m, s)
             key == Get(m, s + 1)
  <1>1. /\ s \in Nat /\ d \in Nat /\ \A r \in S : r \in Nat
        /\ n \in Nat /\ n <= Sector /\ n = s + 6 + Get(m, s + 2) /\ Get(m, s + 2) \in Nat
        /\ \A r \in S : r <= s \/ n <= r
    <2>1. \A r \in S : r <= s \/ n <= r
      BY DEF Chain
    <2> QED BY <2>1, ChainRange, GetByte
  <1>2. Rec(m, s)
    BY DEF Chain
  <1>3. Same(m, s, m, d)
    BY DEF Same
  <1>4. Get(m, d + 3) = Get(m, s + 3)
    <2>1. 3 \in Nat /\ 3 < 6 + Get(m, s + 2)
      BY <1>1
    <2> QED BY <2>1
  <1>5. /\ f = n - s + d /\ Rec(m, d) /\ Gives(m, d) = Gives(m, s)
        /\ Get(m, d + 1) = key /\ Get(m, d + 3) = VALID
        /\ \A k : Lives(m, k, d) <=> Lives(m, k, s)
    BY <1>1, <1>2, <1>3, <1>4, RecordSame
  <1>6. f = d + 6 + Get(m, s + 2) /\ f <= n + Sector /\ f <= Sector + Sector
    <2> DEFINE g == Get(m, s + 2)
    <2>1. /\ s \in Nat /\ d \in Nat /\ n \in Nat /\ g \in Nat /\ n = s + 6 + g /\ n <= Sector
          /\ f = n - s + d /\ d <= s + Sector /\ Sector \in Nat
      BY <1>1, <1>5, Sizes
    <2> HIDE DEF f, n, g
    <2>2. f = d + 6 + g /\ f <= n + Sector /\ f <= Sector + Sector
      BY <2>1
    <2> QED BY <2>2 DEF g
  <1>7. Gone(m, T, d, key)
    <2>1. SUFFICES ASSUME NEW t \in T \ {d}, Lives(m, key, t)
                   PROVE  FALSE
      BY DEF Gone
    <2>2. PICK r \in S \ {Sector} : r < s /\ Lives(m, key, r)
      BY <2>1 DEF Copied
    <2>3. Lives(m, key, s)
      BY DEF Lives
    <2>4. r = s
      BY <2>2, <2>3 DEF One
    <2> QED BY <1>1, <2>2, <2>4
  <1>8. /\ Chain(m, Sector, U, f) /\ One(m, U, f) /\ U \ {f} = T
    <2>1. Rec(m, d) /\ After(m, d) <= Sector + Sector /\ Get(m, d + 1) = key /\ Get(m, d + 3) = VALID
      BY <1>5, <1>6
    <2>2. Grown(m, Sector, T, d, key, After(m, d), T \union {After(m, d)})
      <3> HIDE DEF key, f, U, n
      <3> QED BY <1>7, <2>1, OneMore
    <2> QED BY <2>2 DEF Grown
  <1> HIDE DEF f, n, U
  <1>9. Copied(m, S, n, U, f)
    <2>1. ASSUME NEW t \in U \ {f}, NEW k, Lives(m, k, t)
          PROVE  \E r \in S \ {Sector} : r < n /\ Lives(m, k, r) /\ Gives(m, t) = Gives(m, r)
      <3>1. CASE t = d
        <4>1. s < n
          BY <1>1
        <4> QED BY <1>5, <2>1, <3>1, <4>1
      <3>2. CASE t # d
        <4>1. PICK r \in S \ {Sector} : r < s /\ Lives(m, k, r) /\ Gives(m, t) = Gives(m, r)
          BY <1>8, <2>1, <3>2 DEF Copied
        <4>2. r < n
          BY <1>1, <4>1
        <4> QED BY <4>1, <4>2
      <3> QED BY <3>1, <3>2
    <2>2. ASSUME NEW r \in S \ {Sector}, NEW k, r < n, Lives(m, k, r)
          PROVE  \E t \in U \ {f} : Lives(m, k, t)
      <3>1. CASE r = s
        BY <1>5, <1>8, <2>2, <3>1 DEF Chain
      <3>2. CASE r # s
        <4>1. r < s
          BY <1>1, <2>2, <3>2
        <4>2. PICK t \in T \ {d} : Lives(m, k, t)
          BY <2>2, <4>1 DEF Copied
        <4> QED BY <1>8, <4>2
      <3> QED BY <3>1, <3>2
    <2> QED BY <2>1, <2>2 DEF Copied
  <1> QED BY <1>6, <1>8, <1>9 DEF f, U, n

(* One half-word to the secondary sector; with the last, a record more.    *)
LEMMA OutHalfWord ==
  ASSUME Sound, CopyHalfWord, pc = "toSecondary"
  PROVE  Sound'
  <1>1. Saving /\ Outward /\ mem \in Mem /\ allowed = [k \in Keys |-> allowed[k]]
    BY DEF Sound, Stage
  <1>2. left > 0
    BY DEF CopyHalfWord
  <1>3. PICK S, T, s, d, o :
          /\ Out(S, T, s, d, o)
          /\ left \in Nat \ {0} /\ s # Sector /\ Get(mem, s + 3) = VALID
          /\ o + left = 6 + Get(mem, s + 2)
          /\ \A x \in Nat : x < o => Get(mem, d + x) = Get(mem, s + x)
    BY <1>1, <1>2 DEF Outward, Out
  <1> DEFINE z == 6 + Get(mem, s + 2)
             n == After(mem, s)
  <1>4. /\ s \in Nat /\ s < Sector /\ s % 2 = 0 /\ d \in Nat /\ Sector <= d /\ d % 2 = 0
        /\ Rec(mem, s) /\ n \in S /\ n \in Nat /\ n = s + z /\ n <= Sector /\ z \in Nat /\ n % 2 = 0
    BY <1>1, <1>3, OutRange
  <1>5. o \in Nat /\ o % 2 = 0 /\ src = s + o /\ dst = d + o /\ d <= s + Sector /\ o + left = z
    BY <1>3 DEF Out
  <1> HIDE DEF z, n
  <1>6. left % 2 = 0 /\ src \in Nat /\ dst \in Nat /\ dst % 2 = 0
    <2>1. z % 2 = 0
      BY <1>4
    <2> QED BY <1>3, <1>4, <1>5, <2>1
  <1>7. left >= 2 /\ o + 2 <= z /\ d + o + 2 <= 2 * Sector
    <2>1. left \in Nat /\ left # 0 /\ o + left = z /\ Sector \in Nat
      BY <1>3, <1>5, Sizes
    <2>2. left >= 2
      BY <1>6, <2>1
    <2>3. o + 2 <= z
      BY <1>4, <1>5, <2>1, <2>2
    <2>4. d + o + 2 <= Sector + Sector
      BY <1>4, <1>5, <2>1, <2>3
    <2> QED BY <2>1, <2>2, <2>3, <2>4
  <1>8. Get(mem, dst) = ByteMax /\ Get(mem, dst + 1) = ByteMax /\ dst + 1 < 2 * Sector
    <2>1. Sector \in Nat /\ dst + 1 < 2 * Sector /\ dst < 2 * Sector /\ d + o <= dst /\ d + o <= dst + 1
      BY <1>4, <1>5, <1>7, Sizes
    <2> QED BY <1>3, <1>6, <2>1 DEF Out, Blank
  <1>9. /\ mem' \in Mem /\ Wrote(mem, mem', dst, Get(mem, src), Get(mem, src + 1))
        /\ src' = src + 2 /\ dst' = dst + 2 /\ left' = left - 2
        /\ pc' = pc /\ call' = call /\ allowed' = allowed
    BY <1>1, <1>3, <1>6, <1>8, HalfWordIs
  <1>10. /\ \A x \in Nat : x < o + 2 => Get(mem', d + x) = Get(mem', s + x)
         /\ \A a \in Nat : a < d + o => Get(mem', a) = Get(mem, a)
         /\ \A a \in Nat : d + o + 2 <= a => Get(mem', a) = Get(mem, a)
    <2>1. Wrote(mem, mem', d + o, Get(mem, s + o), Get(mem, s + o + 1))
      BY <1>5, <1>9
    <2>2. s + z <= d
      BY <1>4, Sizes
    <2>3. /\ s \in Nat /\ d \in Nat /\ o \in Nat /\ z \in Nat /\ o + 2 <= z
          /\ mem \in Mem /\ mem' \in Mem
      BY <1>1, <1>4, <1>5, <1>7, <1>9
    <2>4. \A x \in Nat : x < o => Get(mem, d + x) = Get(mem, s + x)
      BY <1>3
    <2>5. Growing(mem, mem', s, d, o, z)
      BY <2>1, <2>2, <2>3, <2>4 DEF Growing
    <2> HIDE DEF Growing
    <2> QED BY <2>5, CopyGrows
  <1>11. /\ Chain(mem', 0, S, Sector) /\ One(mem', S, Sector)
         /\ \A k, x : Says(mem, S, Sector, k, x) => Says(mem', S, Sector, k, x)
         /\ \A r \in S \ {Sector} :
              (\A k : Lives(mem', k, r) <=> Lives(mem, k, r)) /\ Gives(mem', r) = Gives(mem, r)
    <2>1. \A a \in Nat : 0 <= a /\ a < Sector => Get(mem', a) = Get(mem, a)
      BY <1>4, <1>5, <1>10, Sizes
    <2>2. Chain(mem, 0, S, Sector) /\ One(mem, S, Sector)
      BY <1>3 DEF Out
    <2> QED BY <1>1, <1>9, <2>1, <2>2, BelowSame
  <1>12. /\ Chain(mem', Sector, T, d) /\ One(mem', T, d)
         /\ \A t \in T \ {d} :
              (\A k : Lives(mem', k, t) <=> Lives(mem, k, t)) /\ Gives(mem', t) = Gives(mem, t)
    <2>1. \A a \in Nat : Sector <= a /\ a < d => Get(mem', a) = Get(mem, a)
      BY <1>4, <1>5, <1>10
    <2>2. Chain(mem, Sector, T, d) /\ One(mem, T, d)
      BY <1>3 DEF Out
    <2> QED BY <1>1, <1>9, <2>1, <2>2, BelowSame
  <1>13. Copied(mem', S, s, T, d)
    BY <1>3, <1>11, <1>12, CopiedSame DEF Out
  <1>14. Agrees(allowed', mem', S, Sector, Keys)
    BY <1>3, <1>9, <1>11 DEF Out, Agrees
  <1>15. Get(mem', s + 2) = Get(mem, s + 2) /\ Get(mem', s + 3) = VALID
    <2>1. s + 2 \in Nat /\ s + 3 \in Nat /\ s + 2 < d + o /\ s + 3 < d + o
      <3>1. s + 6 <= n
        BY <1>1, <1>4, AfterIs DEF n
      <3> QED BY <1>4, <1>5, <3>1, Sizes
    <2> QED BY <1>3, <1>10, <2>1
  <1>16. Blank(mem', d + o + 2, 2 * Sector)
    <2>1. \A a \in Nat : d + o + 2 <= a => d + o <= a
      BY <1>4, <1>5
    <2> QED BY <1>3, <1>10, <2>1 DEF Out, Blank
  <1>17. s \in S
    BY <1>3 DEF Out
  <1>18. Outward'
    <2>1. CASE left - 2 # 0
      <3> DEFINE p == o + 2
      <3>1. /\ p \in Nat /\ p % 2 = 0 /\ src' = s + p /\ dst' = d + p /\ d + p = d + o + 2
            /\ left' \in Nat \ {0} /\ p + left' = z
        BY <1>3, <1>4, <1>5, <1>7, <1>9, <2>1
      <3>2. Blank(mem', d + p, 2 * Sector)
        BY <1>16, <3>1
      <3>3. \A x \in Nat : x < p => Get(mem', d + x) = Get(mem', s + x)
        BY <1>10
      <3>4. p + left' = 6 + Get(mem', s + 2)
        BY <1>15, <3>1 DEF z
      <3> HIDE DEF p
      <3> QED BY <1>3, <1>5, <1>11, <1>12, <1>13, <1>14, <1>15, <1>17, <3>1, <3>2, <3>3, <3>4
              DEF Outward
    <2>2. CASE left - 2 = 0
      <3>1. o + 2 = z
        BY <1>3, <1>4, <1>5, <2>2
      <3>2. \A x \in Nat : x < 6 + Get(mem', s + 2) => Get(mem', d + x) = Get(mem', s + x)
        BY <1>10, <1>15, <3>1 DEF z
      <3> DEFINE f == After(mem', d)
                 U == T \union {f}
      <3>3. /\ f = d + 6 + Get(mem', s + 2) /\ f <= After(mem', s) + Sector
            /\ Chain(mem', Sector, U, f) /\ One(mem', U, f)
            /\ Copied(mem', S, After(mem', s), U, f)
        BY <1>3, <1>5, <1>9, <1>11, <1>12, <1>13, <1>15, <1>17, <3>2, CopyWhole
      <3>4. After(mem', s) = n
        BY <1>15 DEF After, n
      <3>5. f = d + z
        BY <1>1, <1>4, <1>15, <3>3, GetByte DEF z
      <3> DEFINE p == 0
      <3>6. p \in Nat /\ p % 2 = 0 /\ f + p = f /\ n + p = n /\ p = 0
        BY <1>4, <3>5
      <3> HIDE DEF f, U, p
      <3>7. src' = n + p /\ dst' = f + p /\ left' = 0
        BY <1>3, <1>4, <1>5, <1>9, <2>2, <3>1, <3>5, <3>6
      <3>8. Blank(mem', f + p, 2 * Sector)
        <4>1. f + p = d + o + 2
          BY <1>4, <1>5, <3>1, <3>5, <3>6
        <4> QED BY <1>16, <4>1
      <3>9. Chain(mem', Sector, U, f) /\ One(mem', U, f) /\ Copied(mem', S, n, U, f) /\ f <= n + Sector
        BY <3>3, <3>4
      <3> QED BY <1>4, <1>11, <1>14, <3>6, <3>7, <3>8, <3>9 DEF Outward
    <2> QED BY <2>1, <2>2
  <1>19. Saving'
    BY <1>1, <1>9 DEF Saving
  <1>20. allowed' = [k \in Keys |-> allowed'[k]]
    BY <1>1, <1>9
  <1> QED BY <1>9, <1>18, <1>19, <1>20 DEF Sound, Stage

(* One half-word back.                                                     *)
LEMMA HomeHalfWord ==
  ASSUME Sound, CopyHalfWord, pc = "toPrimary"
  PROVE  Sound'
  <1>1. Saving /\ Homeward /\ mem \in Mem /\ allowed = [k \in Keys |-> allowed[k]]
    BY DEF Sound, Stage
  <1>2. left > 0
    BY DEF CopyHalfWord
  <1>3. PICK T, d :
          /\ Away(T, d) /\ Blank(mem, dst, Sector)
          /\ dst \in Nat /\ dst % 2 = 0 /\ src = Sector + dst /\ src <= d /\ left \in Nat
          /\ \A x \in Nat : x < dst => Get(mem, x) = Get(mem, Sector + x)
          /\ left # 0 => \E t \in T \ {d} : t <= src /\ src + left = After(mem, t)
    BY <1>1 DEF Homeward
  <1>4. PICK t \in T \ {d} : t <= src /\ src + left = After(mem, t)
    BY <1>2, <1>3
  <1> DEFINE n == After(mem, t)
  <1>5. /\ d \in Nat /\ Sector <= d /\ d <= Sector + Sector /\ Sector \in Nat /\ Sector % 2 = 0
        /\ n \in T /\ n \in Nat /\ n <= d /\ n % 2 = 0 /\ t \in Nat /\ Sector <= t
    BY <1>1, <1>3, HomeRange, Sizes
  <1> HIDE DEF n
  <1>6. src \in Nat /\ src % 2 = 0 /\ src + left = n /\ left # 0 /\ left \in Nat
    BY <1>2, <1>3, <1>4, <1>5 DEF n
  <1>7. left % 2 = 0 /\ left >= 2 /\ dst + 2 <= Sector
    <2>1. left % 2 = 0
      BY <1>5, <1>6
    <2>2. left >= 2
      BY <1>6, <2>1
    <2>3. dst + 2 <= Sector
      BY <1>3, <1>5, <1>6, <2>2
    <2> QED BY <2>1, <2>2, <2>3
  <1>8. dst \in Nat /\ dst % 2 = 0 /\ src = Sector + dst
    BY <1>3
  <1>9. Get(mem, dst) = ByteMax /\ Get(mem, dst + 1) = ByteMax /\ dst + 1 < 2 * Sector
    <2>1. dst < Sector /\ dst + 1 < Sector /\ dst + 1 \in Nat /\ dst <= dst + 1 /\ dst <= dst
      BY <1>5, <1>7, <1>8
    <2> QED BY <1>3, <1>5, <1>8, <2>1 DEF Blank
  <1>10. /\ mem' \in Mem /\ Wrote(mem, mem', dst, Get(mem, src), Get(mem, src + 1))
         /\ src' = src + 2 /\ dst' = dst + 2 /\ left' = left - 2
         /\ pc' = pc /\ call' = call /\ allowed' = allowed
    BY <1>1, <1>6, <1>7, <1>8, <1>9, HalfWordIs
  <1>11. \A a \in Nat : a # dst /\ a # dst + 1 => Get(mem', a) = Get(mem, a)
    BY <1>10 DEF Wrote
  <1>12. \A a \in Nat : Sector <= a => Get(mem', a) = Get(mem, a)
    BY <1>5, <1>7, <1>8, <1>11
  <1>13. /\ Chain(mem', Sector, T, d) /\ One(mem', T, d)
         /\ \A k, x : Says(mem, T, d, k, x) => Says(mem', T, d, k, x)
    <2>1. \A a \in Nat : Sector <= a /\ a < d => Get(mem', a) = Get(mem, a)
      BY <1>12
    <2>2. Chain(mem, Sector, T, d) /\ One(mem, T, d)
      BY <1>3 DEF Away, Packed
    <2> QED BY <1>1, <1>10, <2>1, <2>2, BelowSame
  <1>14. Away(T, d)'
    <2>1. Blank(mem', d, Sector + Sector)
      <3>1. \A a \in Nat : d <= a => Sector <= a
        BY <1>5
      <3> QED BY <1>3, <1>12, <3>1 DEF Away, Packed, Blank
    <2>2. Agrees(allowed', mem', T, d, Keys)
      BY <1>3, <1>10, <1>13 DEF Away, Agrees
    <2> QED BY <1>13, <2>1, <2>2 DEF Away, Packed
  <1>15. Blank(mem', dst + 2, Sector)
    <2>1. \A a \in Nat : dst + 2 <= a => dst <= a /\ a # dst /\ a # dst + 1
      BY <1>8
    <2> QED BY <1>3, <1>11, <2>1 DEF Blank
  <1>16. ASSUME NEW x \in Nat, x < dst + 2
         PROVE  Get(mem', x) = Get(mem', Sector + x)
    <2>1. Get(mem', Sector + x) = Get(mem, Sector + x)
      <3>1. Sector + x \in Nat /\ Sector <= Sector + x
        BY <1>5
      <3> QED BY <1>12, <3>1
    <2>2. CASE x < dst
      BY <1>3, <1>8, <1>11, <2>1, <2>2
    <2>3. CASE x = dst
      BY <1>8, <1>10, <2>1, <2>3 DEF Wrote
    <2>4. CASE x = dst + 1
      <3>1. Get(mem', dst + 1) = Get(mem, src + 1)
        BY <1>8, <1>10 DEF Wrote
      <3>2. src + 1 = Sector + x
        BY <1>5, <1>8, <2>4
      <3> QED BY <2>1, <2>4, <3>1, <3>2
    <2> QED BY <1>8, <1>16, <2>2, <2>3, <2>4
  <1>17. Homeward'
    <2>1. After(mem', t) = n
      <3>1. t + 2 \in Nat /\ Sector <= t + 2
        BY <1>5
      <3> QED BY <1>12, <3>1 DEF After, n
    <2> DEFINE p == dst + 2
    <2>2. p \in Nat /\ p % 2 = 0 /\ src' = Sector + p /\ src' <= d /\ left' \in Nat
      BY <1>5, <1>6, <1>7, <1>8, <1>10
    <2>3. left' = 0 => src' \in T
      <3>1. left' = 0 => src' = n
        BY <1>6, <1>10
      <3> QED BY <1>5, <3>1
    <2>4. left' # 0 => \E u \in T \ {d} : u <= src' /\ src' + left' = After(mem', u)
      <3>1. t <= src' /\ src' + left' = n
        BY <1>4, <1>5, <1>6, <1>7, <1>10
      <3> QED BY <2>1, <3>1
    <2>5. dst' = p
      BY <1>10
    <2>6. Blank(mem', p, Sector) /\ \A x \in Nat : x < p => Get(mem', x) = Get(mem', Sector + x)
      BY <1>15, <1>16
    <2> HIDE DEF p
    <2> QED BY <1>14, <2>2, <2>3, <2>4, <2>5, <2>6 DEF Homeward
  <1>18. Saving'
    BY <1>1, <1>10 DEF Saving
  <1>19. allowed' = [k \in Keys |-> allowed'[k]]
    BY <1>1, <1>10
  <1> QED BY <1>10, <1>17, <1>18, <1>19 DEF Sound, Stage

(* At the end of either pass the records are all where it copied them to.  *)
LEMMA DoneStep ==
  ASSUME Sound, CopyDone
  PROVE  Sound'
  <1>1. /\ pc \in {"toSecondary", "toPrimary"} /\ mem' = mem /\ allowed' = allowed /\ call' = call
        /\ left = 0 /\ left' = left
        /\ ~(Get(mem, src) = MAGIC /\ src < Limit)
        /\ pc' = IF pc = "toSecondary" THEN "erasePrimary" ELSE "eraseSecondary"
    BY DEF CopyDone, Compacting, Quiet, Magic, Byte, Get, Goto, work
  <1>2. Saving /\ mem \in Mem /\ allowed = [k \in Keys |-> allowed[k]]
    BY <1>1 DEF Sound, Stage
  <1>3. Saving'
    BY <1>1, <1>2 DEF Saving
  <1>4. CASE pc = "toSecondary"
    <2>1. PICK S, T, s, d, o : Out(S, T, s, d, o) /\ o = 0
      BY <1>1, <1>4 DEF Sound, Stage, Outward, Out
    <2>2. s \in Nat /\ d \in Nat /\ src = s /\ d + o = d
      BY <1>2, <2>1, OutRange DEF Out
    <2>3. s = Sector
      <3>1. ~(Get(mem, s) = MAGIC /\ s < Sector)
        BY <1>1, <1>4, <2>2 DEF Limit
      <3> QED BY <1>2, <2>1, <3>1, OutRange DEF Rec
    <2>4. Agrees(allowed, mem, T, d, Keys)
      <3>1. ASSUME NEW k \in Keys, NEW x, Says(mem, S, Sector, k, x)
            PROVE  Says(mem, T, d, k, x)
        <4>1. \A r \in S \ {Sector} : r < Sector
          <5>1. \A r \in S : r \in Nat /\ r <= Sector
            BY <1>2, <2>1, ChainRange DEF Out
          <5> QED BY <5>1, Sizes
        <4>2. CASE Gone(mem, S, Sector, k) /\ x = Absent
          <5>1. Gone(mem, T, d, k)
            BY <2>1, <4>2 DEF Out, Copied, Gone
          <5> QED BY <4>2, <5>1 DEF Says
        <4>3. ASSUME NEW r \in S \ {Sector}, Lives(mem, k, r), x = Gives(mem, r)
              PROVE  Says(mem, T, d, k, x)
          <5>1. PICK t \in T \ {d} : Lives(mem, k, t)
            BY <2>1, <2>3, <4>1, <4>3 DEF Out, Copied
          <5>2. PICK q \in S \ {Sector} : Lives(mem, k, q) /\ Gives(mem, t) = Gives(mem, q)
            BY <2>1, <5>1 DEF Out, Copied
          <5>3. q = r
            BY <2>1, <4>3, <5>2 DEF Out, One
          <5> QED BY <4>3, <5>1, <5>2, <5>3 DEF Says
        <4> QED BY <3>1, <4>2, <4>3 DEF Says
      <3> QED BY <2>1, <3>1 DEF Out, Agrees
    <2>5. Away(T, d)
      <3>1. Blank(mem, d, Sector + Sector)
        BY <2>1, <2>2, Sizes DEF Out
      <3> QED BY <2>1, <2>4, <3>1 DEF Out, Away, Packed
    <2>6. Away(T, d)'
      BY <1>1, <2>5 DEF Away
    <2> QED BY <1>1, <1>2, <1>3, <1>4, <2>6 DEF Sound, Stage
  <1>5. CASE pc = "toPrimary"
    <2>1. PICK T, d :
            /\ Away(T, d) /\ Blank(mem, dst, Sector)
            /\ dst \in Nat /\ dst % 2 = 0 /\ src = Sector + dst /\ src <= d
            /\ \A x \in Nat : x < dst => Get(mem, x) = Get(mem, Sector + x)
            /\ src \in T
      BY <1>1, <1>5 DEF Sound, Stage, Homeward
    <2>2. /\ d \in Nat /\ Sector <= d /\ d <= Sector + Sector /\ Sector \in Nat /\ Sector % 2 = 0
          /\ \A t \in T \ {d} : Rec(mem, t) /\ t \in Nat /\ t <= d
      BY <1>2, <2>1, HomeRange, Sizes
    <2>3. src = d
      <3>1. SUFFICES ASSUME src # d
                     PROVE  FALSE
        OBVIOUS
      <3>2. Rec(mem, src) /\ src \in Nat /\ src <= d
        BY <2>1, <2>2, <3>1
      <3>3. src < 2 * Sector
        BY <2>2, <3>1, <3>2
      <3> QED BY <1>1, <1>5, <3>2, <3>3 DEF Limit, Rec
    <2> DEFINE S == {t - Sector + 0 : t \in T}
               e == d - Sector + 0
               z == 0
    <2>4. e = dst /\ z + Sector = Sector /\ z \in Nat /\ z % 2 = 0
      BY <2>1, <2>2, <2>3
    <2>5. Carried(mem, Sector, T, d, mem, z)
      <3>1. \A x \in Nat : x < d - Sector => Get(mem, z + x) = Get(mem, Sector + x)
        BY <2>1, <2>2, <2>3
      <3>2. Chain(mem, Sector, T, d) /\ One(mem, T, d)
        BY <2>1 DEF Away, Packed
      <3> HIDE DEF z
      <3> QED BY <1>2, <2>2, <2>4, <3>1, <3>2, Shifted
    <2>6. /\ Chain(mem, 0, S, e) /\ One(mem, S, e)
          /\ \A k, x : Says(mem, T, d, k, x) => Says(mem, S, e, k, x)
      BY <2>5 DEF Carried
    <2> HIDE DEF S, e
    <2>7. Packed(mem, 0, S, e) /\ Agrees(allowed, mem, S, e, Keys)
      BY <2>1, <2>4, <2>6 DEF Packed, Away, Agrees
    <2>8. Home'
      BY <1>1, <2>7 DEF Home
    <2> QED BY <1>1, <1>2, <1>3, <1>5, <2>8 DEF Sound, Stage
  <1> QED BY <1>1, <1>4, <1>5

(* The primary sector goes once its records are all in the secondary one.  *)
LEMMA ErasePrimaryStep ==
  ASSUME Sound, ErasePrimary
  PROVE  Sound'
  <1>1. /\ pc = "erasePrimary" /\ pc' = "toPrimary" /\ mem' = Erased(0) /\ allowed' = allowed
        /\ call' = call /\ left' = left /\ src' = Sector /\ dst' = 0
    BY DEF ErasePrimary, Goto, Quiet
  <1>2. Saving /\ mem \in Mem /\ allowed = [k \in Keys |-> allowed[k]] /\ left = 0
    BY <1>1 DEF Sound, Stage
  <1>3. PICK T, d : Away(T, d)
    BY <1>1 DEF Sound, Stage
  <1>4. /\ mem' \in Mem
        /\ \A a \in Nat : a < Sector => Get(mem', a) = ByteMax
        /\ \A a \in Nat : Sector <= a => Get(mem', a) = Get(mem, a)
    BY <1>1, <1>2, ErasedIs, Sizes
  <1>5. d \in Nat /\ Sector <= d /\ Sector \in T /\ Sector \in Nat
    BY <1>2, <1>3, HomeRange, Sizes
  <1>6. /\ Chain(mem', Sector, T, d) /\ One(mem', T, d)
        /\ \A k, x : Says(mem, T, d, k, x) => Says(mem', T, d, k, x)
    <2>1. Chain(mem, Sector, T, d) /\ One(mem, T, d)
      BY <1>3 DEF Away, Packed
    <2> QED BY <1>2, <1>4, <2>1, BelowSame
  <1>7. Away(T, d)'
    <2>1. Blank(mem', d, Sector + Sector)
      <3>1. \A a \in Nat : d <= a => Sector <= a
        BY <1>5
      <3> QED BY <1>3, <1>4, <3>1 DEF Away, Packed, Blank
    <2>2. Agrees(allowed', mem', T, d, Keys)
      BY <1>1, <1>3, <1>6 DEF Away, Agrees
    <2> QED BY <1>6, <2>1, <2>2 DEF Away, Packed
  <1>8. Homeward'
    <2>1. Blank(mem', 0, Sector)
      BY <1>4 DEF Blank
    <2>2. /\ src' = Sector + dst' /\ src' <= d /\ left' = 0 /\ src' \in T
          /\ dst' \in Nat /\ dst' % 2 = 0 /\ \A x \in Nat : ~(x < dst')
      BY <1>1, <1>2, <1>5
    <2> QED BY <1>1, <1>7, <2>1, <2>2 DEF Homeward
  <1>9. Saving'
    BY <1>1, <1>2 DEF Saving
  <1> QED BY <1>1, <1>2, <1>4, <1>8, <1>9 DEF Sound, Stage

(* ... and the secondary one once they are back.                           *)
LEMMA EraseSecondaryStep ==
  ASSUME Sound, EraseSecondary
  PROVE  Sound'
  <1>1. /\ pc = "eraseSecondary" /\ pc' = "place" /\ mem' = Erased(Sector) /\ allowed' = allowed
        /\ call' = call /\ left' = left
    BY DEF EraseSecondary, Goto, Quiet, work
  <1>2. Saving /\ mem \in Mem /\ allowed = [k \in Keys |-> allowed[k]] /\ left = 0 /\ Home
    BY <1>1 DEF Sound, Stage
  <1>3. PICK S, e : Packed(mem, 0, S, e) /\ Agrees(allowed, mem, S, e, Keys)
    BY <1>2 DEF Home
  <1>4. /\ mem' \in Mem
        /\ \A a \in Nat : a < Sector => Get(mem', a) = Get(mem, a)
        /\ Blank(mem', Sector, 2 * Sector)
    BY <1>1, <1>2, ErasedIs, Sizes DEF Blank
  <1>5. e \in Nat /\ e <= Sector
    BY <1>2, <1>3, StoredEnds
  <1>6. /\ Chain(mem', 0, S, e) /\ One(mem', S, e)
        /\ \A k, x : Says(mem, S, e, k, x) => Says(mem', S, e, k, x)
    <2>1. Chain(mem, 0, S, e) /\ One(mem, S, e)
      BY <1>3 DEF Packed
    <2>2. \A a \in Nat : 0 <= a /\ a < e => Get(mem', a) = Get(mem, a)
      BY <1>4, <1>5, Sizes
    <2> QED BY <1>2, <1>4, <2>1, <2>2, BelowSame
  <1>7. Packed(mem', 0, S, e)
    <2>1. Blank(mem', e, 0 + Sector)
      BY <1>3, <1>4, Sizes DEF Packed, Blank
    <2> QED BY <1>6, <2>1 DEF Packed
  <1>8. Agrees(allowed', mem', S, e, Keys)
    BY <1>1, <1>3, <1>6 DEF Agrees
  <1>9. Stored(mem', allowed')
    BY <1>4, <1>7, <1>8 DEF Stored
  <1>10. Saving'
    BY <1>1, <1>2 DEF Saving
  <1> QED BY <1>1, <1>2, <1>4, <1>9, <1>10 DEF Sound, Stage

(* Each step of a compaction keeps the invariant.                          *)
LEMMA CompactStep ==
  ASSUME Sound, Compact
  PROVE  Sound'
  <1>1. CASE CopyHalfWord
    <2>1. pc = "toSecondary" \/ pc = "toPrimary"
      BY <1>1 DEF CopyHalfWord, Compacting
    <2> QED BY <1>1, <2>1, OutHalfWord, HomeHalfWord
  <1> QED BY <1>1, SkipStep, CopyStep, DoneStep, ErasePrimaryStep, EraseSecondaryStep DEF Compact

-----------------------------------------------------------------------------
(* The mark and the new record.                                            *)

(* After the compaction, if there was one: a place for the record, and the *)
(* old one to mark.                                                        *)
LEMMA PlaceStep ==
  ASSUME Sound, Place
  PROVE  Sound'
  <1>1. /\ pc = "place" /\ mem' = mem /\ allowed' = allowed /\ call' = call /\ left' = left
        /\ free' = FreeIn(mem)
    BY SeesIn DEF Place, Quiet
  <1>2. /\ Saving /\ mem \in Mem /\ allowed = [k \in Keys |-> allowed[k]] /\ left = 0
        /\ Stored(mem, allowed)
    BY <1>1 DEF Sound, Stage
  <1>3. Saving'
    BY <1>1, <1>2 DEF Saving
  <1>4. PICK S, e : /\ Packed(mem, 0, S, e) /\ Blank(mem, Sector, 2 * Sector)
                    /\ Agrees(allowed, mem, S, e, Keys)
    BY <1>2 DEF Stored
  <1>5. CASE FreeIn(mem) = NULL
    <2>1. pc' = "idle"
      BY <1>5, SeesIn DEF Place, Return
    <2> QED BY <1>1, <1>2, <2>1 DEF Sound, Stage
  <1>6. CASE FreeIn(mem) # NULL /\ FindIn(mem, call.key) = NULL
    <2>1. pc' = "header"
      BY <1>6, SeesIn DEF Place, Goto
    <2>2. e < Sector /\ free' = e /\ e + 0 = e
      BY <1>1, <1>2, <1>4, <1>6, StoredEnds
    <2>3. Gone(mem, S, e, call.key)
      <3>1. Path(mem, S, e) /\ ~Goes(mem, e)
        BY <1>2, <1>4, StoredEnds
      <3>2. ASSUME NEW r \in S \ {e}, FindIn(mem, call.key) = r
            PROVE  FALSE
        BY <1>2, <1>4, <1>6, <3>2, RecordPlace
      <3> QED BY <1>2, <3>1, <3>2, FindIs DEF Gone
    <2>4. Room(S, e, 0)
      BY <1>4, <2>2, <2>3, Sizes DEF Room, Packed, Agrees
    <2>5. Ready'
      BY <1>1, <2>2, <2>4 DEF Ready, Room
    <2> QED BY <1>1, <1>2, <1>3, <2>1, <2>5 DEF Sound, Stage
  <1>7. CASE FreeIn(mem) # NULL /\ FindIn(mem, call.key) # NULL
    <2>1. pc' = "mark" /\ Mark(FindIn(mem, call.key))
      BY <1>7, SeesIn DEF Place, Goto
    <2>2. PICK r \in S \ {e} : FindIn(mem, call.key) = r /\ Lives(mem, call.key, r)
      BY <1>2, <1>4, <1>7, StoredEnds, FindIs
    <2>3. free' = e /\ e < Sector
      BY <1>1, <1>2, <1>4, <1>7, StoredEnds
    <2>4. Marking'
      BY <1>1, <1>2, <1>4, <2>1, <2>2, <2>3, MarkStarts
    <2> QED BY <1>1, <1>2, <1>3, <2>1, <2>4 DEF Sound, Stage
  <1> QED BY <1>5, <1>6, <1>7

(* Two memories that read the same are the same.                           *)
LEMMA MemSame ==
  ASSUME NEW m \in Mem, NEW n \in Mem, \A a \in Nat : Get(n, a) = Get(m, a)
  PROVE  n = m
  <1> DEFINE D == 0 .. 2 * Sector - 1
  <1>1. m \in [D -> Bytes] /\ n \in [D -> Bytes]
    BY DEF Mem
  <1>2. ASSUME NEW a \in D
        PROVE  n[a] = m[a]
    <2>1. a \in Nat /\ Get(n, a) = n[a] /\ Get(m, a) = m[a]
      BY <1>1, Sizes DEF Get
    <2> QED BY <2>1
  <1> HIDE DEF D
  <1> QED BY <1>1, <1>2

(* The half-words of a mark change one byte, the status.                   *)
LEMMA MarkWrites ==
  ASSUME mem \in Mem, NEW r \in Nat, r % 2 = 0, r + 6 <= Sector, NEW t \in {0, 2, 4}, NEW data,
         MarkOf(mem, r, data), Program(r + t, data[t + 1], data[t + 2])
  PROVE  /\ mem' \in Mem
         /\ \A a \in Nat : a # r + 3 => Get(mem', a) = Get(mem, a)
         /\ Get(mem', r + 3) = IF t = 2 THEN DELETED ELSE Get(mem, r + 3)
  <1>1. /\ data[1] = Get(mem, r) /\ data[2] = Get(mem, r + 1) /\ data[3] = Get(mem, r + 2)
        /\ data[4] = 0 /\ data[5] = Get(mem, r + 4) /\ data[6] = Get(mem, r + 5)
    <2>1. \A i \in 1 .. 6 : i # 4 => data[i] = Get(mem, r + i - 1)
      BY DEF MarkOf
    <2>2. r + 1 - 1 = r /\ r + 2 - 1 = r + 1 /\ r + 3 - 1 = r + 2 /\ r + 5 - 1 = r + 4 /\ r + 6 - 1 = r + 5
      OBVIOUS
    <2> QED BY <2>1, <2>2, Sizes DEF MarkOf
  <1>2. \A x : Get(mem, x) \in Bytes /\ BitAnd(Get(mem, x), Get(mem, x)) = Get(mem, x)
               /\ BitAnd(Get(mem, x), 0) = 0
    <2>1. 0 \in Bytes
      BY Sizes
    <2> QED BY <2>1, GetByte, BitsAssumption DEF BitsAssumption
  <1>3. Sector \in Nat /\ 0 \in Bytes
    BY Sizes
  <1>4. CASE t = 0
    <2>1. Program(r, Get(mem, r), Get(mem, r + 1)) /\ r + 1 < 2 * Sector
      BY <1>1, <1>3, <1>4
    <2>2. /\ mem' \in Mem
          /\ \A x \in Nat : Get(mem', x) =
               IF x = r THEN BitAnd(Get(mem, r), Get(mem, r))
               ELSE IF x = r + 1 THEN BitAnd(Get(mem, r + 1), Get(mem, r + 1)) ELSE Get(mem, x)
      BY <1>2, <2>1, ProgramIs
    <2>3. \A x \in Nat : Get(mem', x) = Get(mem, x)
      BY <1>2, <2>2
    <2> QED BY <1>4, <2>2, <2>3
  <1>5. CASE t = 2
    <2> DEFINE a == r + 2
    <2>1. a \in Nat /\ a % 2 = 0 /\ a + 1 < 2 * Sector /\ a + 1 = r + 3
      BY <1>3
    <2>2. Program(a, Get(mem, a), 0)
      BY <1>1, <1>5
    <2> HIDE DEF a
    <2>3. /\ mem' \in Mem
          /\ \A x \in Nat : Get(mem', x) =
               IF x = a THEN BitAnd(Get(mem, a), Get(mem, a))
               ELSE IF x = a + 1 THEN BitAnd(Get(mem, a + 1), 0) ELSE Get(mem, x)
      BY <1>2, <1>3, <2>1, <2>2, ProgramIs
    <2>4. \A x \in Nat : x # r + 3 => Get(mem', x) = Get(mem, x)
      BY <1>2, <2>1, <2>3
    <2>5. Get(mem', r + 3) = 0
      BY <1>2, <2>1, <2>3
    <2> QED BY <1>5, <2>3, <2>4, <2>5, Sizes
  <1>6. CASE t = 4
    <2> DEFINE a == r + 4
    <2>1. a \in Nat /\ a % 2 = 0 /\ a + 1 < 2 * Sector /\ a + 1 = r + 5
      BY <1>3
    <2>2. Program(a, Get(mem, a), Get(mem, a + 1))
      BY <1>1, <1>6, <2>1
    <2> HIDE DEF a
    <2>3. /\ mem' \in Mem
          /\ \A x \in Nat : Get(mem', x) =
               IF x = a THEN BitAnd(Get(mem, a), Get(mem, a))
               ELSE IF x = a + 1 THEN BitAnd(Get(mem, a + 1), Get(mem, a + 1)) ELSE Get(mem, x)
      BY <1>2, <2>1, <2>2, ProgramIs
    <2>4. \A x \in Nat : Get(mem', x) = Get(mem, x)
      BY <1>2, <2>3
    <2> QED BY <1>6, <2>3, <2>4
  <1> QED BY <1>4, <1>5, <1>6

(* One half-word of a mark: with the second, the record is gone.           *)
LEMMA MarkStep ==
  ASSUME Sound, MarkHalfWord
  PROVE  Sound'
  <1>1. /\ pc = "mark" /\ pc' = pc /\ buf # <<>> /\ allowed' = allowed /\ call' = call
        /\ left' = left /\ free' = free /\ dst' = dst + 2 /\ buf' = SubSeq(buf, 3, Len(buf))
        /\ Program(dst, buf[1], buf[2])
    BY DEF MarkHalfWord, ProgramBuf, Quiet
  <1>2. /\ mem \in Mem /\ allowed = [k \in Keys |-> allowed[k]] /\ left = 0
        /\ Marking
    BY <1>1 DEF Sound, Stage
  <1>20. mem \in Mem /\ (Saving \/ Deleting)
    BY <1>1 DEF Sound, Stage
  <1>3. (Saving \/ Deleting)'
    BY <1>1, <1>20 DEF Saving, Deleting
  <1>4. PICK S, e, r, t, data :
          /\ Packed(mem, 0, S, e) /\ Blank(mem, Sector, 2 * Sector)
          /\ r \in S \ {e} /\ t \in {0, 2, 4, 6} /\ dst = r + t
          /\ MarkOf(mem, r, data) /\ Suffix(buf, data, t)
          /\ call.op = "save" => free = e /\ e < Sector
          /\ IF t < 4 THEN Lives(mem, call.key, r) /\ Agrees(allowed, mem, S, e, Keys)
             ELSE Gone(mem, S, e, call.key) /\ Agrees(allowed, mem, S, e, Keys \ {call.key})
    BY <1>1 DEF Marking, Sound, Stage
  <1>5. data \in Seq(Bytes) /\ Len(data) = 6
    BY <1>4 DEF MarkOf
  <1>60. t \in 0 .. Len(data) /\ Suffix(buf, data, t)
    BY <1>4, <1>5
  <1>61. HalfWordNext(buf, data, t)
    BY <1>5, <1>60, SuffixNext
  <1>6. t # 6 /\ t \in {0, 2, 4} /\ t + 2 <= Len(data)
    BY <1>1, <1>4, <1>5, <1>61 DEF HalfWordNext
  <1>7. /\ buf[1] = data[t + 1] /\ buf[2] = data[t + 2] /\ Suffix(buf', data, t + 2)
    BY <1>1, <1>6, <1>61 DEF HalfWordNext
  <1>8. /\ r \in Nat /\ r % 2 = 0 /\ r + 6 <= e /\ r + 6 <= Sector /\ e \in Nat /\ Sector \in Nat
    BY <1>4, <1>20, RecordPlace, StoredEnds, Sizes
  <1>9. /\ mem' \in Mem
        /\ \A a \in Nat : a # r + 3 => Get(mem', a) = Get(mem, a)
        /\ Get(mem', r + 3) = IF t = 2 THEN DELETED ELSE Get(mem, r + 3)
    BY <1>1, <1>4, <1>6, <1>7, <1>8, <1>20, MarkWrites
  <1>10. MarkOf(mem', r, data)
    <2>1. ASSUME NEW i \in 1 .. 6, i # 4
          PROVE  Get(mem', r + i - 1) = Get(mem, r + i - 1)
      <3>1. r + i - 1 \in Nat /\ r + i - 1 # r + 3
        BY <1>8, <2>1
      <3> QED BY <1>9, <3>1
    <2> QED BY <1>4, <2>1 DEF MarkOf
  <1>11. dst' = r + (t + 2) /\ t + 2 \in {0, 2, 4, 6}
    BY <1>1, <1>4, <1>6, <1>8
  <1>12. CASE t # 2
    <2>1. mem' = mem
      <3>1. \A a \in Nat : Get(mem', a) = Get(mem, a)
        BY <1>8, <1>9, <1>12
      <3> QED BY <1>9, <1>20, <3>1, MemSame
    <2>2. t + 2 < 4 <=> t < 4
      BY <1>6, <1>12
    <2>3. Marking'
      <3> DEFINE u == t + 2
      <3>1. dst' = r + u /\ u \in {0, 2, 4, 6} /\ Suffix(buf', data, u) /\ (u < 4 <=> t < 4)
        BY <1>7, <1>11, <2>2
      <3> HIDE DEF u
      <3> QED BY <1>1, <1>4, <2>1, <3>1 DEF Marking
    <2> QED BY <1>1, <1>2, <1>3, <1>9, <2>3 DEF Sound, Stage
  <1>13. CASE t = 2
    <2>1. Lives(mem, call.key, r) /\ Agrees(allowed, mem, S, e, Keys)
      BY <1>4, <1>13
    <2>2. Get(mem', r + 3) # VALID
      BY <1>9, <1>13, Sizes
    <2>3. /\ Chain(mem', 0, S, e) /\ One(mem', S, e) /\ Gone(mem', S, e, call.key)
          /\ \A k, x : k # call.key /\ Says(mem, S, e, k, x) => Says(mem', S, e, k, x)
      <3>1. Chain(mem, 0, S, e) /\ One(mem, S, e)
        BY <1>4 DEF Packed
      <3> QED BY <1>4, <1>9, <1>20, <2>1, <2>2, <3>1, MarkGone
    <2>4. Packed(mem', 0, S, e) /\ Blank(mem', Sector, 2 * Sector)
      <3>1. \A a \in Nat : e <= a => a # r + 3
        BY <1>8
      <3>2. \A a \in Nat : Sector <= a => a # r + 3
        BY <1>8
      <3>3. Blank(mem', e, 0 + Sector)
        BY <1>4, <1>9, <3>1 DEF Packed, Blank
      <3>4. Blank(mem', Sector, 2 * Sector)
        BY <1>4, <1>9, <3>2 DEF Blank
      <3> QED BY <2>3, <3>3, <3>4 DEF Packed
    <2>5. Agrees(allowed', mem', S, e, Keys \ {call.key})
      BY <1>1, <2>1, <2>3 DEF Agrees
    <2>6. Marking'
      <3> DEFINE u == t + 2
      <3>1. dst' = r + u /\ u \in {0, 2, 4, 6} /\ Suffix(buf', data, u) /\ ~(u < 4)
        BY <1>7, <1>11, <1>13
      <3> HIDE DEF u
      <3> QED BY <1>1, <1>4, <1>10, <2>3, <2>4, <2>5, <3>1 DEF Marking
    <2> QED BY <1>1, <1>2, <1>3, <1>9, <2>6 DEF Sound, Stage
  <1> QED BY <1>12, <1>13

(* The mark is done: a delete returns, a save goes on.                     *)
LEMMA MarkedStep ==
  ASSUME Sound, Marked
  PROVE  Sound'
  <1>1. /\ pc = "mark" /\ buf = <<>> /\ mem' = mem /\ call' = call /\ left' = left /\ free' = free
    BY DEF Marked, work
  <1>2. /\ mem \in Mem /\ allowed = [k \in Keys |-> allowed[k]] /\ left = 0
        /\ Marking /\ (Saving \/ Deleting)
    BY <1>1 DEF Sound, Stage
  <1>3. PICK S, e, r, t, data :
          /\ Packed(mem, 0, S, e) /\ Blank(mem, Sector, 2 * Sector)
          /\ t \in {0, 2, 4, 6} /\ MarkOf(mem, r, data) /\ Suffix(buf, data, t)
          /\ call.op = "save" => free = e /\ e < Sector
          /\ IF t < 4 THEN Lives(mem, call.key, r) /\ Agrees(allowed, mem, S, e, Keys)
             ELSE Gone(mem, S, e, call.key) /\ Agrees(allowed, mem, S, e, Keys \ {call.key})
    BY <1>2 DEF Marking
  <1>4. Gone(mem, S, e, call.key) /\ Agrees(allowed, mem, S, e, Keys \ {call.key})
    <2>1. data \in Seq(Bytes) /\ Len(data) = 6 /\ t \in 0 .. Len(data)
      BY <1>3 DEF MarkOf
    <2>2. t = 6
      <3>1. HalfWordNext(buf, data, t)
        BY <1>3, <2>1, SuffixNext
      <3> QED BY <1>1, <2>1, <3>1 DEF HalfWordNext
    <2> QED BY <1>3, <2>2
  <1>5. e \in Nat
    BY <1>2, <1>3, StoredEnds
  <1>6. CASE call.op = "save"
    <2>1. pc' = "header" /\ allowed' = allowed
      BY <1>6 DEF Marked, Goto
    <2>2. Saving'
      BY <1>1, <1>2, <1>6 DEF Saving, Deleting
    <2>3. Room(S, e, 0)
      BY <1>3, <1>4, <1>5, Sizes DEF Room, Packed
    <2>4. Ready'
      BY <1>1, <1>3, <1>6, <2>1, <2>3 DEF Ready, Room
    <2> QED BY <1>1, <1>2, <2>1, <2>2, <2>4 DEF Sound, Stage
  <1>7. CASE call.op # "save"
    <2>1. pc' = "idle" /\ allowed' = [allowed EXCEPT ![call.key] = {Absent}]
      BY <1>7 DEF Marked, Return
    <2>2. call.key \in Keys
      BY <1>2, <1>7 DEF Saving, Deleting
    <2>3. allowed' = [k \in Keys |-> allowed'[k]]
      BY <1>2, <2>1
    <2>4. Agrees(allowed', mem', S, e, Keys)
      BY <1>1, <1>2, <1>4, <2>1, <2>2 DEF Agrees, Says
    <2>5. Stored(mem', allowed')
      BY <1>1, <1>3, <2>4 DEF Stored
    <2> QED BY <1>1, <1>2, <2>1, <2>3, <2>5 DEF Sound, Stage
  <1> QED BY <1>6, <1>7

-----------------------------------------------------------------------------
(* The new record.                                                         *)

(* The record is made in RAM; its place is blank and long enough.          *)
LEMMA HeaderStep ==
  ASSUME Sound, WriteHeader, Fits(free)
  PROVE  Sound'
  <1>1. /\ pc = "header" /\ pc' = "record" /\ dst' = free /\ mem' = mem /\ call' = call
        /\ allowed' = allowed /\ left' = left
    BY DEF WriteHeader, Goto, Quiet
  <1>2. /\ Saving /\ mem \in Mem /\ allowed = [k \in Keys |-> allowed[k]] /\ left = 0 /\ Ready
    BY <1>1 DEF Sound, Stage
  <1>3. Saving'
    BY <1>1, <1>2 DEF Saving
  <1>4. PICK S, e : Room(S, e, 0) /\ free = e /\ e < Sector
    BY <1>2 DEF Ready
  <1>5. PICK reserved \in {0, ByteMax} : buf' = Record(call.key, call.value, reserved)
    BY DEF WriteHeader, Record
  <1>6. reserved \in Bytes
    BY Sizes
  <1>20. PICK data : data = Record(call.key, call.value, reserved)
    OBVIOUS
  <1> DEFINE z == 0
  <1>7. data \in Seq(Bytes) /\ Len(data) \in Nat
    BY <1>2, <1>6, <1>20, RecordBytes DEF Saving, IsRecord
  <1>70. Len(data) = 6 + Len(call'.value)
    BY <1>1, <1>2, <1>6, <1>20, RecordBytes DEF Saving, IsRecord
  <1>8. buf' = data
    BY <1>5, <1>20
  <1>9. e \in Nat
    BY <1>2, <1>4, ChainRange DEF Room
  <1>10. Fits(e)'
    BY <1>1, <1>4 DEF Fits
  <1>11. Room(S, e, z)'
    BY <1>1, <1>4 DEF Room
  <1>12. \A x \in Nat : x < z => Get(mem', e + x) = data[x + 1]
    OBVIOUS
  <1>13. data = Record(call'.key, call'.value, reserved)
    BY <1>1, <1>20
  <1>14. Suffix(buf', data, z) /\ z \in 0 .. Len(data) /\ z % 2 = 0 /\ dst' = e + z
    BY <1>1, <1>4, <1>7, <1>8, <1>9 DEF Suffix
  <1> HIDE DEF z
  <1>15. RecordTo(S, e, z, data)'
    BY <1>7, <1>70, <1>10, <1>11, <1>12, <1>14 DEF RecordTo
  <1>16. Writing'
    BY <1>6, <1>13, <1>15 DEF Writing
  <1> QED BY <1>1, <1>2, <1>3, <1>16 DEF Sound, Stage

(* A value's bytes and its header are a whole number of half-words.        *)
LEMMA ValueLength ==
  ASSUME NEW v \in Values
  PROVE  Len(v) \in Nat /\ Len(v) % 2 = 0 /\ (6 + Len(v)) % 2 = 0
  <1>1. Len(v) \in Nat /\ Len(v) % 2 = 0
    BY StoreAssumption DEF StoreAssumption
  <1>2. PICK n \in Nat : n = Len(v)
    BY <1>1
  <1>3. (6 + n) % 2 = 0
    BY <1>1, <1>2
  <1> QED BY <1>1, <1>2, <1>3

(* Even numbers are two apart at least.                                    *)
LEMMA EvenGap ==
  ASSUME NEW x \in Nat, NEW y \in Nat, x % 2 = 0, y % 2 = 0, x <= y, x # y
  PROVE  x + 2 <= y
  OBVIOUS

(* One half-word of the record: what is below it stays.                    *)
LEMMA RecordStep ==
  ASSUME Sound, RecordHalfWord
  PROVE  Sound'
  <1>1. /\ pc = "record" /\ pc' = pc /\ buf # <<>> /\ allowed' = allowed /\ call' = call
        /\ left' = left /\ dst' = dst + 2 /\ buf' = SubSeq(buf, 3, Len(buf))
        /\ Program(dst, buf[1], buf[2])
    BY DEF RecordHalfWord, ProgramBuf, Quiet
  <1>2. /\ Saving /\ mem \in Mem /\ allowed = [k \in Keys |-> allowed[k]] /\ left = 0 /\ Writing
    BY <1>1 DEF Sound, Stage
  <1>3. Saving'
    BY <1>1, <1>2 DEF Saving
  <1>4. PICK S, e, t : \E reserved \in Bytes :
          RecordTo(S, e, t, Record(call.key, call.value, reserved))
    BY <1>2 DEF Writing
  <1>5. PICK reserved \in Bytes : RecordTo(S, e, t, Record(call.key, call.value, reserved))
    BY <1>4
  <1>50. PICK data : data = Record(call.key, call.value, reserved)
    OBVIOUS
  <1> DEFINE N == Len(data)
             a == e + t
             u == t + 2
  <1>6. RecordTo(S, e, t, data) /\ dst = a /\ data = Record(call'.key, call'.value, reserved)
    BY <1>1, <1>5, <1>50 DEF RecordTo
  <1>7. PICK L \in Nat : L = Len(call.value) /\ (6 + L) % 2 = 0
    BY <1>2, ValueLength DEF Saving
  <1>70. L \in Nat /\ (6 + L) % 2 = 0
    BY <1>7
  <1>8. /\ N \in Nat /\ N % 2 = 0 /\ t \in Nat /\ t <= N /\ t % 2 = 0 /\ e \in Nat /\ e % 2 = 0
        /\ e + N <= Sector /\ N = 6 + L
    <2>1. e \in Nat /\ e % 2 = 0
      BY <1>2, <1>6, ChainRange DEF RecordTo, Room
    <2>2. e + 6 + L <= Sector /\ N = 6 + L
      BY <1>6, <1>7, Sizes DEF RecordTo, Fits
    <2>3. t \in 0 .. N /\ t % 2 = 0
      BY <1>6 DEF RecordTo
    <2>20. PICK n : n = N
      OBVIOUS
    <2>21. n = 6 + L
      BY <2>2, <2>20
    <2>22. n \in Nat /\ n % 2 = 0
      BY <1>70, <2>21
    <2>4. N \in Nat /\ N % 2 = 0
      BY <2>20, <2>22
    <2> HIDE DEF N
    <2>23. e + N <= Sector
      <3>1. e + 6 + L = e + N
        BY <1>70, <2>1, <2>2
      <3> QED BY <2>2, <3>1
    <2>5. t \in Nat /\ t <= N /\ t % 2 = 0
      BY <2>3, <2>4
    <2> QED BY <2>1, <2>2, <2>4, <2>5, <2>23
  <1>9. HalfWordNext(buf, data, t)
    BY <1>6, SuffixNext DEF RecordTo
  <1>10. t # N
    BY <1>1, <1>9 DEF HalfWordNext
  <1>11. t + 2 <= N
    <2> HIDE DEF N
    <2> QED BY <1>8, <1>10, EvenGap
  <1>12. /\ buf[1] = data[t + 1] /\ buf[2] = data[t + 2]
         /\ data[t + 1] \in Bytes /\ data[t + 2] \in Bytes
         /\ Suffix(buf', data, t + 2)
    BY <1>1, <1>9, <1>11 DEF HalfWordNext
  <1>13. a \in Nat /\ a % 2 = 0 /\ a + 1 < Sector /\ a + 1 < 2 * Sector /\ a + 1 \in Nat
    <2> HIDE DEF N
    <2> QED BY <1>8, <1>11, Sizes
  <1>14. Blank(mem, a, Sector) /\ Chain(mem, 0, S, e) /\ One(mem, S, e)
    BY <1>6 DEF RecordTo, Room
  <1>15. Get(mem, a) = ByteMax /\ Get(mem, a + 1) = ByteMax
    <2> HIDE DEF a
    <2>1. a <= a + 1 /\ a <= a /\ a < Sector
      BY <1>13, Sizes
    <2> QED BY <1>13, <1>14, <2>1 DEF Blank
  <1>16. mem' \in Mem /\ Wrote(mem, mem', a, data[t + 1], data[t + 2])
    <2> HIDE DEF a
    <2>1. Program(a, data[t + 1], data[t + 2])
      BY <1>1, <1>6, <1>12
    <2> QED BY <1>2, <1>12, <1>13, <1>15, <2>1, ProgramBlank
  <1>17. \A x \in Nat : Get(mem', x) = IF x = a THEN data[t + 1]
                                       ELSE IF x = a + 1 THEN data[t + 2] ELSE Get(mem, x)
    BY <1>16 DEF Wrote
  <1>18. \A x \in Nat : x < u => Get(mem', e + x) = data[x + 1]
    <2>1. ASSUME NEW x \in Nat, x < u
          PROVE  Get(mem', e + x) = data[x + 1]
      <3>1. e + x \in Nat
        BY <1>8
      <3>2. CASE x = t
        BY <1>17, <3>1, <3>2
      <3>3. CASE x = t + 1
        <4>1. e + x = a + 1 /\ e + x # a /\ x + 1 = t + 2
          BY <1>8, <3>3
        <4> QED BY <1>17, <3>1, <4>1
      <3>4. CASE x < t
        <4>1. e + x # a /\ e + x # a + 1
          BY <1>8, <3>4
        <4>2. Get(mem, e + x) = data[x + 1]
          BY <1>6, <3>4 DEF RecordTo
        <4> QED BY <1>17, <3>1, <4>1, <4>2
      <3> QED BY <1>8, <2>1, <3>2, <3>3, <3>4
    <2> QED BY <2>1
  <1>19. /\ Chain(mem', 0, S, e) /\ One(mem', S, e)
         /\ \A k : Gone(mem, S, e, k) => Gone(mem', S, e, k)
         /\ \A k, x : Says(mem, S, e, k, x) => Says(mem', S, e, k, x)
    <2>1. \A b \in Nat : 0 <= b /\ b < e => Get(mem', b) = Get(mem, b)
      <3>1. \A b \in Nat : b < e => b # a /\ b # a + 1
        BY <1>8
      <3> QED BY <1>17, <3>1
    <2> QED BY <1>2, <1>14, <1>16, <2>1, BelowSame
  <1>20. Blank(mem', e + u, Sector) /\ Blank(mem', Sector, 2 * Sector)
    <2>1. \A b \in Nat : (e + u <= b \/ Sector <= b) => b # a /\ b # a + 1 /\ a <= b
      BY <1>8, <1>13, Sizes
    <2>2. \A b \in Nat : (e + u <= b \/ Sector <= b) => Get(mem', b) = Get(mem, b)
      BY <1>17, <2>1
    <2>3. Blank(mem, Sector, 2 * Sector)
      BY <1>6 DEF RecordTo, Room
    <2> QED BY <1>14, <2>1, <2>2, <2>3 DEF Blank
  <1>21. u \in 0 .. N /\ u % 2 = 0 /\ dst' = e + u
    <2>1. dst' = a + 2
      BY <1>1, <1>6
    <2> HIDE DEF N
    <2> QED BY <1>8, <1>11, <2>1
  <1>22. Agrees(allowed, mem', S, e, Keys \ {call.key}) /\ Gone(mem', S, e, call.key)
    BY <1>6, <1>19 DEF RecordTo, Room, Agrees
  <1>23. Suffix(buf', data, u)
    BY <1>12
  <1>24. Fits(e)'
    BY <1>1, <1>6 DEF RecordTo, Fits
  <1> HIDE DEF u
  <1>25. Room(S, e, u)'
    BY <1>1, <1>19, <1>20, <1>22 DEF Room
  <1>26. RecordTo(S, e, u, data)'
    BY <1>1, <1>6, <1>18, <1>21, <1>23, <1>24, <1>25 DEF RecordTo
  <1>27. Writing'
    BY <1>6, <1>26 DEF Writing
  <1> QED BY <1>1, <1>2, <1>3, <1>16, <1>27 DEF Sound, Stage

\* the record at e is that of the call
LEMMA WrittenRecord ==
  ASSUME mem \in Mem, Saving, NEW S, NEW e, NEW reserved \in Bytes, NEW t,
         RecordTo(S, e, t, Record(call.key, call.value, reserved)), buf = <<>>
  PROVE  /\ e \in Nat /\ Rec(mem, e) /\ After(mem, e) = e + 6 + Len(call.value)
         /\ Get(mem, e + 1) = call.key /\ Get(mem, e + 3) = VALID
         /\ Gives(mem, e) = call.value
         /\ t = 6 + Len(call.value) /\ After(mem, e) = e + t /\ After(mem, e) <= Sector
  <1>20. PICK data : data = Record(call.key, call.value, reserved)
    OBVIOUS
  <1>21. PICK v : v = call.value
    OBVIOUS
  <1>22. IsRecord(data, call.key, v)
    BY <1>20, <1>21, RecordBytes DEF Saving
  <1>1. /\ v \in Seq(Bytes) /\ Len(v) \in 1 .. ByteMax
        /\ Len(data) = 6 + Len(v) /\ data \in Seq(Bytes)
        /\ data[1] = MAGIC /\ data[2] = call.key /\ data[3] = Len(v) /\ data[4] = VALID
        /\ data[6] = CalculateCrc(v) /\ \A i \in 1 .. Len(v) : data[6 + i] = v[i]
    BY <1>22 DEF IsRecord
  <1>2. RecordTo(S, e, t, data)
    BY <1>20
  <1>3. t = 6 + Len(v)
    <2>1. HalfWordNext(buf, data, t)
      BY <1>1, <1>2, SuffixNext DEF RecordTo
    <2> QED BY <1>1, <2>1 DEF HalfWordNext
  <1>4. e \in Nat /\ Len(v) \in Nat
    BY <1>1, <1>2, ChainRange DEF RecordTo, Room
  <1>5. \A x \in Nat : x < 6 + Len(v) => Get(mem, e + x) = data[x + 1]
    BY <1>2, <1>3 DEF RecordTo
  <1>6. /\ Get(mem, e) = MAGIC /\ Get(mem, e + 1) = call.key /\ Get(mem, e + 2) = Len(v)
        /\ Get(mem, e + 3) = VALID /\ Get(mem, e + 5) = CalculateCrc(v)
    <2>1. ASSUME NEW x \in 0 .. 5
          PROVE  Get(mem, e + x) = data[x + 1]
      <3>1. x \in Nat /\ x < 6 + Len(v)
        BY <1>4
      <3> QED BY <1>5, <3>1
    <2>2. Get(mem, e + 0) = data[0 + 1] /\ Get(mem, e + 1) = data[1 + 1]
          /\ Get(mem, e + 2) = data[2 + 1]
          /\ Get(mem, e + 3) = data[3 + 1] /\ Get(mem, e + 5) = data[5 + 1]
      BY <2>1
    <2> QED BY <1>1, <1>4, <2>2
  <1>7. Value(mem, e) = v
    <2>1. ASSUME NEW i \in 1 .. Len(v)
          PROVE  Get(mem, e + HDR + i - 1) = v[i]
      <3>1. 5 + i \in Nat /\ 5 + i < 6 + Len(v) /\ (5 + i) + 1 = 6 + i
            /\ e + HDR + i - 1 = e + (5 + i)
        BY <1>4, Sizes
      <3>2. Get(mem, e + (5 + i)) = data[(5 + i) + 1]
        BY <1>5, <3>1
      <3> QED BY <1>1, <3>1, <3>2
    <2>2. v = [i \in 1 .. Len(v) |-> v[i]]
      BY <1>1
    <2> QED BY <1>6, <2>1, <2>2 DEF Value
  <1>8. Gives(mem, e) = v
    BY <1>6, <1>7 DEF Gives
  <1>9. Fits(e) /\ v \in Values
    BY <1>2, <1>21 DEF RecordTo, Saving
  <1>10. Rec(mem, e)
    BY <1>4, <1>6, <1>9, <1>21, Sizes DEF Rec, Fits
  <1>11. After(mem, e) = e + 6 + Len(v)
    BY <1>4, <1>6, AfterIs
  <1>12. e + 6 + Len(v) <= Sector
    BY <1>4, <1>9, <1>21, Sizes DEF Fits
  <1>13. After(mem, e) = e + t /\ After(mem, e) <= Sector
    BY <1>3, <1>4, <1>11, <1>12, Sizes
  <1> QED BY <1>3, <1>4, <1>6, <1>8, <1>10, <1>11, <1>13, <1>21

(* The record is there: its key reads as the value, the others as before.  *)
LEMMA SavedStep ==
  ASSUME Sound, Saved
  PROVE  Sound'
  <1>1. /\ pc = "record" /\ pc' = "idle" /\ buf = <<>> /\ mem' = mem /\ left' = left
        /\ allowed' = [allowed EXCEPT ![call.key] = {call.value}]
    BY DEF Saved, Return, work
  <1>2. /\ Saving /\ mem \in Mem /\ allowed = [k \in Keys |-> allowed[k]] /\ left = 0 /\ Writing
    BY <1>1 DEF Sound, Stage
  <1>3. PICK S, e, t : \E reserved \in Bytes :
          RecordTo(S, e, t, Record(call.key, call.value, reserved))
    BY <1>2 DEF Writing
  <1> DEFINE f == After(mem, e)
             T == S \union {f}
  <1>4. /\ e \in Nat /\ Rec(mem, e) /\ Get(mem, e + 1) = call.key /\ Get(mem, e + 3) = VALID
        /\ Gives(mem, e) = call.value /\ f = e + t /\ f <= Sector
    BY <1>1, <1>2, <1>3, WrittenRecord
  <1>5. /\ Chain(mem, 0, S, e) /\ One(mem, S, e) /\ Gone(mem, S, e, call.key)
        /\ Blank(mem, e + t, Sector) /\ Blank(mem, Sector, 2 * Sector)
        /\ Agrees(allowed, mem, S, e, Keys \ {call.key})
    BY <1>3 DEF RecordTo, Room
  <1>6. After(mem, e) <= 0 + Sector
    BY <1>4, Sizes
  <1>7. Grown(mem, 0, S, e, call.key, f, T)
    BY <1>2, <1>4, <1>5, <1>6, OneMore
  <1>8. Packed(mem, 0, T, f)
    BY <1>4, <1>5, <1>7, Sizes DEF Packed, Grown
  <1>9. Agrees(allowed', mem, T, f, Keys)
    <2>1. call.key \in Keys
      BY <1>2 DEF Saving
    <2>2. ASSUME NEW k \in Keys
          PROVE  \E x : Says(mem, T, f, k, x) /\ allowed'[k] = {x}
      <3> HIDE DEF T, f
      <3>1. CASE k = call.key
        <4>1. allowed'[k] = {call.value}
          BY <1>1, <1>2, <2>1, <3>1
        <4>2. Says(mem, T, f, k, call.value)
          BY <1>4, <1>7, <3>1 DEF Grown
        <4> QED BY <4>1, <4>2
      <3>2. CASE k # call.key
        <4>1. allowed'[k] = allowed[k]
          BY <1>1, <1>2, <3>2
        <4> QED BY <1>5, <1>7, <3>2, <4>1 DEF Agrees, Grown
      <3> QED BY <3>1, <3>2
    <2> QED BY <2>2 DEF Agrees
  <1>10. Stored(mem', allowed')
    BY <1>1, <1>5, <1>8, <1>9 DEF Stored
  <1>11. allowed' = [k \in Keys |-> allowed'[k]]
    BY <1>1, <1>2
  <1> QED BY <1>1, <1>2, <1>10, <1>11 DEF Sound, Stage

(* Each step of an append, and of the mark before it, keeps the invariant. *)
LEMMA AppendStep ==
  ASSUME Sound, RecordsFit, cuts = 0, Appending
  PROVE  Sound'
  <1>1. CASE WriteHeader
    <2>1. Fits(free)
      BY <1>1 DEF WriteHeader, RecordsFit
    <2> QED BY <1>1, <2>1, HeaderStep
  <1> QED BY <1>1, PlaceStep, MarkStep, MarkedStep, RecordStep, SavedStep DEF Appending

(* Each step keeps the invariant, if the records it appends fit; a cut     *)
(* ends what it says.                                                      *)
LEMMA StoreStep ==
  ASSUME StoreInv, RecordsFit, [Next]_vars
  PROVE  StoreInv'
  <1>1. CASE PowerCut
    <2>1. cuts' = cuts + 1 /\ cuts \in Nat
      BY <1>1 DEF PowerCut, StoreInv
    <2>2. cuts' \in Nat /\ cuts' # 0
      BY <2>1
    <2> QED BY <2>2 DEF StoreInv
  <1>2. ASSUME cuts' = cuts, cuts = 0 => Sound'
        PROVE  StoreInv'
    BY <1>2 DEF StoreInv
  <1>3. cuts = 0 => Sound
    BY DEF StoreInv
  <1>4. CASE \E k \in Keys, v \in Values : Save(k, v)
    BY <1>2, <1>3, <1>4, SaveStep DEF Save, Called
  <1>5. CASE \E k \in Keys : Delete(k)
    BY <1>2, <1>3, <1>5, DeleteStep DEF Delete, Called
  <1>6. CASE EraseAll \/ ClearPrimary \/ ClearSecondary
    <2>1. cuts' = cuts
      BY <1>6 DEF EraseAll, ClearPrimary, ClearSecondary, Called, Quiet
    <2> QED BY <1>2, <1>3, <1>6, <2>1, EraseAllStep
  <1>7. CASE Compact
    <2>1. cuts' = cuts
      BY <1>7 DEF Compact, SkipRecord, CopyRecord, CopyHalfWord, CopyDone, ErasePrimary,
                  EraseSecondary, Quiet
    <2> QED BY <1>2, <1>3, <1>7, <2>1, CompactStep
  <1>8. CASE Appending
    <2>1. cuts' = cuts
      BY <1>8 DEF Appending, Place, MarkHalfWord, Marked, WriteHeader, RecordHalfWord, Saved, Quiet
    <2> QED BY <1>2, <1>3, <1>8, <2>1, AppendStep
  <1>9. CASE UNCHANGED vars
    <2>1. /\ mem' = mem /\ pc' = pc /\ call' = call /\ src' = src /\ dst' = dst /\ left' = left
          /\ buf' = buf /\ free' = free /\ allowed' = allowed /\ cuts' = cuts
      BY <1>9 DEF vars, work
    <2>2. Sound => Sound'
      <3>1. (Saving => Saving') /\ (Deleting => Deleting') /\ (Home => Home')
        BY <2>1 DEF Saving, Deleting, Home
      <3>2. Outward => Outward'
        BY <2>1 DEF Outward
      <3>3. \A T, d : Away(T, d) => Away(T, d)'
        BY <2>1 DEF Away
      <3>4. Homeward => Homeward'
        BY <2>1, <3>3 DEF Homeward
      <3>5. Marking => Marking'
        BY <2>1 DEF Marking
      <3>6. \A S, e, t : Room(S, e, t) => Room(S, e, t)'
        BY <2>1 DEF Room
      <3>7. Ready => Ready'
        BY <2>1, <3>6 DEF Ready
      <3>8. \A e : Fits(e) => Fits(e)'
        BY <2>1 DEF Fits
      <3>9. \A S, e, t, data : RecordTo(S, e, t, data) => RecordTo(S, e, t, data)'
        BY <2>1, <3>6, <3>8 DEF RecordTo
      <3>10. Writing => Writing'
        BY <2>1, <3>9 DEF Writing
      <3>11. Stage => Stage'
        BY <2>1, <3>1, <3>2, <3>3, <3>4, <3>5, <3>7, <3>10 DEF Stage
      <3> QED BY <2>1, <3>11 DEF Sound
    <2> QED BY <1>2, <1>3, <2>1, <2>2
  <1> QED BY <1>1, <1>4, <1>5, <1>6, <1>7, <1>8, <1>9 DEF Next, Step

(* Records that fill a sector exactly always fit.                          *)
LEMMA FillsFit ==
  ASSUME NEW len \in Nat \ {0}, Fills(len), StoreInv
  PROVE  RecordsFit
  <1>1. SUFFICES ASSUME pc = "header", cuts = 0
                 PROVE  Fits(free)
    BY DEF RecordsFit
  <1>2. Sound
    BY <1>1 DEF StoreInv
  <1>3. mem \in Mem /\ Saving /\ Ready
    BY <1>1, <1>2 DEF Sound, Stage
  <1>4. PICK S, e : Room(S, e, 0) /\ free = e /\ e < Sector
    BY <1>3 DEF Ready
  <1>5. e \in Nat /\ e - 0 \in Places /\ e - 0 = e
    BY <1>3, <1>4, ChainRange DEF Room, Chain
  <1>6. e + len <= Sector
    BY <1>4, <1>5, PlaceFits
  <1>7. HDR + Len(call.value) = len /\ len <= ByteMax
    BY <1>3 DEF Fills, Saving
  <1>8. Len(call.value) \in Nat
    BY <1>3, ValueLength DEF Saving
  <1>9. e + HDR + Len(call.value) = e + len
    <2>1. PICK L \in Nat : L = Len(call.value)
      BY <1>8
    <2>2. HDR + L = len
      BY <1>7, <2>1
    <2>3. e \in Nat /\ L \in Nat /\ HDR \in Nat
      BY <1>5, Sizes
    <2>4. e + HDR + L = e + len
      BY <2>2, <2>3
    <2> QED BY <2>1, <2>4
  <1> QED BY <1>4, <1>6, <1>7, <1>9 DEF Fits

(* The invariant of the store, from the first call on, until a record does *)
(* not fit. Nothing else is asked: values of any even lengths, any calls,  *)
(* compactions and refusals.                                               *)
THEOREM StoreSound == Spec /\ []RecordsFit => []StoreInv
  <1>1. Init => StoreInv
    BY StoreInit
  <1>2. StoreInv /\ RecordsFit /\ [Next]_vars => StoreInv'
    BY StoreStep
  <1> QED BY <1>1, <1>2, PTL DEF Spec

(* hal_flash.h:63: while every record fits where it is put, each key reads *)
(* as the last call that succeeded for it left it.                         *)
THEOREM ReadsBackIfFits == Spec /\ []RecordsFit => []ReadsBack
  BY StoreSound, InvReads, PTL

(* ... and where records of one length fill a sector exactly, and their    *)
(* length is a uint8_t, each does fit: compaction, mark and append lose    *)
(* nothing, whatever is called.                                            *)
THEOREM ReadsBackIfFills ==
  ASSUME NEW len \in Nat \ {0}, Fills(len)
  PROVE  Spec => []ReadsBack
  <1>1. StoreInv => RecordsFit
    BY FillsFit
  <1>2. Init => StoreInv
    BY StoreInit
  <1>3. StoreInv /\ [Next]_vars => StoreInv'
    BY <1>1, StoreStep
  <1> QED BY <1>2, <1>3, InvReads, PTL DEF Spec

-----------------------------------------------------------------------------
(* A cut while a record is superseded.                                     *)

\* what a read of k may give if the call under way is lost
Left(k) ==
  \/ ReadIn(mem, k) \in allowed[k]
  \/ k = call.key /\ ReadIn(mem, k) = Absent
  \/ k = call.key /\ call.op = "save" /\ ReadIn(mem, k) = call.value

(* What is left after a cut is what a read may give.                       *)
LEMMA LeftAllowed ==
  ASSUME NEW k \in Keys, Left(k), PowerCut, pc # "idle", call.op \in {"save", "delete"}
  PROVE  Read(k)' \in allowed'[k]
  <1>1. Read(k)' = ReadIn(mem, k)
    BY ReadsIn DEF PowerCut
  <1>2. allowed'[k] = IF k # call.key THEN allowed[k]
                      ELSE allowed[k] \union {Absent}
                           \union (IF call.op = "save" THEN {call.value} ELSE {})
    BY DEF PowerCut, Interrupted
  <1> QED BY <1>1, <1>2 DEF Left

\* the path ends at e, and what it holds of the other keys is what is allowed
LEMMA PathReads ==
  ASSUME mem \in Mem, NEW S, NEW e, Path(mem, S, e), ~Goes(mem, e), One(mem, S, e),
         NEW k \in Keys,
         k # call.key => \E x : Says(mem, S, e, k, x) /\ allowed[k] = {x},
         k = call.key => \E x : Says(mem, S, e, k, x) /\ (x = Absent \/ x = call.value),
         call.op = "save"
  PROVE  Left(k)
  <1>1. \A x : Says(mem, S, e, k, x) => ReadIn(mem, k) = x
    BY ReadIs
  <1> QED BY <1>1 DEF Left

(* ... by the records.                                                     *)
LEMMA ChainReads ==
  ASSUME mem \in Mem, NEW S, NEW e, Chain(mem, 0, S, e), One(mem, S, e), Blank(mem, e, Sector),
         NEW k \in Keys,
         k = call.key \/ Agrees(allowed, mem, S, e, {k}),
         Gone(mem, S, e, call.key) \/ Agrees(allowed, mem, S, e, {k})
  PROVE  Left(k)
  <1>1. Path(mem, S, e) /\ ~Goes(mem, e)
    BY PathOf, EndStops
  <1>2. \A x : Says(mem, S, e, k, x) => ReadIn(mem, k) = x
    BY <1>1, ReadIs
  <1>3. CASE Agrees(allowed, mem, S, e, {k})
    BY <1>2, <1>3 DEF Left, Agrees
  <1>4. CASE k = call.key /\ Gone(mem, S, e, call.key)
    BY <1>2, <1>4 DEF Left, Says
  <1> QED BY <1>3, <1>4

(* Two bytes of the record: its length reads as ByteMax, and its status as *)
(* no status, so a walk goes over it and stops.                            *)
LEMMA TwoBytes ==
  ASSUME mem \in Mem, NEW S, NEW e, Chain(mem, 0, S, e), One(mem, S, e),
         Gone(mem, S, e, call.key), Agrees(allowed, mem, S, e, Keys \ {call.key}),
         Get(mem, e) = MAGIC, Blank(mem, e + 2, Sector), e + 6 <= Sector, ByteMax > 1,
         NEW k \in Keys
  PROVE  Left(k)
  <1> DEFINE z == e + 6 + ByteMax
             T == S \union {z}
  <1>1. Sector \in Nat /\ ByteMax \in Nat /\ e \in Nat /\ \A s \in S : s \in Nat /\ s <= e
    BY ChainRange, Sizes
  <1>2. Get(mem, e + 2) = ByteMax /\ Get(mem, e + 3) = ByteMax
    <2>1. e + 2 \in Nat /\ e + 2 <= e + 2 /\ e + 2 < Sector
          /\ e + 3 \in Nat /\ e + 2 <= e + 3 /\ e + 3 < Sector
      BY <1>1
    <2> QED BY <2>1 DEF Blank
  <1>3. Goes(mem, e)
    BY <1>1 DEF Goes
  <1>4. After(mem, e) = z
    BY <1>1, <1>2, AfterIs
  <1>5. z \in Nat /\ e + 6 <= z /\ z <= Furthest /\ e + 2 <= z
    BY <1>1, Sizes
  <1>6. ~Goes(mem, z)
    BY <1>5, Sizes DEF Goes, Blank
  <1> HIDE DEF z
  <1>7. T \ {z} = S /\ e \in S /\ z \in T
    BY <1>1, <1>5 DEF Chain
  <1>8. Path(mem, T, z)
    <2>1. Path(mem, S, e)
      BY PathOf
    <2>2. ASSUME NEW s \in T \ {z}
          PROVE  /\ Goes(mem, s) /\ After(mem, s) \in T
                 /\ \A t \in T : t <= s \/ After(mem, s) <= t
      <3>1. CASE s = e
        BY <1>1, <1>3, <1>4, <1>5, <1>7, <3>1
      <3>2. CASE s # e
        <4>1. s \in S \ {e}
          BY <1>7, <3>2
        <4>2. Goes(mem, s) /\ After(mem, s) \in S /\ \A t \in S : t <= s \/ After(mem, s) <= t
          BY <2>1, <4>1 DEF Path
        <4>3. After(mem, s) \in Nat /\ After(mem, s) <= e
          BY <1>1, <4>2
        <4>4. After(mem, s) <= z
          BY <1>1, <1>5, <4>3
        <4> QED BY <4>2, <4>4
      <3> QED BY <3>1, <3>2
    <2>3. T \subseteq 0 .. Furthest /\ 0 \in T
      <3>1. z \in 0 .. Furthest
        BY <1>5, Sizes
      <3> QED BY <2>1, <3>1 DEF Path
    <2>4. \A s \in T : s <= z
      BY <1>1, <1>5
    <2> HIDE DEF T
    <2> QED BY <1>7, <2>2, <2>3, <2>4 DEF Path
  <1> HIDE DEF T
  <1>9. \A j : ~Lives(mem, j, e)
    BY <1>2, Sizes DEF Lives
  <1>10. One(mem, T, z)
    BY <1>7, <1>9 DEF One
  <1>11. Gone(mem, T, z, call.key)
    BY <1>7, <1>9 DEF Gone
  <1>12. \A j, x : Says(mem, S, e, j, x) => Says(mem, T, z, j, x)
    BY <1>7, <1>9 DEF Says, Gone
  <1>13. \A x : Says(mem, T, z, k, x) => ReadIn(mem, k) = x
    BY <1>6, <1>8, <1>10, ReadIs
  <1>14. CASE k = call.key
    BY <1>11, <1>13, <1>14 DEF Left, Says
  <1>15. CASE k # call.key
    BY <1>12, <1>13, <1>15 DEF Left, Agrees
  <1> QED BY <1>14, <1>15

(* A record cut short is passed over, is seen by its check byte, or is     *)
(* whole.                                                                  *)
LEMMA RecordLeft ==
  ASSUME TornIsSeen, mem \in Mem, Saving, Writing, NEW k \in Keys
  PROVE  Left(k)
  <1>1. PICK S, e, t : \E reserved \in Bytes :
          RecordTo(S, e, t, Record(call.key, call.value, reserved))
    BY DEF Writing
  <1>2. PICK reserved \in Bytes : RecordTo(S, e, t, Record(call.key, call.value, reserved))
    BY <1>1
  <1>3. PICK data : data = Record(call.key, call.value, reserved)
    OBVIOUS
  <1>4. PICK v : v = call.value
    OBVIOUS
  <1>5. IsRecord(data, call.key, v) /\ v \in Values
    BY <1>3, <1>4, RecordBytes DEF Saving
  <1>6. PICK L : L = Len(v)
    OBVIOUS
  <1>7. /\ L \in Nat /\ L >= 1 /\ L % 2 = 0 /\ Len(data) = 6 + L
        /\ data[1] = MAGIC /\ data[2] = call.key /\ data[3] = L /\ data[4] = VALID
        /\ data[6] = CalculateCrc(v) /\ \A i \in 1 .. L : data[6 + i] = v[i]
    BY <1>5, <1>6 DEF IsRecord
  <1>8. /\ Chain(mem, 0, S, e) /\ One(mem, S, e) /\ Gone(mem, S, e, call.key)
        /\ Blank(mem, e + t, Sector) /\ Agrees(allowed, mem, S, e, Keys \ {call.key})
        /\ Fits(e) /\ t \in 0 .. 6 + L /\ t % 2 = 0
        /\ \A x \in Nat : x < t => Get(mem, e + x) = data[x + 1]
    BY <1>2, <1>3, <1>7 DEF RecordTo, Room
  <1>9. e \in Nat /\ t \in Nat /\ t <= 6 + L
    BY <1>7, <1>8, ChainRange
  <1>10. e + 6 + L <= Sector /\ 6 + L <= ByteMax /\ Sector \in Nat /\ ByteMax \in Nat
    BY <1>4, <1>6, <1>8, Sizes DEF Fits
  <1>11. CASE t = 0
    <2>1. Blank(mem, e, Sector)
      BY <1>8, <1>9, <1>11
    <2>2. k = call.key \/ Agrees(allowed, mem, S, e, {k})
      BY <1>8 DEF Agrees
    <2> QED BY <1>8, <2>1, <2>2, ChainReads
  <1>12. CASE t = 2
    <2>1. Get(mem, e) = MAGIC
      <3>1. Get(mem, e + 0) = data[0 + 1]
        BY <1>8, <1>12
      <3> QED BY <1>7, <1>9, <3>1
    <2>2. e + 6 <= Sector /\ ByteMax > 1 /\ Blank(mem, e + 2, Sector)
      BY <1>7, <1>8, <1>9, <1>10, <1>12
    <2> QED BY <1>8, <2>1, <2>2, TwoBytes
  <1>13. CASE t >= 4
    <2> DEFINE f == After(mem, e)
               T == S \union {f}
    <2>1. /\ Get(mem, e) = MAGIC /\ Get(mem, e + 1) = call.key /\ Get(mem, e + 2) = L
          /\ Get(mem, e + 3) = VALID
      <3>1. /\ Get(mem, e + 0) = data[0 + 1] /\ Get(mem, e + 1) = data[1 + 1]
            /\ Get(mem, e + 2) = data[2 + 1] /\ Get(mem, e + 3) = data[3 + 1]
        BY <1>8, <1>9, <1>13
      <3> QED BY <1>7, <1>9, <3>1
    <2>2. Rec(mem, e)
      BY <1>5, <1>6, <1>10, <2>1, Sizes DEF Rec
    <2>3. f = e + 6 + L /\ f <= Sector /\ f \in Nat /\ e + t <= f
      <3>1. f = e + 6 + L
        BY <1>9, <2>1, AfterIs
      <3>2. L \in Nat /\ e \in Nat /\ e + 6 + L <= Sector /\ t <= 6 + L /\ t \in Nat
        BY <1>7, <1>9, <1>10
      <3> HIDE DEF f
      <3> QED BY <3>1, <3>2
    <2>4. f <= 0 + Sector
      BY <2>3, <1>10
    <2>5. Grown(mem, 0, S, e, call.key, f, T)
      BY <1>8, <2>1, <2>2, <2>4, OneMore
    <2> HIDE DEF f, T
    <2>6. Chain(mem, 0, T, f) /\ One(mem, T, f) /\ Says(mem, T, f, call.key, Gives(mem, e))
          /\ \A j, x : j # call.key /\ Says(mem, S, e, j, x) => Says(mem, T, f, j, x)
      BY <2>5 DEF Grown
    <2>7. Blank(mem, f, Sector)
      BY <1>8, <1>9, <2>3 DEF Blank
    <2>8. Path(mem, T, f) /\ ~Goes(mem, f)
      BY <2>6, <2>7, PathOf, EndStops
    <2>9. Gives(mem, e) = Absent \/ Gives(mem, e) = v
      <3> DEFINE n == IF t < 6 THEN 0 ELSE t - 6
      <3>1. n \in 0 .. L /\ n % 2 = 0
        <4>1. t \in Nat /\ t <= 6 + L /\ t % 2 = 0 /\ L \in Nat
          BY <1>7, <1>8, <1>9
        <4>2. t >= 6 => t - 6 \in 0 .. L /\ (t - 6) % 2 = 0
          BY <4>1
        <4> QED BY <4>1, <4>2
      <3>2. ASSUME NEW i \in 1 .. L
            PROVE  Get(mem, e + HDR + i - 1) = IF i <= n THEN v[i] ELSE ByteMax
        <4> DEFINE x == 5 + i
        <4>1. x \in Nat /\ e + HDR + i - 1 = e + x /\ x + 1 = 6 + i /\ x < 6 + L
              /\ (i <= n <=> x < t) /\ e + x \in Nat /\ e + x < Sector
          BY <1>7, <1>9, <1>10, <1>13, Sizes
        <4> HIDE DEF x, n
        <4>2. CASE x < t
          BY <1>7, <1>8, <4>1, <4>2
        <4>3. CASE ~(x < t)
          <5>1. e + t <= e + x
            BY <1>9, <4>1, <4>3
          <5> QED BY <1>8, <4>1, <4>3, <5>1 DEF Blank
        <4> QED BY <4>2, <4>3
      <3>3. Value(mem, e) = Torn(v, n)
        <4> HIDE DEF n
        <4> QED BY <1>6, <2>1, <3>2 DEF Value, Torn
      <3>4. CASE t < 6
        <4>1. Get(mem, e + 5) = ByteMax
          <5>1. e + 5 \in Nat /\ e + t <= e + 5 /\ e + 5 < Sector
            BY <1>7, <1>8, <1>9, <1>10, <3>4
          <5> QED BY <1>8, <5>1 DEF Blank
        <4>2. CalculateCrc(Torn(v, 0)) # ByteMax /\ n = 0
          BY <1>5, <3>4 DEF TornIsSeen
        <4> QED BY <3>3, <4>1, <4>2 DEF Gives
      <3>5. CASE t >= 6
        <4>1. Get(mem, e + 5) = CalculateCrc(v)
          <5>1. Get(mem, e + 5) = data[5 + 1]
            BY <1>8, <1>9, <3>5
          <5> QED BY <1>7, <5>1
        <4>2. CalculateCrc(Torn(v, n)) = CalculateCrc(v) => Torn(v, n) = v
          <5> HIDE DEF n
          <5> QED BY <1>5, <1>6, <3>1 DEF TornIsSeen
        <4> HIDE DEF n
        <4> QED BY <3>3, <4>1, <4>2 DEF Gives
      <3> QED BY <1>9, <3>4, <3>5
    <2>10. k # call.key => \E x : Says(mem, T, f, k, x) /\ allowed[k] = {x}
      BY <1>8, <2>6 DEF Agrees
    <2>11. k = call.key => \E x : Says(mem, T, f, k, x) /\ (x = Absent \/ x = call.value)
      BY <1>4, <2>6, <2>9
    <2>12. call.op = "save"
      BY DEF Saving
    <2> QED BY <2>6, <2>8, <2>10, <2>11, <2>12, PathReads
  <1> QED BY <1>8, <1>9, <1>11, <1>12, <1>13

(* A cut while a record is superseded leaves every key with a value it may *)
(* have.                                                                   *)
LEMMA CutLeaves ==
  ASSUME TornIsSeen, Sound, pc \in {"place", "mark", "header", "record"}, NEW k \in Keys
  PROVE  Left(k) /\ call.op \in {"save", "delete"}
  <1>1. mem \in Mem /\ call.op \in {"save", "delete"}
    BY DEF Sound, Stage, Saving, Deleting
  <1>2. CASE pc = "place"
    <2>1. PICK S, e : Packed(mem, 0, S, e) /\ Agrees(allowed, mem, S, e, Keys)
      BY <1>2 DEF Sound, Stage, Stored
    <2>2. Agrees(allowed, mem, S, e, {k}) /\ Chain(mem, 0, S, e) /\ One(mem, S, e)
          /\ Blank(mem, e, Sector)
      BY <2>1, Sizes DEF Packed, Agrees
    <2> QED BY <1>1, <2>2, ChainReads
  <1>3. CASE pc = "mark"
    <2>1. PICK S, e, r, t, data :
            /\ Packed(mem, 0, S, e)
            /\ IF t < 4 THEN Lives(mem, call.key, r) /\ Agrees(allowed, mem, S, e, Keys)
               ELSE Gone(mem, S, e, call.key) /\ Agrees(allowed, mem, S, e, Keys \ {call.key})
      BY <1>3 DEF Sound, Stage, Marking
    <2>2. Chain(mem, 0, S, e) /\ One(mem, S, e) /\ Blank(mem, e, Sector)
      BY <2>1, Sizes DEF Packed
    <2>3. /\ k = call.key \/ Agrees(allowed, mem, S, e, {k})
          /\ Gone(mem, S, e, call.key) \/ Agrees(allowed, mem, S, e, {k})
      BY <2>1 DEF Agrees
    <2> QED BY <1>1, <2>2, <2>3, ChainReads
  <1>4. CASE pc = "header"
    <2>1. PICK S, e : Room(S, e, 0)
      BY <1>4 DEF Sound, Stage, Ready
    <2>2. e \in Nat
      BY <1>1, <2>1, ChainRange DEF Room
    <2>3. /\ Chain(mem, 0, S, e) /\ One(mem, S, e) /\ Blank(mem, e, Sector)
          /\ Gone(mem, S, e, call.key) /\ (k = call.key \/ Agrees(allowed, mem, S, e, {k}))
      BY <2>1, <2>2 DEF Room, Agrees
    <2> QED BY <1>1, <2>3, ChainReads
  <1>5. CASE pc = "record"
    <2>1. Saving /\ Writing
      BY <1>5 DEF Sound, Stage
    <2> QED BY <1>1, <2>1, RecordLeft
  <1> QED BY <1>1, <1>2, <1>3, <1>4, <1>5

(* CutInAppend of one step.                                                *)
LEMMA CutStep ==
  ASSUME TornIsSeen, MaxCuts \in 0 .. 1, StoreInv, PowerCut,
         pc \in {"place", "mark", "header", "record"}
  PROVE  Whole'
  <1>1. Sound
    BY DEF StoreInv, PowerCut
  <1>2. ASSUME NEW k \in Keys
        PROVE  Read(k)' \in allowed'[k]
    BY <1>1, CutLeaves, LeftAllowed
  <1> QED BY <1>2 DEF Whole

(* flash.c:340: a cut at any half-word of the mark or of the new record    *)
(* leaves the other keys as they were, and that key old, new or gone.      *)
THEOREM CutInAppendIfFits ==
  ASSUME TornIsSeen, MaxCuts \in 0 .. 1
  PROVE  Spec /\ []RecordsFit => CutInAppend
  <1>1. StoreInv => (PowerCut /\ pc \in {"place", "mark", "header", "record"} => Whole')
    BY CutStep
  <1>2. Spec /\ []RecordsFit => []StoreInv
    BY StoreSound
  <1> QED BY <1>1, <1>2, PTL DEF CutInAppend

(* ... and so it does where records of one length fill a sector exactly.   *)
THEOREM CutInAppendIfFills ==
  ASSUME TornIsSeen, MaxCuts \in 0 .. 1, NEW len \in Nat \ {0}, Fills(len)
  PROVE  Spec => CutInAppend
  <1>1. StoreInv => RecordsFit
    BY FillsFit
  <1>2. StoreInv => (PowerCut /\ pc \in {"place", "mark", "header", "record"} => Whole')
    BY CutStep
  <1>3. Init => StoreInv
    BY StoreInit
  <1>4. StoreInv /\ [Next]_vars => StoreInv'
    BY <1>1, StoreStep
  <1> QED BY <1>2, <1>3, <1>4, PTL DEF Spec, CutInAppend

-----------------------------------------------------------------------------
(* The raw interface.                                                      *)

\* a program call that passed the guard, and what its loop has done so far
Accepted(j) ==
  /\ j.op = "program" /\ j.addr \in Addr /\ j.len \in Addr
  /\ ProgramAllowed(j.addr, j.len) /\ j.data \in Buffers(j.len)

Written(j, n) ==
  \A off \in 0..(j.len - 1) : off % 2 = 0 /\ off < n => flash[j.addr + off] = j.data[off]

JobInv ==
  /\ raw_rc = "busy" =>
       \/ /\ Accepted(job) /\ at % 2 = 0 /\ job.addr <= at /\ at < job.addr + job.len
          /\ Written(job, at - job.addr)
       \/ job.op = "erase" /\ job.sector \in 0..15 /\ SectorAllowed(job.sector)
  /\ raw_rc = "OK" /\ job.op = "program" => Accepted(job) /\ Written(job, job.len)

RawInv == RawTypeOK /\ LockedAfter /\ JobInv

(* _raw_range_allowed: a range it accepts does not wrap, lies in the part, *)
(* and every address of it is in a sector the loader owns.                 *)
LEMMA RangeSound ==
  ASSUME NEW addr \in Addr, NEW len \in Addr, RangeAllowed(addr, len)
  PROVE  /\ len > 0 /\ addr + len <= Top /\ addr >= Base[0]
         /\ \A a \in Addr : addr <= a /\ a < addr + len =>
              \E s \in Sectors : Inside(a, s) /\ SectorAllowed(s)
  <1> USE MapAssumption DEF Addr
  <1>1. Sum(addr, len) = addr + len
    BY DEF RangeAllowed, Sum
  <1>2. /\ Base[0] \in Nat /\ Top \in Nat /\ Top <= AddrMax
        /\ \A s \in Sectors : Base[s] \in Nat /\ SectorSize[s] \in Nat
    BY DEF Top, Sectors
  <1>3. len > 0 /\ addr + len <= Top /\ addr >= Base[0]
    BY <1>1, <1>2 DEF RangeAllowed
  <1>4. ASSUME NEW a \in Addr, addr <= a, a < addr + len
        PROVE  \E s \in Sectors : Inside(a, s) /\ SectorAllowed(s)
    <2>1. PICK s \in Sectors : Inside(a, s)
      BY <1>2, <1>3, <1>4
    <2>2. Overlaps(addr, addr + len, s)
      BY <2>1, <1>2, <1>4 DEF Overlaps, Inside
    <2>3. SectorAllowed(s)
      BY <1>1, <2>2 DEF RangeAllowed
    <2> QED BY <2>1, <2>3
  <1> QED BY <1>3, <1>4

(* An even address of an accepted range is a cell, and not a protected one. *)
LEMMA LoopCell ==
  ASSUME NEW addr \in Addr, NEW len \in Addr, ProgramAllowed(addr, len),
         NEW a \in Addr, a % 2 = 0, addr <= a, a < addr + len
  PROVE  a \in Cells /\ a \notin Protected
  <1>1. RangeAllowed(addr, len)
    BY DEF ProgramAllowed
  <1>2. Top \in Nat /\ Base[0] \in Nat
    BY MapAssumption DEF Top, Sectors, Addr
  <1>3. Base[0] <= a /\ a < Top
    BY <1>1, <1>2, RangeSound DEF Addr
  <1>4. PICK s \in Sectors : Inside(a, s) /\ SectorAllowed(s)
    BY <1>1, RangeSound
  <1>5. a \notin Protected
    BY <1>4, MapAssumption DEF Protected, SectorAllowed, Sectors
  <1> QED BY <1>3, <1>5 DEF Cells

(* An allowed sector holds no protected cell.                              *)
LEMMA OwnedSector ==
  ASSUME NEW s \in 0..15, SectorAllowed(s), NEW a \in Protected
  PROVE  a \notin CellsOf(Selected(s))
  <1>1. s \in Sectors /\ Selected(s) = s
    BY DEF SectorAllowed, Selected, Sectors
  <1>2. a \in Addr
    BY DEF Protected, Cells
  <1>3. PICK t \in Sectors : Inside(a, t) /\ ~SectorAllowed(t)
    BY MapAssumption DEF Protected, SectorAllowed, Sectors
  <1>4. ~Inside(a, s)
    BY <1>1, <1>2, <1>3, MapAssumption
  <1> QED BY <1>1, <1>4 DEF CellsOf

(* Where the loop stands, in terms of the part.                            *)
LEMMA LoopFacts ==
  ASSUME RawInv, Programming
  PROVE  /\ Accepted(job) /\ at \in Cells /\ at \notin Protected
         /\ at % 2 = 0 /\ job.addr <= at /\ at < job.addr + job.len
         /\ Written(job, at - job.addr)
         /\ (at - job.addr) \in 0..(job.len - 1) /\ (at - job.addr) % 2 = 0
         /\ Wanted \in Words
  <1>1. /\ Accepted(job) /\ at % 2 = 0 /\ job.addr <= at /\ at < job.addr + job.len
        /\ Written(job, at - job.addr) /\ at \in Addr
    BY DEF RawInv, JobInv, Programming, RawTypeOK, Accepted
  <1>2. job.addr \in Addr /\ job.len \in Addr /\ ProgramAllowed(job.addr, job.len)
    BY <1>1 DEF Accepted
  <1>3. at \in Cells /\ at \notin Protected
    BY <1>1, <1>2, LoopCell
  <1>4. job.addr % 2 = 0
    BY <1>2 DEF ProgramAllowed
  <1>5. (at - job.addr) \in 0..(job.len - 1) /\ (at - job.addr) % 2 = 0
    BY <1>1, <1>2, <1>4, MapAssumption DEF Addr
  <1>6. Wanted \in Words
    BY <1>1, <1>5 DEF Accepted, Buffers, Wanted
  <1> QED BY <1>1, <1>3, <1>5, <1>6

(* Each call's start: what the guard passed is what the loop may rely on.  *)
LEMMA BeginStep ==
  ASSUME RawInv,
         \/ \E addr \in Addr, len \in 0..MaxLen : \E data \in Buffers(len) :
              RawProgram(addr, len, data)
         \/ \E s \in 0..15 : RawErase(s)
  PROVE  RawInv' /\ flash' = flash
  <1>1. CASE \E addr \in Addr, len \in 0..MaxLen : \E data \in Buffers(len) :
               RawProgram(addr, len, data)
    <2>0. PICK addr \in Addr, len \in 0..MaxLen :
            \E data \in Buffers(len) : RawProgram(addr, len, data)
      BY <1>1
    <2>1. PICK data \in Buffers(len) : RawProgram(addr, len, data)
      BY <2>0
    <2>2. len \in Addr
      BY <2>1, MapAssumption DEF Addr
    <2>3. CASE ~ProgramAllowed(addr, len) /\ Refuse
      BY <2>3, <2>1 DEF Refuse, RawProgram, NoJob, RawInv, RawTypeOK, LockedAfter, JobInv
    <2>4. CASE ProgramAllowed(addr, len)
      <3> DEFINE j == [op |-> "program", addr |-> addr, len |-> len, data |-> data]
      <3>1. job' = j /\ raw_rc' = "busy" /\ locked' = FALSE /\ at' = addr /\ flash' = flash
        BY <2>1, <2>4 DEF RawProgram, Begin
      <3>2. len > 0 /\ addr % 2 = 0
        BY <2>2, <2>4, RangeSound DEF ProgramAllowed
      <3>3. Accepted(job')
        BY <3>1, <2>2, <2>4 DEF Accepted
      <3>4. Written(job, at - job.addr)'
        BY <3>1 DEF Written, Addr
      <3>5. (at % 2 = 0 /\ job.addr <= at /\ at < job.addr + job.len)'
        BY <3>1, <3>2, <2>2, MapAssumption DEF Addr
      <3> QED BY <3>1, <3>3, <3>4, <3>5 DEF RawInv, RawTypeOK, LockedAfter, JobInv
    <2> QED BY <2>1, <2>3, <2>4 DEF RawProgram
  <1>2. CASE \E s \in 0..15 : RawErase(s)
    <2>1. PICK s \in 0..15 : RawErase(s)
      BY <1>2
    <2>2. CASE ~SectorAllowed(s) /\ Refuse
      BY <2>2, <2>1 DEF Refuse, RawErase, NoJob, RawInv, RawTypeOK, LockedAfter, JobInv
    <2>3. CASE SectorAllowed(s)
      <3>1. /\ job' = [op |-> "erase", sector |-> s]
            /\ raw_rc' = "busy" /\ locked' = FALSE /\ at' = 0 /\ flash' = flash
        BY <2>1, <2>3 DEF RawErase, Begin
      <3>2. job'.op = "erase" /\ job'.sector = s
        BY <3>1
      <3>3. JobInv'
        BY <3>1, <3>2, <2>3 DEF JobInv, SectorAllowed
      <3>4. at' \in Addr
        BY <3>1, MapAssumption DEF Addr
      <3> QED BY <3>1, <3>3, <3>4 DEF RawInv, RawTypeOK, LockedAfter
    <2> QED BY <2>1, <2>2, <2>3 DEF RawErase
  <1> QED BY <1>1, <1>2

(* One turn of the loop: the prefix written grows, or the call ends.       *)
LEMMA HalfWordStep ==
  ASSUME RawInv, ProgramHalfWord
  PROVE  RawInv' /\ \A a \in Protected : flash'[a] = flash[a]
  <1>1. Programming /\ flash' = [flash EXCEPT ![at] = @ \cap Wanted]
    BY DEF ProgramHalfWord
  <1>2. /\ Accepted(job) /\ at \in Cells /\ at \notin Protected
        /\ at % 2 = 0 /\ job.addr <= at /\ at < job.addr + job.len
        /\ Written(job, at - job.addr)
        /\ (at - job.addr) \in 0..(job.len - 1) /\ (at - job.addr) % 2 = 0
        /\ Wanted \in Words
    BY <1>1, LoopFacts
  <1>3. flash \in [Cells -> Words] /\ flash' \in [Cells -> Words]
        /\ flash'[at] = flash[at] \cap Wanted
        /\ \A a \in Cells : a # at => flash'[a] = flash[a]
    BY <1>1, <1>2 DEF RawInv, RawTypeOK, Words
  <1>4. \A a \in Protected : flash'[a] = flash[a]
    BY <1>2, <1>3 DEF Protected
  <1>5. job.addr \in Addr /\ job.len \in Addr /\ at \in Addr /\ raw_rc = "busy"
    BY <1>1, <1>2 DEF Accepted, RawInv, RawTypeOK, Programming
  <1>6. CASE flash'[at] # Wanted
    <2>1. raw_rc' = "IO" /\ locked' = TRUE /\ at' = at
      BY <1>6 DEF ProgramHalfWord, RawReturn
    <2>2. JobInv'
      BY <2>1 DEF JobInv
    <2> QED BY <2>1, <2>2, <1>3, <1>4, <1>5 DEF RawInv, RawTypeOK, LockedAfter
  <1>7. CASE flash'[at] = Wanted
    <2>1. job' = job /\ Accepted(job')
      BY <1>2, <1>7 DEF ProgramHalfWord, RawReturn
    <2>2. ASSUME NEW off \in 0..(job.len - 1), off % 2 = 0, off < at + 2 - job.addr
          PROVE  flash'[job.addr + off] = job.data[off]
      <3>1. off = at - job.addr \/ off < at - job.addr
        BY <2>2, <1>2, <1>5, MapAssumption DEF Addr
      <3>2. CASE off = at - job.addr
        <4>1. job.addr + off = at
          BY <3>2, <1>5, MapAssumption DEF Addr
        <4> QED BY <4>1, <3>2, <1>7 DEF Wanted
      <3>3. CASE off < at - job.addr
        <4>1. flash[job.addr + off] = job.data[off]
          BY <3>3, <2>2, <1>2 DEF Written
        <4>2. job.addr + off \in Addr /\ (job.addr + off) % 2 = 0 /\ job.addr + off # at
              /\ job.addr <= job.addr + off /\ job.addr + off < job.addr + job.len
          <5>1. job.addr % 2 = 0 /\ job.addr \in Nat /\ job.len \in Nat /\ at \in Nat
            BY <1>2, <1>5, MapAssumption DEF Accepted, ProgramAllowed, Addr
          <5>2. at <= AddrMax /\ AddrMax \in Nat
            BY <1>5, MapAssumption DEF Addr
          <5>3. off \in Nat /\ off < job.len /\ off % 2 = 0
            BY <2>2, <5>1
          <5>4. (job.addr + off) % 2 = 0
            BY <5>1, <5>3
          <5>5. job.addr + off < at
            BY <3>3, <5>1, <5>3
          <5> QED BY <5>1, <5>2, <5>3, <5>4, <5>5 DEF Addr
        <4>3. job.addr + off \in Cells
          BY <4>2, <1>2, <1>5, LoopCell DEF Accepted
        <4> QED BY <4>1, <4>2, <4>3, <1>3
      <3> QED BY <3>1, <3>2, <3>3
    <2>3. CASE at + 2 = job.addr + job.len
      <3>1. raw_rc' = "OK" /\ locked' = TRUE /\ at' = at
        BY <2>3, <1>7 DEF ProgramHalfWord, RawReturn
      <3>2. at + 2 - job.addr = job.len
        BY <2>3, <1>5, MapAssumption DEF Addr
      <3>3. Written(job, job.len)'
        BY <2>1, <2>2, <3>2 DEF Written
      <3>4. JobInv'
        BY <3>1, <3>3, <2>1 DEF JobInv
      <3> QED BY <3>1, <3>4, <1>3, <1>4, <1>5 DEF RawInv, RawTypeOK, LockedAfter
    <2>4. CASE at + 2 # job.addr + job.len
      <3>1. at' = at + 2 /\ locked' = locked /\ raw_rc' = raw_rc
        BY <2>4, <1>7 DEF ProgramHalfWord
      <3>2. job.addr % 2 = 0 /\ job.len % 2 = 0 /\ job.addr + job.len <= Top
        BY <1>2, <1>5, RangeSound DEF Accepted, ProgramAllowed
      <3>3. Top \in Nat /\ Top <= AddrMax
        BY MapAssumption DEF Top, Sectors, Addr
      <3>4. at + 2 < job.addr + job.len /\ (at + 2) % 2 = 0 /\ at + 2 \in Addr
            /\ job.addr <= at + 2
        <4>1. /\ job.addr \in Nat /\ job.len \in Nat /\ at \in Nat /\ AddrMax \in Nat
          BY <1>5, MapAssumption DEF Addr
        <4>2. (at + 2) % 2 = 0 /\ (job.addr + job.len) % 2 = 0
          BY <4>1, <3>2, <1>2
        <4>3. at + 1 # job.addr + job.len
          BY <4>1, <4>2, <1>2
        <4>4. at + 2 < job.addr + job.len
          BY <4>1, <4>3, <2>4, <1>2
        <4> QED BY <4>1, <4>2, <4>4, <3>2, <3>3, <1>2 DEF Addr
      <3>5. Written(job, at - job.addr)'
        <4>1. at' - job'.addr = at + 2 - job.addr
          BY <3>1, <2>1, <1>5, MapAssumption DEF Addr
        <4> QED BY <4>1, <2>1, <2>2 DEF Written
      <3>6. JobInv'
        BY <3>1, <3>4, <3>5, <2>1, <1>5 DEF JobInv
      <3> QED BY <3>1, <3>4, <3>6, <1>3, <1>4, <1>5 DEF RawInv, RawTypeOK, LockedAfter
    <2> QED BY <2>3, <2>4
  <1> QED BY <1>4, <1>6, <1>7

(* A loop that gives up has touched its own half-word at most.             *)
LEMMA TimeoutStep ==
  ASSUME RawInv, ProgramTimeout
  PROVE  RawInv' /\ \A a \in Protected : flash'[a] = flash[a]
  <1>1. at \in Cells /\ at \notin Protected /\ Wanted \in Words
    BY LoopFacts DEF ProgramTimeout
  <1>2. PICK w \in {flash[at], flash[at] \cap Wanted} : flash' = [flash EXCEPT ![at] = w]
    BY DEF ProgramTimeout
  <1>3. flash' \in [Cells -> Words]
    BY <1>1, <1>2 DEF RawInv, RawTypeOK, Words
  <1>4. \A a \in Protected : flash'[a] = flash[a]
    BY <1>1, <1>2 DEF RawInv, RawTypeOK, Protected
  <1>5. raw_rc' = "TIMEOUT" /\ locked' = TRUE /\ at' = at
    BY DEF ProgramTimeout, RawReturn
  <1> QED BY <1>3, <1>4, <1>5 DEF RawInv, RawTypeOK, LockedAfter, JobInv

(* An erase, whole or not, is of one owned sector.                         *)
LEMMA RawEraseStep ==
  ASSUME RawInv, Erasing, HalfErased \/ EraseSector
  PROVE  flash' \in [Cells -> Words] /\ \A a \in Protected : flash'[a] = flash[a]
  <1>1. job.sector \in 0..15 /\ SectorAllowed(job.sector)
    BY DEF RawInv, JobInv, Erasing, Accepted
  <1>2. \A a \in Protected : a \in Cells /\ a \notin CellsOf(Selected(job.sector))
    BY <1>1, OwnedSector DEF Protected
  <1>3. CASE HalfErased
    <2>1. PICK junk \in [CellsOf(Selected(job.sector)) -> Words] :
            flash' = [a \in Cells |->
                        IF a \in CellsOf(Selected(job.sector)) THEN junk[a] ELSE flash[a]]
      BY <1>3 DEF HalfErased
    <2> QED BY <2>1, <1>2 DEF RawInv, RawTypeOK
  <1>4. CASE EraseSector
    BY <1>4, <1>2 DEF EraseSector, RawInv, RawTypeOK, Words
  <1> QED BY <1>3, <1>4

(* Every step keeps the invariant and leaves the protected cells alone.    *)
LEMMA RawStep ==
  ASSUME RawInv, [RawNext]_rawvars
  PROVE  RawInv' /\ \A a \in Protected : flash'[a] = flash[a]
  <1>1. CASE \/ \E addr \in Addr, len \in 0..MaxLen : \E data \in Buffers(len) :
                   RawProgram(addr, len, data)
             \/ \E s \in 0..15 : RawErase(s)
    BY <1>1, BeginStep
  <1>2. CASE ProgramHalfWord
    BY <1>2, HalfWordStep
  <1>3. CASE ProgramTimeout
    BY <1>3, TimeoutStep
  <1>4. CASE EraseSector
    <2>1. Erasing /\ raw_rc' = "OK" /\ locked' = TRUE /\ at' = at /\ job' = job
      BY <1>4 DEF EraseSector, RawReturn
    <2>2. job'.op # "program"
      BY <2>1 DEF Erasing
    <2> QED BY <1>4, <2>1, <2>2, RawEraseStep DEF RawInv, RawTypeOK, LockedAfter, JobInv
  <1>5. CASE EraseTimeout
    <2>1. Erasing /\ HalfErased /\ raw_rc' = "TIMEOUT" /\ locked' = TRUE /\ at' = at
      BY <1>5 DEF EraseTimeout, RawReturn
    <2> QED BY <2>1, RawEraseStep DEF RawInv, RawTypeOK, LockedAfter, JobInv
  <1>6. CASE Reset
    <2>1. raw_rc' = "none" /\ locked' = TRUE /\ at' = at
      BY <1>6 DEF Reset
    <2>2. flash' \in [Cells -> Words] /\ \A a \in Protected : flash'[a] = flash[a]
      <3>1. CASE flash' = flash
        BY <3>1 DEF RawInv, RawTypeOK
      <3>2. CASE Programming /\ \E w \in Words : flash' = [flash EXCEPT ![at] = w]
        <4>1. at \in Cells /\ at \notin Protected
          BY <3>2, LoopFacts
        <4> QED BY <3>2, <4>1 DEF RawInv, RawTypeOK, Protected
      <3>3. CASE Erasing /\ HalfErased
        BY <3>3, RawEraseStep
      <3> QED BY <1>6, <3>1, <3>2, <3>3 DEF Reset
    <2> QED BY <2>1, <2>2 DEF RawInv, RawTypeOK, LockedAfter, JobInv
  <1>7. CASE UNCHANGED rawvars
    BY <1>7 DEF rawvars, RawInv, RawTypeOK, LockedAfter, JobInv, Accepted, Written
  <1> QED BY <1>1, <1>2, <1>3, <1>4, <1>5, <1>6, <1>7 DEF RawNext

(* The part starts erased, locked and idle.                                *)
LEMMA RawStart == RawInit => RawInv
  BY MapAssumption DEF RawInit, RawInv, RawTypeOK, LockedAfter, JobInv, NoJob, Words, Addr

(* The invariant holds throughout.                                         *)
THEOREM RawInvariant == RawSpec => []RawInv
  <1>1. RawInv /\ [RawNext]_rawvars => RawInv'
    BY RawStep
  <1> QED BY RawStart, <1>1, PTL DEF RawSpec

(* hal_flash.h:103: whatever a loader asks for, stage-1 and the key/value  *)
(* store keep every half-word.                                             *)
THEOREM RawIsConfined == RawSpec => Confined
  <1>1. RawInv /\ [RawNext]_rawvars => [\A a \in Protected : flash'[a] = flash[a]]_rawvars
    BY RawStep
  <1> QED BY RawInvariant, <1>1, PTL DEF RawSpec, Confined

(* flash.c:505: HAL_OK from a program call means the data is in flash.     *)
THEOREM ProgramIsExact == RawSpec => []ProgramExact
  <1>1. RawInv => ProgramExact
    BY MapAssumption DEF RawInv, JobInv, ProgramExact, Written, Accepted, Addr
  <1> QED BY RawInvariant, <1>1, PTL

(* flash.c:487: the loop never leaves its range, nor the part.             *)
THEOREM LoopStaysInside == RawSpec => []LoopInside
  <1>1. RawInv => LoopInside
    BY LoopFacts DEF LoopInside
  <1> QED BY RawInvariant, <1>1, PTL
=============================================================================
