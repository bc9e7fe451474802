--------------------------- MODULE EepromProofs ----------------------------
(***************************************************************************)
(* For every size of the EEPROM, every set of keys, and all values that    *)
(* the check byte protects: the bytes written one at a time, with a power  *)
(* cut between any two, are the store that hal_flash.h promises.           *)
(***************************************************************************)
EXTENDS EepromKV, NumberLemmas

-----------------------------------------------------------------------------
(* What the driver sees in a memory m, which is ee before a step or after. *)

Mem == [0 .. KV_SIZE - 1 -> 0 .. EeMax]
Top == KV_SIZE + KV_HDR + EeMax

Get(m, off) == IF off < KV_SIZE THEN m[off] ELSE EeMax
Holds(m, off) == off + KV_HDR <= KV_SIZE /\ Get(m, off) = KV_MAGIC
After(m, off) == off + KV_HDR + Get(m, off + 2)
Lives(m, key, off) == Get(m, off + 1) = key /\ Get(m, off + 3) = KV_VALID
Value(m, off) == [i \in 1 .. Get(m, off + 2) |-> Get(m, off + KV_HDR + i - 1)]

FindIn(m, key) ==
  LET from[off \in 0 .. Top] ==
        IF off + KV_HDR > KV_SIZE \/ Get(m, off) # KV_MAGIC \/ Lives(m, key, off) THEN off
        ELSE from[After(m, off)]
  IN  IF Holds(m, from[0]) THEN {from[0]} ELSE {}

ReadIn(m, key) ==
  LET good == {off \in FindIn(m, key) : kv_crc(Value(m, off)) = Get(m, off + 5)}
  IN  IF good = {} THEN Missing ELSE Value(m, CHOOSE off \in good : TRUE)

LEMMA Sizes ==
  /\ EeMax \in Nat /\ EeMax > 1 /\ KV_SIZE \in Nat /\ KV_MAGIC \in 0 .. EeMax - 1
  /\ KV_HDR = 6 /\ KV_VALID = 1 /\ KV_DELETED = 0
  /\ Top \in Nat /\ Top = KV_SIZE + 6 + EeMax
  BY EepromConstants DEF EepromConstants, KV_HDR, KV_VALID, KV_DELETED, Top

LEMMA Bytes ==
  ASSUME NEW m \in Mem, NEW off \in Nat
  PROVE  Get(m, off) \in 0 .. EeMax /\ After(m, off) \in Nat /\ off + KV_HDR <= After(m, off)
  <1>1. ASSUME NEW o \in Nat
        PROVE  Get(m, o) \in 0 .. EeMax
    BY Sizes DEF Get, Mem
  <1> QED BY <1>1, Sizes DEF After

LEMMA FindsIn ==
  /\ \A key : kv_find(key) = FindIn(ee, key)
  /\ \A key : kv_find(key)' = FindIn(ee', key)
  BY DEF kv_find, Walk, FindIn, Top, Holds, Held, Get, ee_get, Lives, Live, After

LEMMA ReadsIn ==
  /\ Reads = [k \in EeKeys |-> ReadIn(ee, k)]
  /\ Reads' = [k \in EeKeys |-> ReadIn(ee', k)]
  <1>1. \A key : avr_flash_read(key) = ReadIn(ee, key)
    BY FindsIn DEF avr_flash_read, ReadIn, Value, Get, ee_get
  <1>2. \A key : avr_flash_read(key)' = ReadIn(ee', key)
    BY FindsIn DEF avr_flash_read, ReadIn, Value, Get, ee_get
  <1> QED BY <1>1, <1>2 DEF Reads
-----------------------------------------------------------------------------
(* The records of a memory: they start at the members of S but the last    *)
(* one, e, and each ends where the next one starts.                        *)

Chain(m, S, e) ==
  /\ S \subseteq 0 .. Top /\ 0 \in S /\ e \in S
  /\ \A s \in S : s <= e
  /\ \A s \in S \ {e} :
       Holds(m, s) /\ After(m, s) \in S /\ \A t \in S : t <= s \/ After(m, s) <= t

\* f is the walk from any place, if the records of D are what it looks for
IsWalk(f, m, D) ==
  f = [o \in 0 .. Top |-> IF ~Holds(m, o) \/ o \in D THEN o ELSE f[After(m, o)]]

(* A walk over them stops at the first one of D, or at the end.            *)
LEMMA WalkEnds ==
  ASSUME NEW m \in Mem, NEW S, NEW e, Chain(m, S, e), ~Holds(m, e), NEW D,
         NEW f, IsWalk(f, m, D)
  PROVE  /\ f[0] \in S /\ (f[0] = e \/ f[0] \in D)
         /\ \A t \in S : t < f[0] => t \notin D
  <1> DEFINE Halts(s) == /\ f[s] \in S /\ s <= f[s] /\ (f[s] = e \/ f[s] \in D)
                         /\ \A t \in S : s <= t /\ t < f[s] => t \notin D
             Bad == {s \in S : ~Halts(s)}
  <1>1. SUFFICES ASSUME Bad # {}
                 PROVE  FALSE
    BY DEF Chain
  <1>2. Top \in Nat /\ \A s \in S : s \in Nat /\ s \in 0 .. Top
    BY Sizes DEF Chain
  <1>3. PICK s \in Bad : \A t \in Bad : t <= s
    <2>1. Bad \subseteq 0 .. Top
      BY <1>2
    <2> HIDE DEF Bad
    <2> QED BY <1>1, <1>2, <2>1, Greatest
  <1>4. f[s] = IF ~Holds(m, s) \/ s \in D THEN s ELSE f[After(m, s)]
    BY <1>2 DEF IsWalk
  <1>5. CASE ~Holds(m, s) \/ s \in D
    <2>1. f[s] = s /\ (s = e \/ s \in D)
      BY <1>4, <1>5 DEF Chain
    <2> QED BY <1>2, <2>1
  <1>6. CASE Holds(m, s) /\ s \notin D
    <2> DEFINE n == After(m, s)
    <2>0. s \in Nat /\ s \in S
      BY <1>2
    <2> HIDE DEF Bad, Halts
    <2>1. s \in S /\ s # e /\ n \in S /\ \A t \in S : t <= s \/ n <= t
      BY <1>6, <2>0 DEF Chain
    <2>2. s < n
      BY <2>0, Sizes, Bytes
    <2>3. Halts(n)
      <3>1. n \in Nat
        BY <1>2, <2>1
      <3>2. n \notin Bad
        BY <1>3, <2>0, <2>2, <3>1
      <3> QED BY <2>1, <3>2 DEF Bad
    <2>4. f[s] = f[n]
      BY <1>4, <1>6
    <2>5. Halts(s)
      <3>1. f[s] \in S /\ s <= f[s] /\ (f[s] = e \/ f[s] \in D)
        <4>1. f[s] = f[n] /\ n <= f[n] /\ f[n] \in S /\ (f[n] = e \/ f[n] \in D)
          BY <2>3, <2>4 DEF Halts
        <4>2. f[n] \in Nat /\ n \in Nat
          BY <1>2, <2>1, <4>1
        <4> HIDE DEF n
        <4> QED BY <2>0, <2>2, <4>1, <4>2
      <3>2. ASSUME NEW t \in S, s <= t, t < f[s]
            PROVE  t \notin D
        <4>1. t \in Nat /\ (t <= s \/ n <= t)
          BY <1>2, <2>1
        <4>2. CASE t = s
          BY <1>6, <4>2
        <4>3. CASE t # s
          <5>1. n <= t
            BY <2>0, <3>2, <4>1, <4>3
          <5> QED BY <2>3, <2>4, <3>2, <5>1 DEF Halts
        <4> QED BY <4>2, <4>3
      <3> QED BY <3>1, <3>2 DEF Halts
    <2> QED BY <2>5 DEF Bad
  <1> QED BY <1>5, <1>6

LEMMA WalkIs ==
  ASSUME NEW m \in Mem, NEW D
  PROVE  \E f : IsWalk(f, m, D)
  <1> DEFINE Stop == {o \in 0 .. Top : ~Holds(m, o) \/ o \in D}
             here == [o \in 0 .. Top |-> o]
             next == [o \in 0 .. Top |-> After(m, o)]
  <1>1. Top \in Nat
    BY Sizes
  <1>2. ASSUME NEW o \in 0 .. Top, o \notin Stop
        PROVE  next[o] \in Nat /\ next[o] <= Top /\ o < next[o]
    <2>1. o \in Nat /\ o + 2 \in Nat /\ o + KV_HDR <= KV_SIZE /\ next[o] = After(m, o)
      BY <1>2, Sizes DEF Holds
    <2>2. Get(m, o + 2) \in 0 .. EeMax /\ After(m, o) \in Nat /\ o + KV_HDR <= After(m, o)
      BY <2>1, Bytes
    <2> QED BY <2>1, <2>2, Sizes DEF After
  <1> HIDE DEF Stop, here, next
  <1>3. PICK f : Walked(f, 0, Top, Stop, here, next)
    BY <1>1, <1>2, WalkExists
  <1> USE DEF Stop, here, next
  <1>4. IsWalk(f, m, D)
    BY <1>3 DEF IsWalk, Walked
  <1> QED BY <1>4

(* What the driver's two walks are.                                        *)
LEMMA EndWalk ==
  ASSUME ee \in Mem
  PROVE  \E w : IsWalk(w, ee, {}) /\ kv_end = w[0]
  <1> DEFINE D == {}
             K(f) == f = [o \in 0 .. KV_SIZE + KV_HDR + EeMax |->
                            IF o + KV_HDR > KV_SIZE \/ ee_get(o) # KV_MAGIC \/ FALSE THEN o
                            ELSE f[o + KV_HDR + ee_get(o + 2)]]
  <1>1. \A f : IsWalk(f, ee, D) <=> K(f)
    BY Sizes DEF IsWalk, Top, Holds, After, Get, ee_get
  <1>2. \E f : IsWalk(f, ee, D)
    <2> HIDE DEF D
    <2> QED BY WalkIs
  <1>3. IsWalk(CHOOSE f : K(f), ee, D)
    BY <1>1, <1>2
  <1>4. kv_end = (CHOOSE f : K(f))[0]
    BY DEF kv_end, Walk
  <1> QED BY <1>3, <1>4

LEMMA FindWalk ==
  ASSUME NEW m \in Mem, NEW key
  PROVE  \E w : /\ IsWalk(w, m, {o \in 0 .. Top : Lives(m, key, o)})
               /\ FindIn(m, key) = IF Holds(m, w[0]) THEN {w[0]} ELSE {}
  <1> DEFINE D == {o \in 0 .. Top : Lives(m, key, o)}
             K(f) == f = [o \in 0 .. Top |->
                            IF o + KV_HDR > KV_SIZE \/ Get(m, o) # KV_MAGIC \/ Lives(m, key, o)
                            THEN o ELSE f[After(m, o)]]
  <1>1. \A f : IsWalk(f, m, D) <=> K(f)
    BY Sizes DEF IsWalk, Holds
  <1>2. \E f : IsWalk(f, m, D)
    <2> HIDE DEF D
    <2> QED BY WalkIs
  <1>3. IsWalk(CHOOSE f : K(f), m, D)
    BY <1>1, <1>2
  <1> DEFINE w == CHOOSE f : K(f)
  <1>4. FindIn(m, key) = IF Holds(m, w[0]) THEN {w[0]} ELSE {}
    BY DEF FindIn
  <1> QED BY <1>3, <1>4

(* Whatever the memory holds, they stop inside the range they are defined  *)
(* on, and a record that is found lies in the memory.                      *)
LEMMA WalkStops ==
  ASSUME NEW m \in Mem, NEW D, NEW f, IsWalk(f, m, D)
  PROVE  f[0] \in Nat
  <1> DEFINE Bad == {o \in 0 .. Top : f[o] \notin Nat}
  <1>1. SUFFICES ASSUME Bad # {}
                 PROVE  FALSE
    BY Sizes
  <1>2. PICK o \in Bad : \A t \in Bad : t <= o
    <2>1. Bad \subseteq 0 .. Top
      OBVIOUS
    <2> HIDE DEF Bad
    <2> QED BY <1>1, <2>1, Sizes, Greatest
  <1>3. o \in 0 .. Top /\ f[o] = IF ~Holds(m, o) \/ o \in D THEN o ELSE f[After(m, o)]
    BY DEF IsWalk
  <1>4. Holds(m, o) /\ f[o] = f[After(m, o)]
    BY <1>3, Sizes
  <1>5. After(m, o) \in 0 .. Top /\ o < After(m, o)
    <2>1. o \in Nat /\ o + 2 \in Nat /\ o + KV_HDR <= KV_SIZE
      BY <1>3, <1>4, Sizes DEF Holds
    <2>2. Get(m, o + 2) \in 0 .. EeMax /\ After(m, o) \in Nat /\ o + KV_HDR <= After(m, o)
      BY <2>1, Bytes
    <2> QED BY <2>1, <2>2, Sizes DEF After
  <1>6. After(m, o) \notin Bad
    BY <1>2, <1>3, <1>5
  <1> QED BY <1>4, <1>5, <1>6

LEMMA WalksStop ==
  /\ ee \in Mem => kv_end \in Nat
  /\ \A m \in Mem : \A key : \A r \in FindIn(m, key) : r \in Nat /\ Holds(m, r)
  <1>1. ee \in Mem => kv_end \in Nat
    BY EndWalk, WalkStops
  <1>2. ASSUME NEW m \in Mem, NEW key, NEW r \in FindIn(m, key)
        PROVE  r \in Nat /\ Holds(m, r)
    <2> DEFINE D == {o \in 0 .. Top : Lives(m, key, o)}
    <2>1. PICK w : IsWalk(w, m, D) /\ FindIn(m, key) = IF Holds(m, w[0]) THEN {w[0]} ELSE {}
      BY FindWalk
    <2> HIDE DEF D
    <2>2. w[0] \in Nat
      BY <2>1, WalkStops
    <2> QED BY <1>2, <2>1, <2>2
  <1> QED BY <1>1, <1>2

(* The end that is found is the end of the records.                        *)
LEMMA EndIs ==
  ASSUME ee \in Mem, NEW S, NEW e, Chain(ee, S, e), ~Holds(ee, e)
  PROVE  kv_end = e
  <1> DEFINE D == {}
  <1>1. PICK w : IsWalk(w, ee, D) /\ kv_end = w[0]
    BY EndWalk
  <1> HIDE DEF D
  <1>2. w[0] \in S /\ (w[0] = e \/ w[0] \in D)
    BY <1>1, WalkEnds
  <1> QED BY <1>1, <1>2 DEF D

(* The record found for a key is the first one of it that is valid.        *)
LEMMA FindIs ==
  ASSUME NEW m \in Mem, NEW S, NEW e, Chain(m, S, e), ~Holds(m, e), NEW key
  PROVE  \/ FindIn(m, key) = {} /\ \A s \in S \ {e} : ~Lives(m, key, s)
         \/ \E r \in S \ {e} : FindIn(m, key) = {r} /\ Lives(m, key, r)
  <1> DEFINE D == {o \in 0 .. Top : Lives(m, key, o)}
  <1>1. PICK w : IsWalk(w, m, D) /\ FindIn(m, key) = IF Holds(m, w[0]) THEN {w[0]} ELSE {}
    BY FindWalk
  <1>2. /\ w[0] \in S /\ (w[0] = e \/ w[0] \in D)
        /\ \A t \in S : t < w[0] => t \notin D
    <2> HIDE DEF D
    <2> QED BY <1>1, WalkEnds
  <1>3. S \subseteq 0 .. Top /\ \A s \in S : s <= e
    BY DEF Chain
  <1>4. CASE w[0] = e
    <2>1. FindIn(m, key) = {}
      BY <1>1, <1>4
    <2>2. ASSUME NEW s \in S \ {e}
          PROVE  ~Lives(m, key, s)
      <3>1. s \in 0 .. Top /\ e \in 0 .. Top /\ s <= e /\ s # e
        BY <1>3 DEF Chain
      <3>2. s < w[0]
        BY <1>4, <3>1, Sizes
      <3>3. s \notin D
        BY <1>2, <3>2
      <3> QED BY <3>1, <3>3
    <2> QED BY <2>1, <2>2
  <1>5. CASE w[0] # e
    BY <1>1, <1>2, <1>5 DEF Chain
  <1> QED BY <1>4, <1>5

-----------------------------------------------------------------------------
(* What reads give, from the records.                                      *)

\* no two records of one key are valid
One(m, S, e) ==
  \A s, t \in S \ {e} : \A k \in EeKeys : Lives(m, k, s) /\ Lives(m, k, t) => s = t

\* nothing is written from e on
Blank(m, e) == \A o \in Nat : e <= o => Get(m, o) = EeMax

Laid(m, S, e) == Chain(m, S, e) /\ One(m, S, e) /\ Blank(m, e)

Gone(m, S, e, k) == \A s \in S \ {e} : ~Lives(m, k, s)

\* what a record reads as
Gives(m, r) == IF kv_crc(Value(m, r)) = Get(m, r + 5) THEN Value(m, r) ELSE Missing

\* the records say that k reads as x
Says(m, S, e, k, x) ==
  \/ Gone(m, S, e, k) /\ x = Missing
  \/ \E r \in S \ {e} : Lives(m, k, r) /\ x = Gives(m, r)

LEMMA Starts ==
  ASSUME NEW m, NEW S, NEW e, Chain(m, S, e)
  PROVE  e \in Nat /\ 0 \in S /\ e \in S /\ \A s \in S : s \in Nat /\ s <= e /\ s <= Top
  BY Sizes DEF Chain

LEMMA NotHeld ==
  ASSUME NEW m \in Mem, NEW S, NEW e, Laid(m, S, e)
  PROVE  ~Holds(m, e)
  <1>1. e \in Nat
    BY Starts DEF Laid
  <1>2. Get(m, e) = EeMax
    BY <1>1 DEF Laid, Blank
  <1> QED BY <1>2, Sizes DEF Holds

LEMMA ReadIs ==
  ASSUME NEW m \in Mem, NEW S, NEW e, Laid(m, S, e), NEW k \in EeKeys, NEW x
  PROVE  Says(m, S, e, k, x) <=> ReadIn(m, k) = x
  <1>1. \/ FindIn(m, k) = {} /\ Gone(m, S, e, k)
        \/ \E r \in S \ {e} : FindIn(m, k) = {r} /\ Lives(m, k, r)
    BY NotHeld, FindIs DEF Laid, Gone
  <1>2. CASE FindIn(m, k) = {} /\ Gone(m, S, e, k)
    <2>1. ReadIn(m, k) = Missing
      BY <1>2 DEF ReadIn
    <2> QED BY <1>2, <2>1 DEF Says, Gone
  <1>3. ASSUME NEW r \in S \ {e}, FindIn(m, k) = {r}, Lives(m, k, r)
        PROVE  Says(m, S, e, k, x) <=> ReadIn(m, k) = x
    <2>1. ReadIn(m, k) = Gives(m, r)
      <3> DEFINE good == {off \in FindIn(m, k) : kv_crc(Value(m, off)) = Get(m, off + 5)}
      <3>1. ReadIn(m, k) = IF good = {} THEN Missing ELSE Value(m, CHOOSE off \in good : TRUE)
        BY DEF ReadIn
      <3>2. CASE kv_crc(Value(m, r)) = Get(m, r + 5)
        <4>1. good = {r}
          BY <1>3, <3>2
        <4>2. good # {} /\ (CHOOSE off \in good : TRUE) = r
          BY <4>1
        <4> HIDE DEF good
        <4> QED BY <3>1, <3>2, <4>2 DEF Gives
      <3>3. CASE kv_crc(Value(m, r)) # Get(m, r + 5)
        <4>1. good = {}
          BY <1>3, <3>3
        <4> QED BY <3>1, <3>3, <4>1 DEF Gives
      <3> QED BY <3>2, <3>3
    <2>2. \A t \in S \ {e} : Lives(m, k, t) => t = r
      BY <1>3 DEF Laid, One
    <2> QED BY <1>3, <2>1, <2>2 DEF Says, Gone
  <1> QED BY <1>1, <1>2, <1>3

(* A record depends on its own bytes, and only its validity on the fourth. *)
LEMMA RecordSame ==
  ASSUME NEW m \in Mem, NEW n \in Mem, NEW s \in Nat,
         \A o \in Nat : s <= o /\ o < After(m, s) /\ o # s + 3 => Get(n, o) = Get(m, o)
  PROVE  /\ After(n, s) = After(m, s) /\ (Holds(n, s) <=> Holds(m, s))
         /\ Value(n, s) = Value(m, s) /\ Gives(n, s) = Gives(m, s)
         /\ Get(n, s + 1) = Get(m, s + 1)
         /\ Get(n, s + 3) = Get(m, s + 3) => \A k : Lives(n, k, s) <=> Lives(m, k, s)
  <1>1. /\ After(m, s) \in Nat /\ s + 6 <= After(m, s)
        /\ Get(m, s + 2) \in Nat /\ After(m, s) = s + 6 + Get(m, s + 2)
    <2>1. s + 2 \in Nat
      OBVIOUS
    <2>2. Get(m, s + 2) \in 0 .. EeMax
      BY <2>1, Bytes
    <2> QED BY <2>2, Sizes DEF After
  <1>2. /\ Get(n, s) = Get(m, s) /\ Get(n, s + 1) = Get(m, s + 1)
        /\ Get(n, s + 2) = Get(m, s + 2) /\ Get(n, s + 5) = Get(m, s + 5)
    BY <1>1
  <1>3. After(n, s) = After(m, s) /\ (Holds(n, s) <=> Holds(m, s))
    BY <1>2 DEF After, Holds
  <1>4. Value(n, s) = Value(m, s)
    <2>1. ASSUME NEW i \in 1 .. Get(m, s + 2)
          PROVE  Get(n, s + KV_HDR + i - 1) = Get(m, s + KV_HDR + i - 1)
      BY <1>1, Sizes
    <2> QED BY <1>2, <2>1 DEF Value
  <1> QED BY <1>2, <1>3, <1>4 DEF Gives, Lives
(* What is not touched below e leaves the records below e as they are.     *)
LEMMA BelowSame ==
  ASSUME NEW m \in Mem, NEW n \in Mem, NEW S, NEW e, Chain(m, S, e), One(m, S, e),
         \A o \in Nat : o < e => Get(n, o) = Get(m, o)
  PROVE  /\ Chain(n, S, e) /\ One(n, S, e)
         /\ \A k : Gone(n, S, e, k) <=> Gone(m, S, e, k)
         /\ \A k, x : Says(n, S, e, k, x) <=> Says(m, S, e, k, x)
  <1>1. ASSUME NEW s \in S \ {e}
        PROVE  /\ After(n, s) = After(m, s) /\ (Holds(n, s) <=> Holds(m, s))
               /\ Gives(n, s) = Gives(m, s) /\ \A k : Lives(n, k, s) <=> Lives(m, k, s)
    <2>1. s \in Nat /\ e \in Nat /\ After(m, s) \in Nat /\ s + 6 <= After(m, s) /\ After(m, s) <= e
      <3>1. s \in Nat /\ e \in Nat /\ After(m, s) <= e
        BY Starts DEF Chain
      <3> QED BY <3>1, Bytes, Sizes
    <2>2. \A o \in Nat : s <= o /\ o < After(m, s) => Get(n, o) = Get(m, o)
      BY <2>1
    <2>3. s + 3 \in Nat /\ s <= s + 3 /\ s + 3 < After(m, s)
      BY <2>1
    <2>4. Get(n, s + 3) = Get(m, s + 3)
      BY <2>2, <2>3
    <2> QED BY <2>1, <2>2, <2>4, RecordSame
  <1>2. Chain(n, S, e)
    BY <1>1 DEF Chain
  <1>3. One(n, S, e)
    BY <1>1 DEF One
  <1> QED BY <1>1, <1>2, <1>3 DEF Gone, Says

\* n is m with b written at a
IsPut(n, m, a, b) == \A o \in Nat : Get(n, o) = IF o = a THEN b ELSE Get(m, o)

\* n is m with b written over the fourth byte of the record at r
IsMarked(n, m, r, b) == IsPut(n, m, r + 3, b)

LEMMA PutIs ==
  ASSUME NEW m \in Mem, NEW a \in 0 .. KV_SIZE - 1, NEW b \in 0 .. EeMax
  PROVE  [m EXCEPT ![a] = b] \in Mem /\ IsPut([m EXCEPT ![a] = b], m, a, b)
  BY Sizes DEF Mem, IsPut, Get

(* Changing the fourth byte of the valid record of a key to anything else  *)
(* than valid removes it, and touches no other key.                        *)
LEMMA MarkLaid ==
  ASSUME NEW m \in Mem, NEW S, NEW e, Laid(m, S, e), NEW key \in EeKeys,
         NEW r \in S \ {e}, Lives(m, key, r),
         NEW b \in 0 .. EeMax, b # KV_VALID,
         NEW n \in Mem, IsMarked(n, m, r, b)
  PROVE  /\ Laid(n, S, e) /\ Gone(n, S, e, key)
         /\ \A k \in EeKeys \ {key} : \A x : Says(n, S, e, k, x) <=> Says(m, S, e, k, x)
  <1>1. /\ r \in Nat /\ e \in Nat /\ r + 3 \in 0 .. KV_SIZE - 1
        /\ After(m, r) \in Nat /\ r + 6 <= After(m, r) /\ After(m, r) <= e
    <2>1. r \in Nat /\ e \in Nat /\ After(m, r) <= e /\ Holds(m, r)
      BY Starts DEF Chain, Laid
    <2> QED BY <2>1, Bytes, Sizes DEF Holds
  <1>2. Get(n, r + 3) = b /\ \A o \in Nat : o # r + 3 => Get(n, o) = Get(m, o)
    BY <1>1 DEF IsMarked, IsPut
  <1>4. ASSUME NEW s \in S \ {e}
        PROVE  /\ s \in Nat
               /\ After(n, s) = After(m, s) /\ (Holds(n, s) <=> Holds(m, s))
               /\ Gives(n, s) = Gives(m, s) /\ Get(n, s + 1) = Get(m, s + 1)
               /\ s # r => \A k : Lives(n, k, s) <=> Lives(m, k, s)
    <2>1. s \in Nat /\ After(m, s) \in Nat /\ s + 6 <= After(m, s)
      BY Starts, Bytes, Sizes DEF Laid
    <2>2. s = r \/ After(m, s) <= r \/ r + 6 <= s
      <3>1. r <= s \/ After(m, s) <= r
        BY DEF Laid, Chain
      <3>2. s <= r \/ After(m, r) <= s
        BY DEF Laid, Chain
      <3> QED BY <1>1, <2>1, <3>1, <3>2
    <2>3. \A o \in Nat : s <= o /\ o < After(m, s) /\ o # s + 3 => Get(n, o) = Get(m, o)
      BY <1>1, <1>2, <2>1, <2>2
    <2>4. s # r => Get(n, s + 3) = Get(m, s + 3)
      BY <1>1, <1>2, <2>1, <2>2
    <2> QED BY <2>1, <2>3, <2>4, RecordSame
  <1>5. Chain(n, S, e)
    BY <1>4 DEF Laid, Chain
  <1>6. \A k : ~Lives(n, k, r)
    BY <1>1, <1>2 DEF Lives
  <1>7. One(n, S, e)
    BY <1>4, <1>6 DEF Laid, One
  <1>8. Blank(n, e)
    BY <1>1, <1>2 DEF Laid, Blank
  <1>9. \A s \in S \ {e} : \A k \in EeKeys \ {key} : Lives(n, k, s) <=> Lives(m, k, s)
    <2>1. \A k \in EeKeys \ {key} : ~Lives(m, k, r)
      BY DEF Lives
    <2> QED BY <1>4, <1>6, <2>1
  <1>10. Gone(n, S, e, key)
    BY <1>4, <1>6 DEF Laid, One, Gone
  <1>11. ASSUME NEW k \in EeKeys \ {key}, NEW x
         PROVE  Says(n, S, e, k, x) <=> Says(m, S, e, k, x)
    BY <1>4, <1>9 DEF Says, Gone
  <1> QED BY <1>5, <1>7, <1>8, <1>10, <1>11 DEF Laid
-----------------------------------------------------------------------------
(* The record being written.                                               *)

(* A check byte is a byte.                                                 *)
LEMMA CrcByte ==
  ASSUME NEW v \in Seq(0 .. EeMax)
  PROVE  kv_crc(v) \in 0 .. EeMax
  <1>0. \A i \in 1 .. Len(v) : v[i] \in 0 .. EeMax
    BY Elements
  <1> DEFINE N == Len(v)
             B == 0 .. EeMax
             op == [p \in B \X (1 .. N) |-> ByteXor(p[1], v[p[2]])]
             K(f) == f = [i \in 0 .. N |-> IF i = 0 THEN 0 ELSE ByteXor(f[i - 1], v[i])]
  <1>1. \A x \in B, i \in 0 + 1 .. N : op[<<x, i>>] = ByteXor(x, v[i]) /\ op[<<x, i>>] \in B
    <2>1. ASSUME NEW x \in B, NEW i \in 0 + 1 .. N
          PROVE  op[<<x, i>>] = ByteXor(x, v[i]) /\ op[<<x, i>>] \in B
      <3>1. i \in 1 .. N /\ v[i] \in B
        <4> HIDE DEF op, K
        <4> QED BY <1>0
      <3>2. ByteXor(x, v[i]) \in B
        BY <3>1, EepromConstants DEF EepromConstants
      <3>3. <<x, i>> \in B \X (1 .. N)
        BY <3>1
      <3> QED BY <3>2, <3>3
    <2> QED BY <2>1
  <1>2. N \in Nat /\ 0 \in Nat /\ 0 \in B
    BY Sizes
  <1> HIDE DEF op, N, B
  <1>3. \A f : Folded(f, 0, N, 0, op) => \A i \in 0 .. N : f[i] \in B
    BY <1>1, <1>2, FoldTyped
  <1>4. PICK g : Folded(g, 0, N, 0, op)
    BY <1>2, FoldExists
  <1>5. K(g)
    <2>1. ASSUME NEW i \in 0 .. N, i # 0
          PROVE  op[<<g[i - 1], i>>] = ByteXor(g[i - 1], v[i])
      <3>1. i - 1 \in 0 .. N /\ i \in 0 + 1 .. N
        BY <1>2, <2>1
      <3>2. g[i - 1] \in B
        BY <1>3, <1>4, <3>1
      <3> QED BY <1>1, <3>1, <3>2
    <2> QED BY <1>4, <2>1 DEF Folded
  <1> DEFINE w == CHOOSE f : K(f)
  <1>6. K(w)
    BY <1>5
  <1>7. kv_crc(v) = w[N]
    BY DEF kv_crc, N
  <1> HIDE DEF w
  <1> DEFINE Bad == {i \in 0 .. N : w[i] \notin B}
  <1>8. SUFFICES ASSUME Bad # {}
                 PROVE  FALSE
    BY <1>2, <1>7 DEF B
  <1>9. PICK k \in Bad : \A i \in Bad : k <= i
    <2>1. Bad \subseteq Nat
      OBVIOUS
    <2> HIDE DEF Bad
    <2> QED BY <1>8, <2>1, Least
  <1>10. CASE k = 0
    BY <1>2, <1>6, <1>10
  <1>11. CASE k # 0
    <2>1. k - 1 \in 0 .. N /\ k \in 0 + 1 .. N /\ k - 1 \notin Bad
      BY <1>2, <1>9, <1>11
    <2>2. w[k] = ByteXor(w[k - 1], v[k])
      BY <1>6, <1>11
    <2> QED BY <1>1, <2>1, <2>2
  <1> QED BY <1>10, <1>11

LEMMA RecordBytes ==
  ASSUME NEW key \in EeKeys, NEW v \in EeValues
  PROVE  /\ v \in Seq(0 .. EeMax) /\ Len(v) \in 1 .. EeMax
         /\ Record(key, v) \in Seq(0 .. EeMax) /\ Len(Record(key, v)) = 6 + Len(v)
         /\ Record(key, v)[1] = KV_MAGIC /\ Record(key, v)[2] = key
         /\ Record(key, v)[3] = Len(v) /\ Record(key, v)[4] = KV_VALID
         /\ Record(key, v)[6] = kv_crc(v)
         /\ \A i \in 1 .. Len(v) : Record(key, v)[6 + i] = v[i]
  <1>1. v \in Seq(0 .. EeMax) /\ Len(v) \in 1 .. EeMax /\ key \in 0 .. EeMax
    BY EepromConstants DEF EepromConstants
  <1> DEFINE head == <<KV_MAGIC, key, Len(v), KV_VALID, 0, kv_crc(v)>>
  <1>2. head \in Seq(0 .. EeMax) /\ Len(head) = 6
    BY <1>1, CrcByte, Sizes
  <1> QED BY <1>1, <1>2 DEF Record

\* of the record, the first j bytes are written at e, and nothing behind them
Appended(m, e, rec, j) ==
  \A o \in Nat : e <= o => Get(m, o) = IF o - e < j THEN rec[o - e + 1] ELSE EeMax

(* However much of it is written, the memory holds whole records, the      *)
(* other keys read as before, and this one as nothing or as the value.     *)
LEMMA AppendLaid ==
  ASSUME NEW m \in Mem, NEW S, NEW e, Chain(m, S, e), One(m, S, e),
         NEW key \in EeKeys, NEW v \in EeValues, Gone(m, S, e, key),
         e + KV_HDR + Len(v) <= KV_SIZE,
         NEW j \in 0 .. KV_HDR + Len(v), Appended(m, e, Record(key, v), j)
  PROVE  \E T, f :
           /\ Laid(m, T, f)
           /\ \A k \in EeKeys \ {key} : \A x : Says(m, S, e, k, x) => Says(m, T, f, k, x)
           /\ \/ Says(m, T, f, key, Missing) /\ j # KV_HDR + Len(v)
              \/ Says(m, T, f, key, v)
  <1>1. e \in Nat /\ \A s \in S : s \in Nat /\ s <= e /\ s <= Top
    BY Starts
  <1>2. CASE j = 0
    <2>1. Blank(m, e)
      BY <1>1, <1>2 DEF Appended, Blank
    <2>2. Says(m, S, e, key, Missing) /\ j # KV_HDR + Len(v)
      BY <1>2, RecordBytes, Sizes DEF Says
    <2> QED BY <2>1, <2>2 DEF Laid
  <1>3. CASE j # 0
    <2> DEFINE f == After(m, e)
               T == S \union {f}
               rec == Record(key, v)
               len == Len(v)
    <2>1. /\ len \in 1 .. EeMax /\ j \in 1 .. 6 + len /\ key \in 0 .. EeMax
          /\ e + 6 + len <= KV_SIZE
      BY <1>1, <1>3, RecordBytes, Sizes, EepromConstants DEF EepromConstants
    <2>20. \A o \in Nat : e <= o => Get(m, o) = IF o - e < j THEN rec[o - e + 1] ELSE EeMax
      BY DEF Appended
    <2> HIDE DEF rec, len, f
    <2>2. \A i \in Nat : Get(m, e + i) = IF i < j THEN rec[i + 1] ELSE EeMax
      <3>1. ASSUME NEW i \in Nat
            PROVE  Get(m, e + i) = IF i < j THEN rec[i + 1] ELSE EeMax
        <4>1. e + i \in Nat /\ e <= e + i /\ e + i - e = i
          BY <1>1
        <4> QED BY <1>1, <2>20, <4>1
      <3> QED BY <3>1
    <2>3. /\ Get(m, e) = KV_MAGIC
          /\ Get(m, e + 1) = IF 2 <= j THEN key ELSE EeMax
          /\ Get(m, e + 2) = IF 3 <= j THEN len ELSE EeMax
          /\ Get(m, e + 3) = IF 4 <= j THEN KV_VALID ELSE EeMax
          /\ Get(m, e + 5) = IF 6 <= j THEN kv_crc(v) ELSE EeMax
          /\ \A i \in 1 .. len : Get(m, e + 5 + i) = IF 6 + i <= j THEN v[i] ELSE EeMax
      <3>1. /\ rec[1] = KV_MAGIC /\ rec[2] = key /\ rec[3] = len /\ rec[4] = KV_VALID
            /\ rec[6] = kv_crc(v) /\ \A i \in 1 .. len : rec[6 + i] = v[i]
        BY RecordBytes DEF rec, len
      <3>2. /\ Get(m, e + 0) = IF 0 < j THEN rec[0 + 1] ELSE EeMax
            /\ Get(m, e + 1) = IF 1 < j THEN rec[1 + 1] ELSE EeMax
            /\ Get(m, e + 2) = IF 2 < j THEN rec[2 + 1] ELSE EeMax
            /\ Get(m, e + 3) = IF 3 < j THEN rec[3 + 1] ELSE EeMax
            /\ Get(m, e + 5) = IF 5 < j THEN rec[5 + 1] ELSE EeMax
        BY <2>2
      <3>3. ASSUME NEW i \in 1 .. len
            PROVE  Get(m, e + 5 + i) = IF 6 + i <= j THEN v[i] ELSE EeMax
        <4>1. 5 + i \in Nat /\ e + 5 + i = e + (5 + i) /\ 5 + i + 1 = 6 + i
          BY <1>1, <2>1
        <4>2. Get(m, e + (5 + i)) = IF 5 + i < j THEN rec[5 + i + 1] ELSE EeMax
          BY <2>2, <4>1
        <4> QED BY <2>1, <3>1, <4>1, <4>2
      <3>4. /\ 0 < j /\ e + 0 = e
            /\ (1 < j <=> 2 <= j) /\ (2 < j <=> 3 <= j) /\ (3 < j <=> 4 <= j) /\ (5 < j <=> 6 <= j)
            /\ 0 + 1 = 1 /\ 1 + 1 = 2 /\ 2 + 1 = 3 /\ 3 + 1 = 4 /\ 5 + 1 = 6
        BY <1>1, <2>1
      <3>5. /\ Get(m, e) = rec[1]
            /\ Get(m, e + 1) = IF 2 <= j THEN rec[2] ELSE EeMax
            /\ Get(m, e + 2) = IF 3 <= j THEN rec[3] ELSE EeMax
            /\ Get(m, e + 3) = IF 4 <= j THEN rec[4] ELSE EeMax
            /\ Get(m, e + 5) = IF 6 <= j THEN rec[6] ELSE EeMax
        BY <3>2, <3>4
      <3> QED BY <3>1, <3>3, <3>5
    <2>4. /\ f \in Nat /\ f = e + 6 + Get(m, e + 2) /\ e + j <= f /\ e + 6 <= f /\ f <= Top
      <3>1. PICK g : g = Get(m, e + 2)
        OBVIOUS
      <3>2. g = (IF 3 <= j THEN len ELSE EeMax) /\ f = e + 6 + g
        BY <2>3, <3>1, Sizes DEF f, After
      <3>3. g \in 1 .. EeMax /\ (j <= 6 \/ g = len)
        BY <2>1, <3>2, Sizes
      <3>4. f \in Nat /\ e + j <= f /\ e + 6 <= f /\ f <= Top
        BY <1>1, <2>1, <3>2, <3>3, Sizes
      <3> QED BY <3>1, <3>2, <3>4
    <2>5. Blank(m, f)
      BY <1>1, <2>1, <2>4 DEF Appended, Blank
    <2>6. T \ {f} = (S \ {e}) \union {e} /\ e \in T \ {f}
      BY <1>1, <2>4, Starts
    <2>7. Chain(m, T, f)
      <3>1. T \subseteq 0 .. Top /\ 0 \in T /\ f \in T /\ \A s \in T : s <= f
        BY <1>1, <2>4, Starts, Sizes
      <3>2. Holds(m, e)
        BY <1>1, <2>1, <2>3, Sizes DEF Holds
      <3>3. ASSUME NEW s \in T \ {f}
            PROVE  Holds(m, s) /\ After(m, s) \in T /\ \A t \in T : t <= s \/ After(m, s) <= t
        <4>1. CASE s = e
          BY <1>1, <2>4, <3>2, <4>1 DEF f
        <4>2. CASE s \in S \ {e}
          <5>1. Holds(m, s) /\ After(m, s) \in S /\ \A t \in S : t <= s \/ After(m, s) <= t
            BY <4>2 DEF Chain
          <5>2. After(m, s) <= f
            BY <1>1, <2>4, <5>1
          <5> QED BY <5>1, <5>2
        <4> QED BY <2>6, <4>1, <4>2
      <3> QED BY <3>1, <3>3 DEF Chain
    <2>8. \A k : Lives(m, k, e) => k = key /\ 4 <= j
      BY <2>1, <2>3, Sizes DEF Lives
    <2>9. One(m, T, f)
      BY <2>6, <2>8 DEF One, Gone
    <2>10. \A k \in EeKeys \ {key} : \A x : Says(m, S, e, k, x) => Says(m, T, f, k, x)
      BY <2>6, <2>8 DEF Says, Gone
    <2>11. CASE j < 4
      <3>1. Gone(m, T, f, key)
        BY <2>1, <2>6, <2>8, <2>11 DEF Gone
      <3>2. Says(m, T, f, key, Missing) /\ j # KV_HDR + Len(v)
        BY <2>1, <2>11, <3>1, Sizes DEF Says, len
      <3> QED BY <2>5, <2>7, <2>9, <2>10, <3>2 DEF Laid
    <2>12. CASE 4 <= j
      <3>1. Lives(m, key, e)
        BY <2>1, <2>3, <2>12, Sizes DEF Lives
      <3> DEFINE n == IF 6 < j THEN j - 6 ELSE 0
      <3>2. n \in 0 .. Len(v)
        BY <2>1 DEF len
      <3>3. Value(m, e) = Torn(v, n)
        <4>1. Get(m, e + 2) = Len(v)
          BY <2>1, <2>3, <2>12 DEF len
        <4>2. ASSUME NEW i \in 1 .. Len(v)
              PROVE  Get(m, e + KV_HDR + i - 1) = IF i <= n THEN v[i] ELSE EeMax
          <5>1. e + KV_HDR + i - 1 = e + 5 + i
            BY <1>1, <2>1, Sizes DEF len
          <5> QED BY <2>1, <2>3, <5>1 DEF len
        <4> QED BY <4>1, <4>2 DEF Value, Torn
      <3>4. Gives(m, e) = Missing \/ Gives(m, e) = v
        BY <2>1, <2>3, <3>2, <3>3, TornIsSeen DEF TornIsSeen, Gives
      <3>5. ASSUME j = KV_HDR + Len(v)
            PROVE  Gives(m, e) = v
        <4>1. n = Len(v) /\ 6 <= j
          BY <2>1, <3>5, Sizes DEF len
        <4>2. Torn(v, n) = v
          BY <4>1, RecordBytes DEF Torn
        <4> QED BY <2>3, <3>3, <4>1, <4>2 DEF Gives
      <3>6. \/ Says(m, T, f, key, Missing) /\ j # KV_HDR + Len(v)
            \/ Says(m, T, f, key, v)
        BY <2>6, <3>1, <3>4, <3>5 DEF Says
      <3> QED BY <2>5, <2>7, <2>9, <2>10, <3>6 DEF Laid
    <2> QED BY <2>1, <2>11, <2>12
  <1> QED BY <1>2, <1>3
-----------------------------------------------------------------------------
(* The writes a call has still to make.                                    *)

\* of data, written from off on, all but the first j bytes
Left(off, data, j) == [n \in 1 .. Len(data) - j |-> <<off + j + n - 1, data[j + n]>>]

LEMMA LeftSteps ==
  ASSUME NEW off \in Nat, NEW X, NEW data \in Seq(X), NEW j \in 0 .. Len(data)
  PROVE  /\ At(off, data) = Left(off, data, 0)
         /\ Left(off, data, j) = <<>> <=> j = Len(data)
         /\ j # Len(data) =>
              /\ Left(off, data, j)[1] = <<off + j, data[j + 1]>>
              /\ Tail(Left(off, data, j)) = Left(off, data, j + 1)
  <1>1. Len(data) \in Nat
    BY Elements
  <1>2. At(off, data) = Left(off, data, 0)
    BY <1>1 DEF At, Left
  <1>3. Len(Left(off, data, j)) = Len(data) - j
    BY <1>1 DEF Left
  <1>4. ASSUME j # Len(data)
        PROVE  /\ Left(off, data, j)[1] = <<off + j, data[j + 1]>>
               /\ Tail(Left(off, data, j)) = Left(off, data, j + 1)
    <2>1. Left(off, data, j)[1] = <<off + j, data[j + 1]>>
      BY <1>1, <1>4 DEF Left
    <2>2. Tail(Left(off, data, j)) =
            [n \in 1 .. Len(data) - j - 1 |-> Left(off, data, j)[n + 1]]
      <3> DEFINE N == Len(data) - j
                 g == Left(off, data, j)
      <3>1. N \in Nat /\ N > 0 /\ g = [n \in 1 .. N |-> g[n]]
        BY <1>1, <1>4 DEF Left
      <3> HIDE DEF N, g
      <3>2. Tail([n \in 1 .. N |-> g[n]]) = [n \in 1 .. N - 1 |-> g[n + 1]]
        BY <3>1, TailIs
      <3>3. Tail(g) = [n \in 1 .. N - 1 |-> g[n + 1]]
        BY <3>1, <3>2
      <3> QED BY <3>3 DEF N, g
    <2>3. ASSUME NEW n \in 1 .. Len(data) - j - 1
          PROVE  Left(off, data, j)[n + 1] = <<off + (j + 1) + n - 1, data[(j + 1) + n]>>
      BY <1>1 DEF Left
    <2>4. Len(data) - (j + 1) = Len(data) - j - 1
      BY <1>1
    <2> QED BY <2>1, <2>2, <2>3, <2>4 DEF Left
  <1>5. Left(off, data, j) = <<>> <=> j = Len(data)
    <2>1. CASE j = Len(data)
      BY <1>1, <2>1 DEF Left
    <2>2. CASE j # Len(data)
      <3>1. Len(data) - j # 0
        BY <1>1, <2>2
      <3>2. Left(off, data, j) # <<>>
        BY <1>3, <3>1
      <3> QED BY <2>2, <3>2
    <2> QED BY <2>1, <2>2
  <1> QED BY <1>2, <1>4, <1>5

LEMMA LeftCells ==
  ASSUME NEW off \in Nat, NEW data \in Seq(0 .. EeMax), off + Len(data) <= KV_SIZE
  PROVE  Left(off, data, 0) \in Seq((0 .. KV_SIZE - 1) \X (0 .. EeMax))
  <1>1. Len(data) \in Nat /\ \A i \in 1 .. Len(data) : data[i] \in 0 .. EeMax
    BY Elements
  <1>2. ASSUME NEW n \in 1 .. Len(data) - 0
        PROVE  <<off + 0 + n - 1, data[0 + n]>> \in (0 .. KV_SIZE - 1) \X (0 .. EeMax)
    BY <1>1, Sizes
  <1>3. Len(data) - 0 \in Nat
    BY <1>1
  <1> DEFINE N == Len(data) - 0
             w(n) == <<off + 0 + n - 1, data[0 + n]>>
  <1>4. [n \in 1 .. N |-> w(n)] \in Seq((0 .. KV_SIZE - 1) \X (0 .. EeMax))
    <2> HIDE DEF N, w
    <2> DEFINE Z == (0 .. KV_SIZE - 1) \X (0 .. EeMax)
    <2>1. N \in Nat /\ \A n \in 1 .. N : w(n) \in Z
      BY <1>2, <1>3 DEF N, w
    <2> HIDE DEF Z
    <2>2. [n \in 1 .. N |-> w(n)] \in Seq(Z)
      BY <2>1
    <2> QED BY <2>2 DEF Z
  <1> QED BY <1>4 DEF Left

LEMMA Cons ==
  ASSUME NEW X, NEW x \in X, NEW s \in Seq(X)
  PROVE  /\ <<x>> \o s \in Seq(X) /\ <<x>> \o s # <<>>
         /\ (<<x>> \o s)[1] = x /\ Tail(<<x>> \o s) = s
  OBVIOUS

LEMMA HeadTail ==
  ASSUME NEW X, NEW s \in Seq(X), s # <<>>
  PROVE  s[1] \in X /\ Tail(s) \in Seq(X)
  OBVIOUS
-----------------------------------------------------------------------------
(* The inductive invariant.                                                *)

Cells == (0 .. KV_SIZE - 1) \X (0 .. EeMax)

EeTyped ==
  /\ ee \in Mem /\ todo \in Seq(Cells) /\ sure \in BOOLEAN
  /\ doing \in Abstract!Calls /\ (doing = NoCall => todo = <<>>)
  /\ before = [k \in EeKeys |-> before[k]]

\* an erase, whatever it found, has wiped what it has passed
Blanks == [i \in 1 .. KV_SIZE |-> EeMax]
ErasedSoFar ==
  doing.op = "erase" =>
    /\ status = "OK"
    /\ \E j \in 0 .. KV_SIZE : todo = Left(0, Blanks, j) /\ \A o \in 0 .. j - 1 : ee[o] = EeMax

\* nobody but the call's key reads differently
Others(S, e) == \A k \in EeKeys \ {doing.key} : Says(ee, S, e, k, before[k])

\* the record of the call's key is still to be marked, then rest is written
ToMark(S, e, rest) ==
  /\ Laid(ee, S, e) /\ Says(ee, S, e, doing.key, before[doing.key])
  /\ \E r \in S \ {e} : Lives(ee, doing.key, r) /\ todo = <<<<r + 3, KV_DELETED>>>> \o rest

NothingLeft(S, e) == Laid(ee, S, e) /\ Gone(ee, S, e, doing.key) /\ todo = <<>>

Resting == sure /\ doing = NoCall => \E S, e : Laid(ee, S, e)

Deleting ==
  sure /\ doing.op = "delete" =>
    \E S, e :
      /\ Others(S, e)
      /\ \/ status = "OK" /\ ToMark(S, e, <<>>)
         \/ status = "OK" /\ NothingLeft(S, e)
         \/ status = "ERR" /\ NothingLeft(S, e) /\ before[doing.key] = Missing

\* the new record, and how much of it is written where
Rec == Record(doing.key, doing.value)
Fits(e) == e + KV_HDR + Len(doing.value) <= KV_SIZE
Writing(S, e) ==
  /\ Chain(ee, S, e) /\ One(ee, S, e) /\ Gone(ee, S, e, doing.key)
  /\ \E j \in 0 .. KV_HDR + Len(doing.value) : Appended(ee, e, Rec, j) /\ todo = Left(e, Rec, j)

Saving ==
  sure /\ doing.op = "save" =>
    \E S, e :
      /\ Others(S, e)
      /\ \/ status = "ERR" /\ (ToMark(S, e, <<>>) \/ NothingLeft(S, e))
         \/ status = "OK" /\ Fits(e) /\ (ToMark(S, e, Left(e, Rec, 0)) \/ Writing(S, e))

EeInv == EeTyped /\ ErasedSoFar /\ Resting /\ Deleting /\ Saving

LEMMA Kinds ==
  ASSUME doing \in Abstract!Calls
  PROVE  \/ doing = NoCall /\ doing.op = "none"
         \/ doing.op = "erase" /\ doing # NoCall
         \/ doing.op = "delete" /\ doing.key \in EeKeys /\ doing # NoCall
         \/ /\ doing.op = "save" /\ doing.key \in EeKeys /\ doing.value \in EeValues
            /\ doing # NoCall
  BY DEF Abstract!Calls, Abstract!Idle, NoCall

(* A memory without a record.                                              *)
LEMMA EmptyLaid ==
  ASSUME NEW m \in Mem, \A o \in 0 .. KV_SIZE - 1 : m[o] = EeMax
  PROVE  Laid(m, {0}, 0) /\ \A k \in EeKeys : ReadIn(m, k) = Missing
  <1>1. \A o \in Nat : Get(m, o) = EeMax
    BY Sizes DEF Get
  <1>2. Laid(m, {0}, 0)
    BY <1>1, Sizes DEF Laid, Chain, One, Blank
  <1>3. \A k \in EeKeys : Says(m, {0}, 0, k, Missing)
    BY DEF Says, Gone
  <1> QED BY <1>2, <1>3, ReadIs

(* What all keys read as, from what the records say.                       *)
LEMMA ReadsAre ==
  ASSUME NEW m \in Mem, NEW S, NEW e, Laid(m, S, e),
         NEW b, b = [k \in EeKeys |-> b[k]], \A k \in EeKeys : Says(m, S, e, k, b[k])
  PROVE  [k \in EeKeys |-> ReadIn(m, k)] = b
  <1>1. \A k \in EeKeys : ReadIn(m, k) = b[k]
    BY ReadIs
  <1> QED BY <1>1

LEMMA ReadsChanged ==
  ASSUME NEW m \in Mem, NEW S, NEW e, Laid(m, S, e), NEW key \in EeKeys, NEW x,
         NEW b, b = [k \in EeKeys |-> b[k]],
         \A k \in EeKeys \ {key} : Says(m, S, e, k, b[k]), Says(m, S, e, key, x)
  PROVE  [k \in EeKeys |-> ReadIn(m, k)] = [b EXCEPT ![key] = x]
  <1> DEFINE c == [b EXCEPT ![key] = x]
  <1>1. c = [k \in EeKeys |-> c[k]] /\ \A k \in EeKeys : c[k] = IF k = key THEN x ELSE b[k]
    OBVIOUS
  <1> HIDE DEF c
  <1>2. \A k \in EeKeys : Says(m, S, e, k, c[k])
    BY <1>1
  <1>3. [k \in EeKeys |-> ReadIn(m, k)] = c
    BY <1>1, <1>2, ReadsAre
  <1> QED BY <1>3 DEF c
-----------------------------------------------------------------------------
(* A call begins.                                                          *)

LEMMA EeInitHolds == EeInit => EeInv
  <1> SUFFICES ASSUME EeInit
               PROVE  EeInv
    OBVIOUS
  <1>1. ee \in Mem /\ \A o \in 0 .. KV_SIZE - 1 : ee[o] = EeMax
    BY Sizes DEF EeInit, Mem
  <1>2. \E S, e : Laid(ee, S, e)
    BY <1>1, EmptyLaid
  <1>3. todo \in Seq(Cells) /\ doing \in Abstract!Calls /\ before = [k \in EeKeys |-> before[k]]
    BY DEF EeInit, Abstract!Calls, Abstract!Idle, NoCall, Reads
  <1>4. EeTyped
    BY <1>1, <1>3 DEF EeInit, EeTyped
  <1> QED BY <1>2, <1>4 DEF EeInit, EeInv, ErasedSoFar, Resting, Deleting, Saving, NoCall

LEMMA SupersedeIs ==
  ASSUME ee \in Mem, NEW key
  PROVE  /\ Supersede(key) \in Seq(Cells)
         /\ FindIn(ee, key) = {} => Supersede(key) = <<>>
         /\ \A r : FindIn(ee, key) = {r} => Supersede(key) = <<<<r + 3, KV_DELETED>>>>
  <1>1. kv_find(key) = FindIn(ee, key)
    BY FindsIn
  <1>2. CASE FindIn(ee, key) = {}
    BY <1>1, <1>2 DEF Supersede
  <1>3. CASE FindIn(ee, key) # {}
    <2> DEFINE r == CHOOSE off \in kv_find(key) : TRUE
    <2>1. r \in FindIn(ee, key)
      BY <1>1, <1>3
    <2>2. Supersede(key) = <<<<r + 3, KV_DELETED>>>>
      BY <1>1, <1>3 DEF Supersede
    <2> HIDE DEF r
    <2>3. r \in Nat /\ Holds(ee, r)
      BY <2>1, WalksStop
    <2>4. <<r + 3, KV_DELETED>> \in Cells
      BY <2>3, Sizes DEF Holds, Cells
    <2>5. Supersede(key) \in Seq(Cells)
      BY <2>2, <2>4
    <2>6. \A x : FindIn(ee, key) = {x} => r = x
      BY <2>1
    <2> QED BY <1>3, <2>2, <2>5, <2>6
  <1> QED BY <1>2, <1>3

\* between calls, what reads give is what the records say, and the next call
\* takes it for what was before
LEMMA BeginsLaid ==
  ASSUME EeInv, sure, doing = NoCall, before' = Reads
  PROVE  \E S, e :
           /\ Laid(ee, S, e) /\ kv_end = e /\ \A k \in EeKeys : Says(ee, S, e, k, before'[k])
           /\ \A key \in EeKeys :
                \/ Supersede(key) = <<>> /\ kv_find(key) = {} /\ Gone(ee, S, e, key)
                \/ \E r \in S \ {e} : /\ Supersede(key) = <<<<r + 3, KV_DELETED>>>>
                                     /\ kv_find(key) # {} /\ Lives(ee, key, r)
  <1>1. ee \in Mem
    BY DEF EeInv, EeTyped
  <1>2. PICK S, e : Laid(ee, S, e)
    BY DEF EeInv, Resting
  <1>3. ~Holds(ee, e) /\ Chain(ee, S, e)
    BY <1>1, <1>2, NotHeld DEF Laid
  <1>4. kv_end = e
    BY <1>1, <1>3, EndIs
  <1>5. \A k \in EeKeys : Says(ee, S, e, k, before'[k])
    BY <1>1, <1>2, ReadsIn, ReadIs
  <1>6. ASSUME NEW key \in EeKeys
        PROVE  \/ Supersede(key) = <<>> /\ kv_find(key) = {} /\ Gone(ee, S, e, key)
               \/ \E r \in S \ {e} : /\ Supersede(key) = <<<<r + 3, KV_DELETED>>>>
                                    /\ kv_find(key) # {} /\ Lives(ee, key, r)
    <2>1. kv_find(key) = FindIn(ee, key)
      BY FindsIn
    <2>2. CASE FindIn(ee, key) = {} /\ \A s \in S \ {e} : ~Lives(ee, key, s)
      BY <1>1, <2>1, <2>2, SupersedeIs DEF Gone
    <2>3. CASE \E r \in S \ {e} : FindIn(ee, key) = {r} /\ Lives(ee, key, r)
      BY <1>1, <2>1, <2>3, SupersedeIs
    <2> QED BY <1>1, <1>3, <2>2, <2>3, FindIs
  <1> QED BY <1>2, <1>4, <1>5, <1>6

LEMMA SaveHolds ==
  ASSUME EeInv, NEW key \in EeKeys, NEW v \in EeValues, Save(key, v)
  PROVE  EeInv'
  <1> DEFINE fits == kv_end + KV_HDR + Len(v) <= KV_SIZE
             rec == Record(key, v)
             call == [op |-> "save", key |-> key, value |-> v]
             tail == IF fits THEN At(kv_end, rec) ELSE <<>>
  <1>1. /\ doing = NoCall /\ doing' = call /\ todo' = Supersede(key) \o tail
        /\ status' = (IF fits THEN "OK" ELSE "ERR") /\ before' = Reads
        /\ ee' = ee /\ sure' = sure
    BY DEF Save, Call
  <1>2. ee \in Mem /\ kv_end \in Nat /\ sure \in BOOLEAN
    BY WalksStop DEF EeInv, EeTyped
  <1>3. /\ rec \in Seq(0 .. EeMax) /\ Len(rec) = 6 + Len(v) /\ Len(v) \in 1 .. EeMax
    BY RecordBytes
  <1>4. At(kv_end, rec) = Left(kv_end, rec, 0)
    BY <1>2, <1>3, LeftSteps, Sizes
  <1>5. tail \in Seq(Cells)
    <2>1. CASE fits
      <3>1. kv_end + Len(rec) <= KV_SIZE
        BY <1>2, <1>3, <2>1, Sizes
      <3> QED BY <1>2, <1>3, <1>4, <2>1, <3>1, LeftCells DEF Cells
    <2>2. CASE ~fits
      BY <2>2
    <2> QED BY <2>1, <2>2
  <1>6. /\ call \in Abstract!Calls /\ call # NoCall
        /\ call.op = "save" /\ call.key = key /\ call.value = v
    BY DEF Abstract!Calls, NoCall
  <1> HIDE DEF rec, call, tail, fits
  <1>7. EeTyped'
    <2>1. todo' \in Seq(Cells)
      BY <1>1, <1>2, <1>5, SupersedeIs
    <2>2. before' = [k \in EeKeys |-> before'[k]]
      BY <1>1 DEF Reads
    <2> QED BY <1>1, <1>2, <1>6, <2>1, <2>2 DEF EeTyped
  <1>8. ASSUME sure
        PROVE  Saving'
    <2>1. PICK S, e :
            /\ Laid(ee, S, e) /\ kv_end = e /\ \A k \in EeKeys : Says(ee, S, e, k, before'[k])
            /\ \/ Supersede(key) = <<>> /\ kv_find(key) = {} /\ Gone(ee, S, e, key)
               \/ \E r \in S \ {e} : /\ Supersede(key) = <<<<r + 3, KV_DELETED>>>>
                                    /\ kv_find(key) # {} /\ Lives(ee, key, r)
      BY <1>1, <1>8, BeginsLaid
    <2>2. Others(S, e)'
      BY <1>1, <2>1 DEF Others
    <2>3. Rec' = rec
      BY <1>1, <1>6 DEF Rec, rec
    <2>4. fits <=> Fits(e)'
      BY <1>1, <1>6, <2>1 DEF Fits, fits
    <2>5. CASE \E r \in S \ {e} : Supersede(key) = <<<<r + 3, KV_DELETED>>>> /\ Lives(ee, key, r)
      <3>1. PICK r \in S \ {e} : Supersede(key) = <<<<r + 3, KV_DELETED>>>> /\ Lives(ee, key, r)
        BY <2>5
      <3>2. tail = IF fits THEN Left(e, rec, 0) ELSE <<>>
        BY <1>4, <2>1 DEF tail
      <3>3. CASE fits
        <4>1. todo' = <<<<r + 3, KV_DELETED>>>> \o Left(e, Rec, 0)'
          BY <1>1, <2>3, <3>1, <3>2, <3>3 DEF Left
        <4>2. ToMark(S, e, Left(e, Rec, 0))'
          BY <1>1, <1>6, <2>1, <3>1, <4>1 DEF ToMark
        <4> QED BY <1>1, <2>2, <2>4, <3>3, <4>2 DEF Saving
      <3>4. CASE ~fits
        <4>1. ToMark(S, e, <<>>)'
          BY <1>1, <1>6, <2>1, <3>1, <3>2, <3>4 DEF ToMark
        <4> QED BY <1>1, <2>2, <3>4, <4>1 DEF Saving
      <3> QED BY <3>3, <3>4
    <2>6. CASE Supersede(key) = <<>> /\ Gone(ee, S, e, key)
      <3>1. todo' = tail
        BY <1>1, <1>5, <2>6
      <3>2. CASE fits
        <4>1. Appended(ee, e, rec, 0)
          BY <2>1, Starts DEF Laid, Blank, Appended
        <4>2. todo' = Left(e, rec, 0)
          BY <1>4, <2>1, <3>1, <3>2 DEF tail
        <4>3. 0 \in 0 .. KV_HDR + Len(v)
          BY <1>3, Sizes
        <4>4. Writing(S, e)'
          BY <1>1, <1>6, <2>1, <2>3, <2>6, <4>1, <4>2, <4>3 DEF Writing, Laid
        <4> QED BY <1>1, <2>2, <2>4, <3>2, <4>4 DEF Saving
      <3>3. CASE ~fits
        <4>1. NothingLeft(S, e)'
          BY <1>1, <1>6, <2>1, <2>6, <3>1, <3>3 DEF NothingLeft, tail
        <4> QED BY <1>1, <2>2, <3>3, <4>1 DEF Saving
      <3> QED BY <3>2, <3>3
    <2> QED BY <2>1, <2>5, <2>6
  <1>9. Saving'
    BY <1>1, <1>8 DEF Saving
  <1>10. ErasedSoFar' /\ Resting' /\ Deleting'
    BY <1>1, <1>6 DEF ErasedSoFar, Resting, Deleting
  <1> QED BY <1>7, <1>9, <1>10 DEF EeInv
LEMMA DeleteHolds ==
  ASSUME EeInv, NEW key \in EeKeys, Delete(key)
  PROVE  EeInv'
  <1> DEFINE call == [op |-> "delete", key |-> key]
  <1>1. /\ doing = NoCall /\ doing' = call /\ todo' = Supersede(key) /\ before' = Reads
        /\ status' = (IF kv_find(key) = {} THEN "ERR" ELSE "OK") /\ ee' = ee /\ sure' = sure
    BY DEF Delete, Call
  <1>2. ee \in Mem /\ sure \in BOOLEAN
    BY DEF EeInv, EeTyped
  <1>3. call \in Abstract!Calls /\ call # NoCall /\ call.op = "delete" /\ call.key = key
    BY DEF Abstract!Calls, NoCall
  <1> HIDE DEF call
  <1>4. EeTyped'
    <2>1. todo' \in Seq(Cells)
      BY <1>1, <1>2, SupersedeIs
    <2>2. before' = [k \in EeKeys |-> before'[k]]
      BY <1>1 DEF Reads
    <2> QED BY <1>1, <1>2, <1>3, <2>1, <2>2 DEF EeTyped
  <1>5. ASSUME sure
        PROVE  Deleting'
    <2>1. PICK S, e :
            /\ Laid(ee, S, e) /\ kv_end = e /\ \A k \in EeKeys : Says(ee, S, e, k, before'[k])
            /\ \/ Supersede(key) = <<>> /\ kv_find(key) = {} /\ Gone(ee, S, e, key)
               \/ \E r \in S \ {e} : /\ Supersede(key) = <<<<r + 3, KV_DELETED>>>>
                                    /\ kv_find(key) # {} /\ Lives(ee, key, r)
      BY <1>1, <1>5, BeginsLaid
    <2>2. Others(S, e)'
      BY <1>1, <2>1 DEF Others
    <2>3. CASE Supersede(key) = <<>> /\ kv_find(key) = {} /\ Gone(ee, S, e, key)
      <3>1. NothingLeft(S, e)' /\ status' = "ERR"
        BY <1>1, <1>3, <2>1, <2>3 DEF NothingLeft
      <3>2. before'[key] = Missing
        BY <2>1, <2>3 DEF Says, Gone
      <3> QED BY <1>1, <1>3, <2>2, <3>1, <3>2 DEF Deleting
    <2>4. CASE \E r \in S \ {e} : /\ Supersede(key) = <<<<r + 3, KV_DELETED>>>>
                                 /\ kv_find(key) # {} /\ Lives(ee, key, r)
      <3>1. PICK r \in S \ {e} : /\ Supersede(key) = <<<<r + 3, KV_DELETED>>>>
                               /\ kv_find(key) # {} /\ Lives(ee, key, r)
        BY <2>4
      <3>2. todo' = <<<<r + 3, KV_DELETED>>>> \o <<>>
        BY <1>1, <3>1
      <3>3. ToMark(S, e, <<>>)' /\ status' = "OK"
        BY <1>1, <1>3, <2>1, <3>1, <3>2 DEF ToMark
      <3> QED BY <1>1, <1>3, <2>2, <3>3 DEF Deleting
    <2> QED BY <2>1, <2>3, <2>4
  <1>6. Deleting'
    BY <1>1, <1>5 DEF Deleting
  <1>7. ErasedSoFar' /\ Resting' /\ Saving'
    BY <1>1, <1>3 DEF ErasedSoFar, Resting, Saving
  <1> QED BY <1>4, <1>6, <1>7 DEF EeInv

LEMMA BlanksAre ==
  /\ Blanks \in Seq(0 .. EeMax) /\ Len(Blanks) = KV_SIZE
  /\ \A i \in 1 .. KV_SIZE : Blanks[i] = EeMax
  <1>1. KV_SIZE \in Nat /\ EeMax \in 0 .. EeMax
    BY Sizes
  <1> DEFINE B == 0 .. EeMax
  <1> HIDE DEF B
  <1>2. EeMax \in B
    BY <1>1 DEF B
  <1>3. Blanks \in Seq(B) /\ Len(Blanks) = KV_SIZE /\ \A i \in 1 .. KV_SIZE : Blanks[i] = EeMax
    BY <1>1, <1>2 DEF Blanks
  <1> QED BY <1>3 DEF B

LEMMA EraseHolds ==
  ASSUME EeInv, EraseStore
  PROVE  EeInv'
  <1> DEFINE call == [op |-> "erase"]
  <1>1. /\ doing = NoCall /\ doing' = call /\ todo' = At(0, Blanks) /\ before' = Reads
        /\ status' = "OK" /\ ee' = ee /\ sure' = sure
    BY DEF EraseStore, Call, Blanks
  <1>2. call \in Abstract!Calls /\ call # NoCall /\ call.op = "erase"
    BY DEF Abstract!Calls, NoCall
  <1> HIDE DEF call
  <1>3. todo' = Left(0, Blanks, 0) /\ todo' \in Seq(Cells)
    <2>1. 0 \in Nat /\ 0 + Len(Blanks) <= KV_SIZE /\ 0 \in 0 .. Len(Blanks)
      BY BlanksAre, Sizes
    <2>2. At(0, Blanks) = Left(0, Blanks, 0)
      BY <2>1, BlanksAre, LeftSteps
    <2>3. Left(0, Blanks, 0) \in Seq(Cells)
      BY <2>1, BlanksAre, LeftCells DEF Cells
    <2> QED BY <1>1, <2>2, <2>3
  <1>4. EeTyped'
    <2>1. before' = [k \in EeKeys |-> before'[k]]
      BY <1>1 DEF Reads
    <2> QED BY <1>1, <1>2, <1>3, <2>1 DEF EeInv, EeTyped
  <1>5. ErasedSoFar'
    <2>1. Blanks' = Blanks /\ 0 \in 0 .. KV_SIZE /\ \A o \in 0 .. 0 - 1 : ee'[o] = EeMax
      BY Sizes DEF Blanks
    <2> QED BY <1>1, <1>3, <2>1 DEF ErasedSoFar
  <1>6. Resting' /\ Deleting' /\ Saving'
    BY <1>1, <1>2 DEF Resting, Deleting, Saving
  <1> QED BY <1>4, <1>5, <1>6 DEF EeInv

-----------------------------------------------------------------------------
(* A byte is written, whole or by halves.                                  *)

LEMMA PutTyped ==
  ASSUME EeInv, todo # <<>>, NEW b \in 0 .. EeMax, ee' = [ee EXCEPT ![todo[1][1]] = b]
  PROVE  /\ todo[1][1] \in 0 .. KV_SIZE - 1 /\ todo[1][2] \in 0 .. EeMax
         /\ Tail(todo) \in Seq(Cells) /\ ee' \in Mem /\ IsPut(ee', ee, todo[1][1], b)
  <1>1. todo[1] \in Cells /\ Tail(todo) \in Seq(Cells) /\ ee \in Mem
    BY HeadTail DEF EeInv, EeTyped
  <1>2. todo[1][1] \in 0 .. KV_SIZE - 1 /\ todo[1][2] \in 0 .. EeMax
    BY <1>1 DEF Cells
  <1> QED BY <1>1, <1>2, PutIs

(* Where the bytes of a record with a value of len bytes go, if it fits.   *)
LEMMA Inside ==
  ASSUME NEW e \in Nat, NEW len \in Nat, e + 6 + len <= KV_SIZE
  PROVE  /\ \A n : n = 6 + len => e + n <= KV_SIZE
         /\ \A j \in 0 .. 6 + len : j # 6 + len => e + j \in 0 .. KV_SIZE - 1
  BY Sizes

(* A call that has a record to mark has writes left.                       *)
LEMMA MarkHead ==
  ASSUME ee \in Mem, NEW S, NEW e, NEW rest \in Seq(Cells), ToMark(S, e, rest)
  PROVE  /\ todo # <<>> /\ Tail(todo) = rest
         /\ \E r \in S \ {e} : Lives(ee, doing.key, r) /\ todo[1] = <<r + 3, KV_DELETED>>
  <1>1. PICK r \in S \ {e} : Lives(ee, doing.key, r) /\ todo = <<<<r + 3, KV_DELETED>>>> \o rest
    BY DEF ToMark
  <1>2. <<r + 3, KV_DELETED>> \in Cells
    <2>1. r \in Nat /\ Holds(ee, r)
      BY Starts DEF ToMark, Laid, Chain
    <2> QED BY <2>1, Sizes DEF Holds, Cells
  <1> QED BY <1>1, <1>2, Cons

(* The bytes of a record that fits go to cells of the EEPROM.              *)
LEMMA RecCells ==
  ASSUME doing.key \in EeKeys, doing.value \in EeValues
  PROVE  /\ Rec \in Seq(0 .. EeMax) /\ Len(Rec) = 6 + Len(doing.value)
         /\ Len(doing.value) \in 1 .. EeMax
         /\ \A e \in Nat : Fits(e) => Left(e, Rec, 0) \in Seq(Cells)
  <1>1. /\ Rec \in Seq(0 .. EeMax) /\ Len(Rec) = 6 + Len(doing.value)
        /\ Len(doing.value) \in 1 .. EeMax
    BY RecordBytes DEF Rec
  <1>2. ASSUME NEW e \in Nat, Fits(e)
        PROVE  Left(e, Rec, 0) \in Seq(Cells)
    <2>0. PICK len \in 1 .. EeMax : len = Len(doing.value)
      BY <1>1
    <2>2. PICK rec \in Seq(0 .. EeMax) : rec = Rec /\ Len(rec) = 6 + len
      BY <1>1, <2>0
    <2>3. e + 6 + len <= KV_SIZE
      BY <1>2, <2>0, Sizes DEF Fits
    <2>4. len \in Nat
      BY <2>0, Sizes
    <2>1. e + Len(Rec) <= KV_SIZE
      <3>1. e + Len(rec) <= KV_SIZE
        BY <2>2, <2>3, <2>4, Inside
      <3> QED BY <2>2, <3>1
    <2> QED BY <1>1, <2>1, LeftCells DEF Cells
  <1> QED BY <1>1, <1>2

(* With anything but valid in the place of the mark, the old record is     *)
(* gone and the others read as before.                                     *)
LEMMA MarkStep ==
  ASSUME EeInv, NEW S, NEW e, Others(S, e), NEW rest \in Seq(Cells), ToMark(S, e, rest),
         doing.key \in EeKeys,
         NEW b, b = todo[1][2] \/ b = EeMax, ee' = [ee EXCEPT ![todo[1][1]] = b]
  PROVE  /\ todo # <<>> /\ Tail(todo) = rest
         /\ Laid(ee', S, e) /\ Gone(ee', S, e, doing.key)
         /\ \A k \in EeKeys \ {doing.key} : Says(ee', S, e, k, before[k])
  <1>2. Laid(ee, S, e) /\ ee \in Mem
    BY DEF ToMark, EeInv, EeTyped
  <1>1. /\ todo # <<>> /\ Tail(todo) = rest
        /\ \E r \in S \ {e} : Lives(ee, doing.key, r) /\ todo[1] = <<r + 3, KV_DELETED>>
    BY <1>2, MarkHead
  <1>4. PICK r \in S \ {e} : Lives(ee, doing.key, r) /\ todo[1] = <<r + 3, KV_DELETED>>
    BY <1>1
  <1>10. b \in 0 .. EeMax /\ b # KV_VALID
    BY <1>4, Sizes
  <1>5. ee' \in Mem /\ IsMarked(ee', ee, r, b)
    <2>1. todo[1][1] = r + 3 /\ todo[1][2] = KV_DELETED
      BY <1>4
    <2>2. ee' \in Mem /\ IsPut(ee', ee, todo[1][1], b)
      BY <1>1, <1>10, PutTyped
    <2> QED BY <2>1, <2>2 DEF IsMarked
  <1>9. PICK n \in Mem : n = ee' /\ IsMarked(n, ee, r, b)
    BY <1>5
  <1>6. PICK key \in EeKeys : key = doing.key /\ Lives(ee, key, r)
    BY <1>4
  <1>7. /\ Laid(n, S, e) /\ Gone(n, S, e, key)
        /\ \A k \in EeKeys \ {key} : \A x : Says(n, S, e, k, x) <=> Says(ee, S, e, k, x)
    <2>1. Laid(n, S, e)
      BY <1>2, <1>6, <1>9, <1>10, MarkLaid
    <2>2. Gone(n, S, e, key)
      BY <1>2, <1>6, <1>9, <1>10, MarkLaid
    <2>3. \A k \in EeKeys \ {key} : \A x : Says(n, S, e, k, x) <=> Says(ee, S, e, k, x)
      BY <1>2, <1>6, <1>9, <1>10, MarkLaid
    <2> QED BY <2>1, <2>2, <2>3
  <1>8. \A k \in EeKeys \ {key} : Says(n, S, e, k, before[k])
    BY <1>6, <1>7 DEF Others
  <1> QED BY <1>1, <1>6, <1>7, <1>8, <1>9

(* One more byte of the new record.                                        *)
LEMMA AppendStep ==
  ASSUME EeInv, NEW S, NEW e, Others(S, e), Writing(S, e), Fits(e),
         doing.key \in EeKeys, doing.value \in EeValues, Put
  PROVE  Others(S, e)' /\ Writing(S, e)'
  <1>1. /\ todo # <<>> /\ todo' = Tail(todo) /\ ee' = [ee EXCEPT ![todo[1][1]] = todo[1][2]]
        /\ doing' = doing /\ before' = before
    BY DEF Put
  <1>2. PICK j \in 0 .. KV_HDR + Len(doing.value) :
          Appended(ee, e, Rec, j) /\ todo = Left(e, Rec, j)
    BY DEF Writing
  <1>3. /\ Rec \in Seq(0 .. EeMax) /\ Len(Rec) = 6 + Len(doing.value)
        /\ Len(doing.value) \in 1 .. EeMax
    BY RecCells
  <1>4. ee \in Mem /\ Chain(ee, S, e) /\ One(ee, S, e) /\ Gone(ee, S, e, doing.key)
    BY DEF EeInv, EeTyped, Writing
  <1>5. e \in Nat
    BY <1>4, Starts
  <1> HIDE DEF Rec
  <1>6. /\ j # Len(Rec) /\ todo[1] = <<e + j, Rec[j + 1]>> /\ todo' = Left(e, Rec, j + 1)
    <2>1. j \in 0 .. Len(Rec)
      BY <1>2, <1>3, Sizes
    <2> QED BY <1>1, <1>2, <1>3, <1>5, <2>1, LeftSteps
  <1>7. ee' \in Mem /\ IsPut(ee', ee, e + j, Rec[j + 1])
    <2>1. Rec[j + 1] \in 0 .. EeMax
      <3>1. PICK len \in 1 .. EeMax : len = Len(doing.value)
        BY <1>3
      <3>2. j + 1 \in 1 .. 6 + len
        BY <1>2, <1>3, <1>6, <3>1, Sizes
      <3>3. PICK i \in 1 .. Len(Rec) : i = j + 1
        BY <1>3, <3>1, <3>2
      <3> QED BY <1>3, <3>3, Elements
    <2>2. todo[1][1] = e + j /\ todo[1][2] = Rec[j + 1]
      BY <1>6
    <2> HIDE DEF Put
    <2>3. e + j \in 0 .. KV_SIZE - 1
      <3>1. PICK len \in 1 .. EeMax : len = Len(doing.value)
        BY <1>3
      <3>2. j \in 0 .. 6 + len /\ j # 6 + len /\ e + 6 + len <= KV_SIZE
        BY <1>2, <1>3, <1>6, <3>1, Sizes DEF Fits
      <3>3. len \in Nat
        BY <3>1, Sizes
      <3> QED BY <1>5, <3>2, <3>3, Inside
    <2>4. ee' = [ee EXCEPT ![e + j] = Rec[j + 1]]
      BY <1>1, <2>2
    <2> QED BY <1>4, <2>1, <2>3, <2>4, PutIs
  <1>8. \A o \in Nat : o < e => Get(ee', o) = Get(ee, o)
    BY <1>2, <1>5, <1>7 DEF IsPut
  <1>9. /\ Chain(ee', S, e) /\ One(ee', S, e) /\ Gone(ee', S, e, doing.key)
        /\ \A k, x : Says(ee', S, e, k, x) <=> Says(ee, S, e, k, x)
    BY <1>4, <1>7, <1>8, BelowSame
  <1>10. Appended(ee', e, Rec, j + 1)
    <2>1. ASSUME NEW o \in Nat, e <= o
          PROVE  Get(ee', o) = IF o - e < j + 1 THEN Rec[o - e + 1] ELSE EeMax
      <3>1. Get(ee', o) = IF o = e + j THEN Rec[j + 1] ELSE Get(ee, o)
        BY <1>7 DEF IsPut
      <3>2. Get(ee, o) = IF o - e < j THEN Rec[o - e + 1] ELSE EeMax
        BY <1>2, <2>1 DEF Appended
      <3>3. CASE o = e + j
        <4>1. o - e = j
          BY <1>2, <1>5, <3>3
        <4> QED BY <1>2, <3>1, <3>3, <4>1
      <3>4. CASE o # e + j
        BY <1>2, <1>5, <3>1, <3>2, <3>4
      <3> QED BY <3>3, <3>4
    <2> QED BY <2>1 DEF Appended
  <1>11. Others(S, e)'
    BY <1>1, <1>9 DEF Others
  <1>12. Rec' = Rec
    BY <1>1 DEF Rec
  <1>13. j + 1 \in 0 .. KV_HDR + Len(doing.value)
    <2>1. PICK len \in 1 .. EeMax : len = Len(doing.value)
      BY <1>3
    <2>2. j \in 0 .. 6 + len /\ j # 6 + len
      BY <1>2, <1>3, <1>6, <2>1, Sizes
    <2> QED BY <2>1, <2>2, Sizes
  <1>14. Writing(S, e)'
    BY <1>1, <1>6, <1>9, <1>10, <1>12, <1>13 DEF Writing
  <1> QED BY <1>11, <1>14

LEMMA ErasePut ==
  ASSUME EeInv, doing.op = "erase", Put
  PROVE  ErasedSoFar'
  <1>1. /\ todo # <<>> /\ todo' = Tail(todo) /\ ee' = [ee EXCEPT ![todo[1][1]] = todo[1][2]]
        /\ doing' = doing /\ status' = status
    BY DEF Put
  <1>2. PICK j \in 0 .. KV_SIZE :
          todo = Left(0, Blanks, j) /\ \A o \in 0 .. j - 1 : ee[o] = EeMax
    BY DEF EeInv, ErasedSoFar
  <1>3. j # KV_SIZE /\ todo[1] = <<0 + j, Blanks[j + 1]>> /\ todo' = Left(0, Blanks, j + 1)
    BY <1>1, <1>2, BlanksAre, LeftSteps
  <1>4. j + 1 \in 1 .. KV_SIZE /\ Blanks[j + 1] = EeMax
    BY <1>2, <1>3, BlanksAre, Sizes
  <1>5. todo[1][1] = j /\ todo[1][2] = EeMax
    BY <1>2, <1>3, <1>4
  <1>6. ee \in Mem
    BY DEF EeInv, EeTyped
  <1>7. \A o \in 0 .. (j + 1) - 1 : ee'[o] = EeMax
    BY <1>1, <1>2, <1>4, <1>5, <1>6, Sizes DEF Mem
  <1>8. Blanks' = Blanks
    BY DEF Blanks
  <1>9. status' = "OK"
    BY <1>1 DEF EeInv, ErasedSoFar
  <1> QED BY <1>3, <1>4, <1>7, <1>8, <1>9 DEF ErasedSoFar

LEMMA PutHolds ==
  ASSUME EeInv, Put
  PROVE  EeInv'
  <1>1. /\ todo # <<>> /\ todo' = Tail(todo) /\ ee' = [ee EXCEPT ![todo[1][1]] = todo[1][2]]
        /\ doing' = doing /\ before' = before /\ status' = status /\ sure' = sure
    BY DEF Put
  <1>2. EeTyped'
    <2>1. todo[1] \in Cells
      BY <1>1, HeadTail DEF EeInv, EeTyped
    <2>2. todo[1][2] \in 0 .. EeMax
      BY <2>1 DEF Cells
    <2>3. todo' \in Seq(Cells) /\ ee' \in Mem
      BY <1>1, <2>2, PutTyped
    <2> QED BY <1>1, <2>3 DEF EeInv, EeTyped
  <1>3. doing # NoCall
    BY <1>1 DEF EeInv, EeTyped
  <1>4. doing \in Abstract!Calls
    BY DEF EeInv, EeTyped
  <1>5. CASE doing.op = "erase"
    <2>1. ErasedSoFar'
      BY <1>5, ErasePut
    <2>2. Resting' /\ Deleting' /\ Saving'
      BY <1>1, <1>3, <1>5 DEF Resting, Deleting, Saving
    <2> QED BY <1>2, <2>1, <2>2 DEF EeInv
  <1>6. CASE doing.op = "delete" /\ doing.key \in EeKeys
    <2>1. ASSUME sure
          PROVE  Deleting'
      <3>1. PICK S, e :
              /\ Others(S, e)
              /\ \/ status = "OK" /\ ToMark(S, e, <<>>)
                 \/ NothingLeft(S, e)
        BY <1>6, <2>1 DEF EeInv, Deleting
      <3>2. status = "OK" /\ ToMark(S, e, <<>>)
        BY <1>1, <3>1 DEF NothingLeft
      <3>3. /\ Tail(todo) = <<>> /\ Laid(ee', S, e) /\ Gone(ee', S, e, doing.key)
            /\ \A k \in EeKeys \ {doing.key} : Says(ee', S, e, k, before[k])
        <4>1. <<>> \in Seq(Cells)
          OBVIOUS
        <4> QED BY <1>1, <1>6, <3>1, <3>2, <4>1, MarkStep
      <3>4. Others(S, e)' /\ NothingLeft(S, e)' /\ status' = "OK"
        BY <1>1, <3>2, <3>3 DEF Others, NothingLeft
      <3> QED BY <3>4 DEF Deleting
    <2>2. Deleting' /\ ErasedSoFar' /\ Resting' /\ Saving'
      BY <1>1, <1>3, <1>6, <2>1 DEF Deleting, ErasedSoFar, Resting, Saving
    <2> QED BY <1>2, <2>2 DEF EeInv
  <1>7. CASE doing.op = "save" /\ doing.key \in EeKeys /\ doing.value \in EeValues
    <2>1. ASSUME sure
          PROVE  Saving'
      <3>1. PICK S, e :
              /\ Others(S, e)
              /\ \/ status = "ERR" /\ (ToMark(S, e, <<>>) \/ NothingLeft(S, e))
                 \/ status = "OK" /\ Fits(e) /\ (ToMark(S, e, Left(e, Rec, 0)) \/ Writing(S, e))
        BY <1>7, <2>1 DEF EeInv, Saving
      <3>2. Rec' = Rec /\ (Fits(e)' <=> Fits(e))
        BY <1>1 DEF Rec, Fits
      <3>3. CASE status = "ERR" /\ ToMark(S, e, <<>>)
        <4>1. <<>> \in Seq(Cells)
          OBVIOUS
        <4>2. /\ Tail(todo) = <<>> /\ Laid(ee', S, e) /\ Gone(ee', S, e, doing.key)
              /\ \A k \in EeKeys \ {doing.key} : Says(ee', S, e, k, before[k])
          BY <1>1, <1>7, <3>1, <3>3, <4>1, MarkStep
        <4>3. Others(S, e)' /\ NothingLeft(S, e)' /\ status' = "ERR"
          BY <1>1, <3>3, <4>2 DEF Others, NothingLeft
        <4> QED BY <4>3 DEF Saving
      <3>4. CASE status = "OK" /\ Fits(e) /\ ToMark(S, e, Left(e, Rec, 0))
        <4>1. Left(e, Rec, 0) \in Seq(Cells)
          <5>1. e \in Nat
            BY <3>4, Starts DEF ToMark, Laid
          <5> QED BY <1>7, <3>4, <5>1, RecCells
        <4>2. /\ Tail(todo) = Left(e, Rec, 0) /\ Laid(ee', S, e) /\ Gone(ee', S, e, doing.key)
              /\ \A k \in EeKeys \ {doing.key} : Says(ee', S, e, k, before[k])
          BY <1>1, <1>7, <3>1, <3>4, <4>1, MarkStep
        <4>3. Appended(ee', e, Rec, 0)
          <5>1. e \in Nat
            BY <4>2, Starts DEF Laid
          <5> QED BY <4>2, <5>1 DEF Laid, Blank, Appended
        <4>4. 0 \in 0 .. KV_HDR + Len(doing.value)
          BY <1>7, RecordBytes, Sizes
        <4>5. Writing(S, e)'
          BY <1>1, <3>2, <4>2, <4>3, <4>4 DEF Writing, Laid
        <4>6. Others(S, e)'
          BY <1>1, <4>2 DEF Others
        <4> QED BY <1>1, <3>2, <3>4, <4>5, <4>6 DEF Saving
      <3>5. CASE status = "OK" /\ Fits(e) /\ Writing(S, e)
        BY <1>1, <1>7, <3>1, <3>2, <3>5, AppendStep DEF Saving
      <3>6. ~NothingLeft(S, e)
        BY <1>1 DEF NothingLeft
      <3> QED BY <3>1, <3>3, <3>4, <3>5, <3>6
    <2>2. Saving' /\ ErasedSoFar' /\ Resting' /\ Deleting'
      BY <1>1, <1>3, <1>7, <2>1 DEF Deleting, ErasedSoFar, Resting, Saving
    <2> QED BY <1>2, <2>2 DEF EeInv
  <1> QED BY <1>3, <1>4, <1>5, <1>6, <1>7, Kinds

-----------------------------------------------------------------------------
(* A call ends, or a power cut ends it.                                    *)

(* While a save or a delete is under way, its key reads as before, as      *)
(* nothing or as the new value; with no write left it is what the status   *)
(* says.                                                                   *)
LEMMA UnderWay ==
  ASSUME EeInv, sure, doing.op \in {"save", "delete"}
  PROVE  \E S, e, x :
           /\ Laid(ee, S, e) /\ Others(S, e) /\ Says(ee, S, e, doing.key, x)
           /\ x \in {before[doing.key], Missing} \/ (doing.op = "save" /\ x = doing.value)
           /\ todo = <<>> =>
                \/ /\ status = "OK"
                   /\ x = IF doing.op = "save" THEN doing.value ELSE Missing
                \/ /\ status = "ERR" /\ x = Missing
                   /\ doing.op = "delete" => before[doing.key] = Missing
  <1>1. ee \in Mem /\ doing \in Abstract!Calls
    BY DEF EeInv, EeTyped
  <1>2. CASE doing.op = "delete"
    <2>1. PICK S, e :
            /\ Others(S, e)
            /\ \/ status = "OK" /\ ToMark(S, e, <<>>)
               \/ status = "OK" /\ NothingLeft(S, e)
               \/ status = "ERR" /\ NothingLeft(S, e) /\ before[doing.key] = Missing
      BY <1>2 DEF EeInv, Deleting
    <2>2. CASE ToMark(S, e, <<>>)
      <3>1. <<>> \in Seq(Cells)
        OBVIOUS
      <3>2. todo # <<>>
        BY <1>1, <2>2, <3>1, MarkHead
      <3>3. Laid(ee, S, e) /\ Says(ee, S, e, doing.key, before[doing.key])
        BY <2>2 DEF ToMark
      <3> QED BY <2>1, <3>2, <3>3
    <2>3. CASE NothingLeft(S, e)
      <3>1. Laid(ee, S, e) /\ Says(ee, S, e, doing.key, Missing)
        BY <2>3 DEF NothingLeft, Says
      <3>2. status = "OK" \/ (status = "ERR" /\ before[doing.key] = Missing)
        BY <2>1
      <3> QED BY <1>2, <2>1, <3>1, <3>2
    <2> QED BY <2>1, <2>2, <2>3
  <1>3. CASE doing.op = "save"
    <2>0. doing.key \in EeKeys /\ doing.value \in EeValues
      BY <1>1, <1>3, Kinds
    <2>1. PICK S, e :
            /\ Others(S, e)
            /\ \/ status = "ERR" /\ (ToMark(S, e, <<>>) \/ NothingLeft(S, e))
               \/ status = "OK" /\ Fits(e) /\ (ToMark(S, e, Left(e, Rec, 0)) \/ Writing(S, e))
      BY <1>3 DEF EeInv, Saving
    <2>2. ASSUME NEW rest \in Seq(Cells), ToMark(S, e, rest)
          PROVE  /\ todo # <<>> /\ Laid(ee, S, e)
                 /\ Says(ee, S, e, doing.key, before[doing.key])
      <3>1. todo # <<>>
        BY <1>1, <2>2, MarkHead
      <3> QED BY <2>2, <3>1 DEF ToMark
    <2>3. CASE status = "ERR" /\ ToMark(S, e, <<>>)
      <3>1. <<>> \in Seq(Cells)
        OBVIOUS
      <3>2. /\ todo # <<>> /\ Laid(ee, S, e)
            /\ Says(ee, S, e, doing.key, before[doing.key])
        BY <2>2, <2>3, <3>1
      <3> QED BY <2>1, <3>2
    <2>4. CASE status = "OK" /\ Fits(e) /\ ToMark(S, e, Left(e, Rec, 0))
      <3>1. Left(e, Rec, 0) \in Seq(Cells)
        <4>1. e \in Nat
          BY <2>4, Starts DEF ToMark, Laid
        <4> QED BY <2>0, <2>4, <4>1, RecCells
      <3>2. /\ todo # <<>> /\ Laid(ee, S, e)
            /\ Says(ee, S, e, doing.key, before[doing.key])
        BY <2>2, <2>4, <3>1
      <3> QED BY <2>1, <3>2
    <2>5. CASE status = "ERR" /\ NothingLeft(S, e)
      <3>1. Laid(ee, S, e) /\ Says(ee, S, e, doing.key, Missing)
        BY <2>5 DEF NothingLeft, Says
      <3> QED BY <1>3, <2>1, <2>5, <3>1
    <2>6. CASE status = "OK" /\ Fits(e) /\ Writing(S, e)
      <3>1. PICK j \in 0 .. KV_HDR + Len(doing.value) :
              Appended(ee, e, Rec, j) /\ todo = Left(e, Rec, j)
        BY <2>6 DEF Writing
      <3>2. Chain(ee, S, e) /\ One(ee, S, e) /\ Gone(ee, S, e, doing.key)
        BY <2>6 DEF Writing
      <3>3. PICK key \in EeKeys, v \in EeValues : key = doing.key /\ v = doing.value
        BY <2>0
      <3>4. PICK T, f :
              /\ Laid(ee, T, f)
              /\ \A k \in EeKeys \ {key} : \A x : Says(ee, S, e, k, x) => Says(ee, T, f, k, x)
              /\ \/ Says(ee, T, f, key, Missing) /\ j # KV_HDR + Len(v)
                 \/ Says(ee, T, f, key, v)
        <4>1. e + KV_HDR + Len(v) <= KV_SIZE /\ Appended(ee, e, Record(key, v), j)
          BY <2>6, <3>1, <3>3 DEF Fits, Rec
        <4> QED BY <1>1, <3>1, <3>2, <3>3, <4>1, AppendLaid
      <3>5. Others(T, f)
        BY <2>1, <3>3, <3>4 DEF Others
      <3>6. todo = <<>> => j = KV_HDR + Len(v)
        <4>1. e \in Nat
          BY <3>2, Starts
        <4>2. j \in 0 .. Len(Rec) /\ Rec \in Seq(0 .. EeMax) /\ Len(Rec) = 6 + Len(v)
          BY <2>0, <3>1, <3>3, RecCells, Sizes
        <4>3. Left(e, Rec, j) = <<>> <=> j = Len(Rec)
          BY <4>1, <4>2, LeftSteps
        <4> QED BY <3>1, <4>2, <4>3, Sizes
      <3>7. CASE Says(ee, T, f, key, Missing) /\ j # KV_HDR + Len(v)
        BY <3>3, <3>4, <3>5, <3>6, <3>7
      <3>8. CASE Says(ee, T, f, key, v)
        BY <1>3, <2>6, <3>3, <3>4, <3>5, <3>8
      <3> QED BY <3>4, <3>7, <3>8
    <2> QED BY <2>1, <2>3, <2>4, <2>5, <2>6
  <1> QED BY <1>2, <1>3

(* An erase that has nothing left to write has wiped everything.           *)
LEMMA ErasedAll ==
  ASSUME EeInv, doing.op = "erase", todo = <<>>
  PROVE  /\ status = "OK" /\ Laid(ee, {0}, 0)
         /\ [k \in EeKeys |-> ReadIn(ee, k)] = [k \in EeKeys |-> Missing]
  <1>1. PICK j \in 0 .. KV_SIZE :
          todo = Left(0, Blanks, j) /\ \A o \in 0 .. j - 1 : ee[o] = EeMax
    BY DEF EeInv, ErasedSoFar
  <1>2. j = KV_SIZE
    BY <1>1, BlanksAre, LeftSteps
  <1>3. ee \in Mem /\ status = "OK"
    BY DEF EeInv, EeTyped, ErasedSoFar
  <1>4. Laid(ee, {0}, 0) /\ \A k \in EeKeys : ReadIn(ee, k) = Missing
    BY <1>1, <1>2, <1>3, EmptyLaid
  <1> QED BY <1>3, <1>4

(* The byte of a new record that a power cut spoils was erased before.     *)
LEMMA TornAppend ==
  ASSUME EeInv, NEW S, NEW e, Writing(S, e), doing.key \in EeKeys, doing.value \in EeValues,
         todo # <<>>
  PROVE  [ee EXCEPT ![todo[1][1]] = EeMax] = ee
  <1>1. PICK j \in 0 .. KV_HDR + Len(doing.value) :
          Appended(ee, e, Rec, j) /\ todo = Left(e, Rec, j)
    BY DEF Writing
  <1>2. /\ Rec \in Seq(0 .. EeMax) /\ Len(Rec) = 6 + Len(doing.value)
        /\ Len(doing.value) \in 1 .. EeMax
    BY RecCells
  <1>3. e \in Nat /\ ee \in Mem /\ todo[1] \in Cells
    <2>1. e \in Nat
      BY Starts DEF Writing
    <2> QED BY <2>1, HeadTail DEF EeInv, EeTyped
  <1>4. todo[1] = <<e + j, Rec[j + 1]>>
    <2>1. j \in 0 .. Len(Rec)
      BY <1>1, <1>2, Sizes
    <2> HIDE DEF Rec
    <2> QED BY <1>1, <1>2, <1>3, <2>1, LeftSteps
  <1>5. todo[1][1] = e + j /\ todo[1][1] \in 0 .. KV_SIZE - 1
    BY <1>3, <1>4 DEF Cells
  <1>6. Get(ee, e + j) = EeMax
    <2>1. PICK o \in Nat : o = e + j
      BY <1>1, <1>2, <1>3, Sizes
    <2>2. e <= o /\ ~(o - e < j)
      BY <1>1, <1>2, <1>3, <2>1, Sizes
    <2> QED BY <1>1, <2>1, <2>2 DEF Appended
  <1>7. ee[todo[1][1]] = EeMax
    BY <1>5, <1>6, Sizes DEF Get
  <1> QED BY <1>3, <1>7 DEF Mem

LEMMA CutLaid ==
  ASSUME EeInv, Cut, sure, doing.op \in {"save", "delete"}
  PROVE  \E S, e, x :
           /\ Laid(ee', S, e) /\ Says(ee', S, e, doing.key, x)
           /\ \A k \in EeKeys \ {doing.key} : Says(ee', S, e, k, before[k])
           /\ x \in {before[doing.key], Missing} \/ (doing.op = "save" /\ x = doing.value)
  <1>1. \/ ee' = ee
        \/ todo # <<>> /\ ee' = [ee EXCEPT ![todo[1][1]] = EeMax]
    BY DEF Cut
  <1>2. CASE ee' = ee
    BY <1>2, UnderWay DEF Others
  <1>3. CASE todo # <<>> /\ ee' = [ee EXCEPT ![todo[1][1]] = EeMax]
    <2>1. doing.key \in EeKeys /\ (doing.op = "save" => doing.value \in EeValues)
      BY Kinds DEF EeInv, EeTyped
    <2>2. PICK S, e :
            /\ Others(S, e)
            /\ \/ \E rest \in Seq(Cells) : ToMark(S, e, rest)
               \/ doing.op = "save" /\ Writing(S, e)
      <3>1. <<>> \in Seq(Cells)
        OBVIOUS
      <3>2. CASE doing.op = "delete"
        BY <1>3, <3>1, <3>2 DEF EeInv, Deleting, NothingLeft
      <3>3. CASE doing.op = "save"
        <4>1. PICK S, e :
                /\ Others(S, e)
                /\ \/ ToMark(S, e, <<>>) \/ NothingLeft(S, e)
                   \/ Fits(e) /\ (ToMark(S, e, Left(e, Rec, 0)) \/ Writing(S, e))
          BY <3>3 DEF EeInv, Saving
        <4>2. ~NothingLeft(S, e)
          BY <1>3 DEF NothingLeft
        <4>3. Fits(e) /\ ToMark(S, e, Left(e, Rec, 0)) => Left(e, Rec, 0) \in Seq(Cells)
          <5>1. ToMark(S, e, Left(e, Rec, 0)) => e \in Nat
            BY Starts DEF ToMark, Laid
          <5> QED BY <2>1, <3>3, <5>1, RecCells
        <4> QED BY <3>1, <3>3, <4>1, <4>2, <4>3
      <3> QED BY <3>2, <3>3
    <2>3. CASE \E rest \in Seq(Cells) : ToMark(S, e, rest)
      <3>1. PICK rest \in Seq(Cells) : ToMark(S, e, rest)
        BY <2>3
      <3>2. /\ Laid(ee', S, e) /\ Gone(ee', S, e, doing.key)
            /\ \A k \in EeKeys \ {doing.key} : Says(ee', S, e, k, before[k])
        BY <1>3, <2>1, <2>2, <3>1, MarkStep
      <3>3. Says(ee', S, e, doing.key, Missing)
        BY <3>2 DEF Says
      <3> QED BY <3>2, <3>3
    <2>4. CASE doing.op = "save" /\ Writing(S, e)
      <3>1. ee' = ee
        BY <1>3, <2>1, <2>4, TornAppend
      <3> QED BY <3>1, UnderWay DEF Others
    <2> QED BY <2>2, <2>3, <2>4
  <1> QED BY <1>1, <1>2, <1>3

LEMMA EndsHolds ==
  ASSUME EeInv, Ends
  PROVE  EeInv'
  <1>1. /\ doing # NoCall /\ todo = <<>> /\ doing' = NoCall /\ ee' = ee /\ todo' = todo
        /\ before' = before /\ sure' = (sure \/ doing.op = "erase")
    BY DEF Ends
  <1>2. \/ doing.op = "erase" \/ doing.op \in {"save", "delete"}
    BY <1>1, Kinds DEF EeInv, EeTyped
  <1>3. EeTyped'
    <2>1. doing' \in Abstract!Calls
      BY <1>1 DEF Abstract!Calls, Abstract!Idle, NoCall
    <2>2. sure' \in BOOLEAN
      BY <1>1
    <2> QED BY <1>1, <2>1, <2>2 DEF EeInv, EeTyped
  <1>4. sure' => \E S, e : Laid(ee, S, e)
    <2>1. CASE doing.op = "erase"
      BY <1>1, <2>1, ErasedAll
    <2>2. CASE doing.op # "erase"
      BY <1>1, <1>2, <2>2, UnderWay
    <2> QED BY <2>1, <2>2
  <1>5. Resting'
    BY <1>1, <1>4 DEF Resting
  <1>6. ErasedSoFar' /\ Deleting' /\ Saving'
    BY <1>1 DEF ErasedSoFar, Deleting, Saving, NoCall
  <1> QED BY <1>3, <1>5, <1>6 DEF EeInv

LEMMA CutHolds ==
  ASSUME EeInv, Cut
  PROVE  EeInv'
  <1>1. /\ doing' = NoCall /\ todo' = <<>> /\ before' = before
        /\ sure' = (sure /\ doing.op # "erase")
        /\ \/ ee' = ee
           \/ todo # <<>> /\ ee' = [ee EXCEPT ![todo[1][1]] = EeMax]
    BY DEF Cut
  <1>2. EeTyped'
    <2>1. ee' \in Mem
      <3>1. EeMax \in 0 .. EeMax
        BY Sizes
      <3>2. CASE todo # <<>> /\ ee' = [ee EXCEPT ![todo[1][1]] = EeMax]
        BY <3>1, <3>2, PutTyped
      <3> QED BY <1>1, <3>2 DEF EeInv, EeTyped
    <2>2. doing' \in Abstract!Calls /\ todo' \in Seq(Cells)
      BY <1>1 DEF Abstract!Calls, Abstract!Idle, NoCall
    <2>3. sure' \in BOOLEAN
      BY <1>1
    <2> QED BY <1>1, <2>1, <2>2, <2>3 DEF EeInv, EeTyped
  <1>3. Resting'
    <2>1. SUFFICES ASSUME sure, doing.op # "erase"
                   PROVE  \E S, e : Laid(ee', S, e)
      BY <1>1 DEF Resting
    <2>2. CASE doing = NoCall
      <3>1. ee' = ee
        BY <1>1, <2>2 DEF EeInv, EeTyped
      <3> QED BY <2>1, <2>2, <3>1 DEF EeInv, Resting
    <2>3. CASE doing # NoCall
      <3>1. doing.op \in {"save", "delete"}
        BY <2>1, <2>3, Kinds DEF EeInv, EeTyped
      <3> QED BY <2>1, <3>1, CutLaid
    <2> QED BY <2>2, <2>3
  <1>4. ErasedSoFar' /\ Deleting' /\ Saving'
    BY <1>1 DEF ErasedSoFar, Deleting, Saving, NoCall
  <1> QED BY <1>2, <1>3, <1>4 DEF EeInv

LEMMA StillHolds ==
  ASSUME EeInv, UNCHANGED eevars
  PROVE  EeInv'
  <1>1. /\ ee' = ee /\ todo' = todo /\ status' = status /\ doing' = doing
        /\ before' = before /\ sure' = sure
    BY DEF eevars
  <1>3. ErasedSoFar' /\ EeTyped' /\ Resting'
    BY <1>1 DEF EeInv, ErasedSoFar, EeTyped, Resting, Blanks
  <1>4. Deleting'
    BY <1>1 DEF EeInv, Deleting, Others, NothingLeft, ToMark
  <1>5. Saving'
    <2>1. Rec' = Rec
      BY <1>1 DEF Rec
    <2>2. \A S, e : /\ (Others(S, e)' <=> Others(S, e)) /\ (NothingLeft(S, e)' <=> NothingLeft(S, e))
                   /\ (Fits(e)' <=> Fits(e))
      BY <1>1 DEF Others, NothingLeft, Fits
    <2>3. \A S, e : Writing(S, e)' <=> Writing(S, e)
      BY <1>1, <2>1 DEF Writing
    <2> QED BY <1>1, <2>1, <2>2, <2>3 DEF EeInv, Saving, ToMark
  <1> QED BY <1>3, <1>4, <1>5 DEF EeInv

LEMMA NextHolds ==
  ASSUME EeInv, [EeNext]_eevars
  PROVE  EeInv'
  <1>1. ASSUME NEW k \in EeKeys, NEW v \in EeValues, Save(k, v)
        PROVE  EeInv'
    BY <1>1, SaveHolds
  <1>2. ASSUME NEW k \in EeKeys, Delete(k)
        PROVE  EeInv'
    BY <1>2, DeleteHolds
  <1>3. CASE EraseStore
    BY <1>3, EraseHolds
  <1>4. CASE Put
    BY <1>4, PutHolds
  <1>5. CASE Ends
    BY <1>5, EndsHolds
  <1>6. CASE Cut
    BY <1>6, CutHolds
  <1>7. CASE UNCHANGED eevars
    BY <1>7, StillHolds
  <1> QED BY <1>1, <1>2, <1>3, <1>4, <1>5, <1>6, <1>7 DEF EeNext

(* Whatever is called, written and cut, the EEPROM holds whole records, and *)
(* the writes left to a call lead from what was read before it to what the *)
(* call promises.                                                          *)
THEOREM EeInvariant == EeSpec => []EeInv
  <1>1. EeInit => EeInv
    BY EeInitHolds
  <1>2. EeInv /\ [EeNext]_eevars => EeInv'
    BY NextHolds
  <1> QED BY <1>1, <1>2, PTL DEF EeSpec

-----------------------------------------------------------------------------
(* The refinement: every step of the driver is a step of the store, or     *)
(* leaves it alone.                                                        *)

\* what stands for the store of KVStore
Stored == IF doing = NoCall THEN Reads ELSE before

LEMMA StoredIs ==
  /\ Abstract!kvvars = <<Stored, doing, rc, sure>>
  /\ Abstract!kvvars' = <<Stored', doing', rc', sure'>>
  BY DEF Abstract!kvvars, Stored

LEMMA BeginStep ==
  ASSUME EeInv, doing = NoCall, doing' \in Abstract!Calls, doing' # NoCall, before' = Reads,
         UNCHANGED <<rc, sure>>
  PROVE  Abstract!StoreNext
  <1>1. Stored' = Stored
    BY DEF Stored
  <1>2. sure \in BOOLEAN
    BY DEF EeInv, EeTyped
  <1>3. Abstract!Begin
    BY <1>1 DEF Abstract!Begin, Abstract!Idle, NoCall, Stored
  <1> QED BY <1>2, <1>3 DEF Abstract!StoreNext

LEMMA EndsStep ==
  ASSUME EeInv, Ends
  PROVE  Abstract!StoreNext
  <1>1. /\ doing # NoCall /\ todo = <<>> /\ doing' = NoCall /\ ee' = ee
        /\ rc' = status /\ sure' = (sure \/ doing.op = "erase")
    BY DEF Ends
  <1>2. Stored = before /\ Stored' = [k \in EeKeys |-> ReadIn(ee, k)]
    BY <1>1, ReadsIn DEF Stored
  <1>3. ee \in Mem /\ sure \in BOOLEAN /\ before = [k \in EeKeys |-> before[k]]
    BY DEF EeInv, EeTyped
  <1>4. CASE doing.op = "erase"
    <2>1. status = "OK" /\ Stored' = [k \in EeKeys |-> Missing]
      BY <1>1, <1>2, <1>4, ErasedAll
    <2>2. Abstract!EndErase
      BY <1>1, <1>4, <2>1 DEF Abstract!EndErase, Abstract!Idle, NoCall, Stored
    <2> QED BY <2>2 DEF Abstract!StoreNext
  <1>5. CASE doing.op # "erase" /\ ~sure
    BY <1>1, <1>5 DEF Abstract!StoreNext
  <1>6. CASE doing.op # "erase" /\ sure
    <2>1. doing.op \in {"save", "delete"} /\ doing.key \in EeKeys /\ sure' = sure
      BY <1>1, <1>3, <1>6, Kinds DEF EeInv, EeTyped
    <2>2. PICK S, e, x :
            /\ Laid(ee, S, e) /\ Others(S, e) /\ Says(ee, S, e, doing.key, x)
            /\ \/ status = "OK" /\ x = IF doing.op = "save" THEN doing.value ELSE Missing
               \/ /\ status = "ERR" /\ x = Missing
                  /\ doing.op = "delete" => before[doing.key] = Missing
      BY <1>1, <1>6, <2>1, UnderWay
    <2>3. Stored' = [before EXCEPT ![doing.key] = x]
      <3>1. PICK key \in EeKeys : key = doing.key
        BY <2>1
      <3>2. \A k \in EeKeys \ {key} : Says(ee, S, e, k, before[k])
        BY <2>2, <3>1 DEF Others
      <3> QED BY <1>2, <1>3, <2>2, <3>1, <3>2, ReadsChanged
    <2>4. CASE doing.op = "save"
      <3>1. Abstract!EndSave
        BY <1>1, <1>2, <2>1, <2>2, <2>3, <2>4
           DEF Abstract!EndSave, Abstract!Return, Abstract!With, Abstract!Idle, NoCall, Stored
      <3> QED BY <1>6, <3>1 DEF Abstract!StoreNext
    <2>5. CASE doing.op = "delete"
      <3>1. status = "ERR" => before[doing.key] = Missing /\ Stored' = before
        BY <1>3, <2>2, <2>3, <2>5
      <3>2. Abstract!EndDelete
        BY <1>1, <1>2, <2>1, <2>2, <2>3, <2>5, <3>1
           DEF Abstract!EndDelete, Abstract!Return, Abstract!With, Abstract!Idle, NoCall, Stored
      <3> QED BY <1>6, <3>2 DEF Abstract!StoreNext
    <2> QED BY <2>1, <2>4, <2>5
  <1> QED BY <1>3, <1>4, <1>5, <1>6

LEMMA CutStep ==
  ASSUME EeInv, Cut
  PROVE  Abstract!StoreNext
  <1>1. /\ doing' = NoCall /\ rc' = "none" /\ sure' = (sure /\ doing.op # "erase")
        /\ \/ ee' = ee
           \/ todo # <<>> /\ ee' = [ee EXCEPT ![todo[1][1]] = EeMax]
    BY DEF Cut
  <1>2. Stored' = [k \in EeKeys |-> ReadIn(ee', k)] /\ EeInv'
    BY <1>1, ReadsIn, CutHolds DEF Stored
  <1>3. ee' \in Mem /\ sure \in BOOLEAN /\ before = [k \in EeKeys |-> before[k]]
    BY <1>2 DEF EeInv, EeTyped
  <1>4. CASE ~sure
    BY <1>1, <1>4 DEF Abstract!StoreNext
  <1>5. CASE sure /\ doing.op = "erase"
    BY <1>1, <1>5 DEF Abstract!StoreNext, Abstract!Cut
  <1>6. CASE sure /\ doing = NoCall
    <2>1. ee' = ee
      BY <1>1, <1>6 DEF EeInv, EeTyped
    <2>2. Stored' = Stored
      BY <1>2, <1>6, <2>1, ReadsIn DEF Stored
    <2>3. Abstract!Cut
      BY <1>1, <1>6, <2>2 DEF Abstract!Cut, Abstract!Return, Abstract!Idle, NoCall, Stored
    <2> QED BY <1>6, <2>3 DEF Abstract!StoreNext
  <1>7. CASE sure /\ doing # NoCall /\ doing.op # "erase"
    <2>1. doing.op \in {"save", "delete"} /\ doing.key \in EeKeys /\ sure' = sure
      BY <1>1, <1>7, Kinds DEF EeInv, EeTyped
    <2>2. PICK S, e, x :
            /\ Laid(ee', S, e) /\ Says(ee', S, e, doing.key, x)
            /\ \A k \in EeKeys \ {doing.key} : Says(ee', S, e, k, before[k])
            /\ x \in {before[doing.key], Missing} \/ (doing.op = "save" /\ x = doing.value)
      BY <1>7, <2>1, CutLaid
    <2>3. Stored = before /\ Stored' = [before EXCEPT ![doing.key] = x]
      <3>1. PICK key \in EeKeys : key = doing.key
        BY <2>1
      <3>2. PICK m \in Mem : m = ee'
        BY <1>3
      <3>3. /\ Laid(m, S, e) /\ Says(m, S, e, key, x)
            /\ \A k \in EeKeys \ {key} : Says(m, S, e, k, before[k])
        BY <2>2, <3>1, <3>2
      <3>4. [k \in EeKeys |-> ReadIn(m, k)] = [before EXCEPT ![key] = x]
        BY <1>3, <3>3, ReadsChanged
      <3>5. Stored = before
        BY <1>7 DEF Stored
      <3> QED BY <1>2, <3>1, <3>2, <3>4, <3>5
    <2>4. x = before[doing.key] => Stored' = Stored
      BY <1>3, <2>1, <2>3
    <2>5. Abstract!Cut
      BY <1>1, <2>1, <2>2, <2>3, <2>4
         DEF Abstract!Cut, Abstract!Return, Abstract!With, Abstract!Idle, NoCall, Stored
    <2> QED BY <1>7, <2>5 DEF Abstract!StoreNext
  <1> QED BY <1>3, <1>4, <1>5, <1>6, <1>7

LEMMA NextStep ==
  ASSUME EeInv, [EeNext]_eevars
  PROVE  [Abstract!StoreNext]_(Abstract!kvvars)
  <1>1. ASSUME NEW k \in EeKeys, NEW v \in EeValues, Save(k, v)
        PROVE  Abstract!StoreNext
    <2>1. /\ doing = NoCall /\ doing' = [op |-> "save", key |-> k, value |-> v]
          /\ before' = Reads /\ UNCHANGED <<rc, sure>>
      BY <1>1 DEF Save, Call
    <2>2. doing' \in Abstract!Calls /\ doing' # NoCall
      BY <2>1 DEF Abstract!Calls, NoCall
    <2> QED BY <2>1, <2>2, BeginStep
  <1>2. ASSUME NEW k \in EeKeys, Delete(k)
        PROVE  Abstract!StoreNext
    <2>1. /\ doing = NoCall /\ doing' = [op |-> "delete", key |-> k]
          /\ before' = Reads /\ UNCHANGED <<rc, sure>>
      BY <1>2 DEF Delete, Call
    <2>2. doing' \in Abstract!Calls /\ doing' # NoCall
      BY <2>1 DEF Abstract!Calls, NoCall
    <2> QED BY <2>1, <2>2, BeginStep
  <1>3. CASE EraseStore
    <2>1. /\ doing = NoCall /\ doing' = [op |-> "erase"]
          /\ before' = Reads /\ UNCHANGED <<rc, sure>>
      BY <1>3 DEF EraseStore, Call
    <2>2. doing' \in Abstract!Calls /\ doing' # NoCall
      BY <2>1 DEF Abstract!Calls, NoCall
    <2> QED BY <2>1, <2>2, BeginStep
  <1>4. CASE Put
    <2>1. doing # NoCall /\ UNCHANGED <<doing, before, rc, sure>>
      BY <1>4 DEF Put, EeInv, EeTyped
    <2>2. Stored' = Stored
      BY <2>1 DEF Stored
    <2> QED BY <2>1, <2>2, StoredIs
  <1>5. CASE Ends
    BY <1>5, EndsStep
  <1>6. CASE Cut
    BY <1>6, CutStep
  <1>7. CASE UNCHANGED eevars
    <2>1. UNCHANGED <<ee, doing, before, rc, sure>>
      BY <1>7 DEF eevars
    <2>2. Stored' = Stored
      BY <2>1, ReadsIn DEF Stored
    <2> QED BY <2>1, <2>2, StoredIs
  <1> QED BY <1>1, <1>2, <1>3, <1>4, <1>5, <1>6, <1>7 DEF EeNext

LEMMA InitStep ==
  ASSUME EeInit
  PROVE  Abstract!StoreInit
  <1>1. ee \in Mem /\ \A o \in 0 .. KV_SIZE - 1 : ee[o] = EeMax
    BY Sizes DEF EeInit, Mem
  <1>2. \A k \in EeKeys : ReadIn(ee, k) = Missing
    BY <1>1, EmptyLaid
  <1>3. Stored = [k \in EeKeys |-> Missing]
    BY <1>2, ReadsIn DEF EeInit, Stored
  <1> QED BY <1>3 DEF EeInit, Abstract!StoreInit, Abstract!Idle, NoCall, Stored

(* The EEPROM driver is the key/value store that hal_flash.h promises,     *)
(* through power cuts at any byte, for values the check byte protects: a   *)
(* call that reports success has done what it says, and one that fails or  *)
(* is cut changes no key but its own.                                      *)
THEOREM BytesAreStore == EeSpec => ImplementsStore
  <1>1. EeInit => Abstract!StoreInit
    BY InitStep
  <1>2. EeInv /\ [EeNext]_eevars => [Abstract!StoreNext]_(Abstract!kvvars)
    BY NextStep
  <1> QED BY <1>1, <1>2, EeInvariant, PTL DEF EeSpec, ImplementsStore, Abstract!StoreSpec

=============================================================================
