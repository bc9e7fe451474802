------------------------------ MODULE EepromKV ------------------------------
(***************************************************************************)
(* The key/value store of the AVR port, src/vendor/microchip/flash/flash.c: *)
(* records packed from the start of the EEPROM, the first place without    *)
(* the magic byte ending them.  Every byte is one write, a power cut falls *)
(* between any two, and the byte being written may be left erased.         *)
(*                                                                         *)
(* A call works out what it will write from what it reads before its first *)
(* write that matters to it, so its writes are a list made when it begins. *)
(***************************************************************************)
EXTENDS Naturals, Sequences

CONSTANTS
  EeMax,      \* UINT8_MAX, and an erased byte
  KV_MAGIC,
  KV_SIZE,
  EeKeys, EeValues,
  ByteXor(_, _),  \* exclusive or of two bytes
  MaxEeCalls, MaxEeCuts   \* bounds on calls and power cuts

KV_HDR == 6
KV_VALID == 1
KV_DELETED == 0
Missing == <<>>   \* any status of a read but HAL_OK

ASSUME EepromConstants ==
  /\ EeMax \in Nat /\ EeMax > 1 /\ KV_MAGIC \in 0 .. EeMax - 1
  /\ EeKeys \subseteq 0 .. EeMax /\ KV_SIZE \in Nat
  /\ \A v \in EeValues : v \in Seq(0 .. EeMax) /\ Len(v) \in 1 .. EeMax
  /\ \A a, b \in 0 .. EeMax : ByteXor(a, b) \in 0 .. EeMax

VARIABLES
  ee,                     \* the EEPROM
  todo, status, doing,    \* writes left, status and arguments of the call
  rc, before,             \* the last call's status; what each key read before
  sure,                   \* FALSE after a cut erase
  ee_calls, ee_cuts

eevars == <<ee, todo, status, doing, rc, before, sure, ee_calls, ee_cuts>>

ee_get(off) == IF off < KV_SIZE THEN ee[off] ELSE EeMax

\* kv_find's and kv_end's walk: the record at off is stepped over unless found
\* says it is the one looked for.
Walk(found(_)) ==
  LET from[off \in 0 .. KV_SIZE + KV_HDR + EeMax] ==
        IF off + KV_HDR > KV_SIZE \/ ee_get(off) # KV_MAGIC \/ found(off) THEN off
        ELSE from[off + KV_HDR + ee_get(off + 2)]
  IN  from[0]

kv_end == Walk(LAMBDA off : FALSE)

Live(key, off) == ee_get(off + 1) = key /\ ee_get(off + 3) = KV_VALID
Held(off) == off + KV_HDR <= KV_SIZE /\ ee_get(off) = KV_MAGIC

\* The offset in a set of its own, empty for 0xFFFF.
kv_find(key) ==
  LET off == Walk(LAMBDA o : Live(key, o)) IN IF Held(off) THEN {off} ELSE {}

kv_crc(v) == LET xor[i \in 0 .. Len(v)] == IF i = 0 THEN 0 ELSE ByteXor(xor[i - 1], v[i]) IN xor[Len(v)]

\* A value of which a power cut left only the first n bytes.  The store is what
\* hal_flash.h promises only for values whose check byte tells them from that,
\* also while the check byte itself is still erased.
Torn(v, n) == [i \in 1 .. Len(v) |-> IF i <= n THEN v[i] ELSE EeMax]
ASSUME TornIsSeen ==
  \A v \in EeValues : \A n \in 0 .. Len(v) :
    /\ kv_crc(Torn(v, n)) = kv_crc(v) => Torn(v, n) = v
    /\ n = 0 /\ kv_crc(Torn(v, n)) = EeMax => Torn(v, n) = v

avr_flash_read(key) ==
  LET of(off) == [i \in 1 .. ee_get(off + 2) |-> ee_get(off + KV_HDR + i - 1)]
      good == {off \in kv_find(key) : kv_crc(of(off)) = ee_get(off + 5)}
  IN  IF good = {} THEN Missing ELSE of(CHOOSE off \in good : TRUE)

Reads == [k \in EeKeys |-> avr_flash_read(k)]

-----------------------------------------------------------------------------
(* Calls.                                                                  *)

NoCall == [op |-> "none"]

Call(c, writes, result) ==
  /\ doing = NoCall /\ ee_calls < MaxEeCalls /\ ee_calls' = ee_calls + 1
  /\ doing' = c /\ todo' = writes /\ status' = result /\ before' = Reads
  /\ UNCHANGED <<ee, rc, sure, ee_cuts>>

At(off, data) == [i \in 1 .. Len(data) |-> <<off + i - 1, data[i]>>]

Supersede(key) ==
  IF kv_find(key) = {} THEN <<>>
  ELSE <<<<(CHOOSE off \in kv_find(key) : TRUE) + 3, KV_DELETED>>>>

Record(key, v) == <<KV_MAGIC, key, Len(v), KV_VALID, 0, kv_crc(v)>> \o v

\* Mutant: the new record goes in front of the mark.
SaveUnmarked(key, v) ==
  LET fits == kv_end + KV_HDR + Len(v) <= KV_SIZE IN
  Call([op |-> "save", key |-> key, value |-> v],
       IF fits THEN At(kv_end, Record(key, v)) ELSE <<>>, IF fits THEN "OK" ELSE "ERR")

\* avr_flash_save: the old record goes before the room is known.
Save(key, v) ==
  LET fits == kv_end + KV_HDR + Len(v) <= KV_SIZE IN
  Call([op |-> "save", key |-> key, value |-> v],
       Supersede(key) \o (IF fits THEN At(kv_end, Record(key, v)) ELSE <<>>),
       IF fits THEN "OK" ELSE "ERR")

\* avr_flash_delete.
Delete(key) ==
  Call([op |-> "delete", key |-> key], Supersede(key),
       IF kv_find(key) = {} THEN "ERR" ELSE "OK")

\* avr_flash_erase.
EraseStore == Call([op |-> "erase"], At(0, [i \in 1 .. KV_SIZE |-> EeMax]), "OK")

\* ee_put; eeprom_update_byte skips a byte that is right already.
Put ==
  /\ todo # <<>> /\ todo' = Tail(todo)
  /\ ee' = [ee EXCEPT ![todo[1][1]] = todo[1][2]]
  /\ UNCHANGED <<status, doing, rc, before, sure, ee_calls, ee_cuts>>

Ends ==
  /\ doing # NoCall /\ todo = <<>> /\ doing' = NoCall /\ rc' = status
  /\ sure' = (sure \/ doing.op = "erase")
  /\ UNCHANGED <<ee, todo, status, before, ee_calls, ee_cuts>>

\* External: a power cut.
Cut ==
  /\ ee_cuts < MaxEeCuts /\ ee_cuts' = ee_cuts + 1
  /\ \/ ee' = ee
     \/ todo # <<>> /\ ee[todo[1][1]] # todo[1][2] /\ ee' = [ee EXCEPT ![todo[1][1]] = EeMax]
  /\ doing' = NoCall /\ todo' = <<>> /\ rc' = "none" /\ sure' = (sure /\ doing.op # "erase")
  /\ UNCHANGED <<status, before, ee_calls>>

-----------------------------------------------------------------------------
EeInit ==
  /\ ee = [off \in 0 .. KV_SIZE - 1 |-> EeMax] /\ todo = <<>> /\ doing = NoCall
  /\ status = "none" /\ rc = "none" /\ before = Reads /\ sure = TRUE
  /\ ee_calls = 0 /\ ee_cuts = 0

EeNext ==
  \/ \E k \in EeKeys : (\E v \in EeValues : Save(k, v)) \/ Delete(k)
  \/ EraseStore \/ Put \/ Ends \/ Cut

EeSpec == EeInit /\ [][EeNext]_eevars

-----------------------------------------------------------------------------
\* The bytes in the EEPROM are the store of hal_flash.h: between calls it holds
\* what reads give, and during one what they gave before it.
Abstract == INSTANCE KVStore WITH
  Keys <- EeKeys, Values <- EeValues, Absent <- Missing,
  store <- IF doing = NoCall THEN Reads ELSE before

ImplementsStore == Abstract!StoreSpec
=============================================================================
