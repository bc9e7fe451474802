------------------------------ MODULE KVStore -------------------------------
(***************************************************************************)
(* What include/common/hal_flash.h promises of the key/value store: a map  *)
(* from keys to values, changed by calls.  A call that returns HAL_OK has  *)
(* done what it says; one that a power cut ends has done it, or nothing,   *)
(* or has lost the key it was about, and no other key.  A save that finds  *)
(* no room has lost the value it was to supersede.  A store whose erase    *)
(* was cut promises nothing until an erase has run to its end.             *)
(***************************************************************************)
CONSTANTS Keys, Values, Absent

VARIABLES store,  \* what a read of each key gives, Absent for an error
          doing,  \* the call under way
          rc,     \* what the last call returned
          sure    \* FALSE from a cut erase to the next whole one

kvvars == <<store, doing, rc, sure>>

Idle == [op |-> "none"]
Calls == {Idle, [op |-> "erase"]}
           \union [op : {"save"}, key : Keys, value : Values]
           \union [op : {"delete"}, key : Keys]

StoreInit == store = [k \in Keys |-> Absent] /\ doing = Idle /\ rc = "none" /\ sure = TRUE

Begin == doing = Idle /\ doing' \in Calls /\ UNCHANGED <<store, rc, sure>>

Return(status, s) == doing' = Idle /\ rc' = status /\ store' = s /\ sure' = sure

With(k, v) == [store EXCEPT ![k] = v]

EndSave ==
  /\ doing.op = "save"
  /\ Return("OK", With(doing.key, doing.value)) \/ Return("ERR", With(doing.key, Absent))

EndDelete ==
  /\ doing.op = "delete"
  /\ \/ Return("OK", With(doing.key, Absent))
     \/ store[doing.key] = Absent /\ Return("ERR", store)

EndErase ==
  /\ doing.op = "erase" /\ doing' = Idle /\ rc' = "OK"
  /\ store' = [k \in Keys |-> Absent] /\ sure' = TRUE

Cut ==
  \/ doing.op \in {"none", "delete"} /\ Return("none", store)
  \/ doing.op \in {"save", "delete"} /\ Return("none", With(doing.key, Absent))
  \/ doing.op = "save" /\ Return("none", store)
  \/ doing.op = "save" /\ Return("none", With(doing.key, doing.value))
  \/ doing.op = "erase" /\ sure' = FALSE

StoreNext ==
  \/ EndErase
  \/ sure /\ (Begin \/ EndSave \/ EndDelete \/ Cut)
  \/ ~sure /\ sure' = FALSE

StoreSpec == StoreInit /\ [][StoreNext]_kvvars
=============================================================================
