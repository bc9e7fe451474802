----------------------------- MODULE I2cMaster ------------------------------
(***************************************************************************)
(* The polled reads of the I2C master, src/vendor/stm32/i2c/i2c.c, against *)
(* a peripheral that goes on by itself: it clocks bytes into its shift     *)
(* register and DR until both are full, and acknowledges each with the ACK *)
(* and POS bits of that moment.  The driver must end the transfer with a   *)
(* NACK of the last byte and a STOP, by writing those bits in time.        *)
(*                                                                         *)
(* A byte is its number in what the device has sent; 0 is an empty         *)
(* register.                                                               *)
(***************************************************************************)
EXTENDS Integers, Sequences

CONSTANTS MaxRead,   \* longest read asked for
          MaxSent    \* bound on the bytes the device sends

ASSUME I2cConstants == MaxRead \in Nat \ {0} /\ MaxSent \in Nat

VARIABLES
  ack, pos, stop,         \* CR1: ACK, POS, and a STOP not generated yet
  dr, shift,              \* the data register and the shift register
  receiving, owned,       \* the device sends; the bus is the master's
  ackwas, clocked,        \* ACK at the end of the last byte; bytes clocked
  nacked,                 \* the last byte was refused
  ipc, iop, want, base,   \* the call: where it is, which, rx_len, first byte
  taken,                  \* rx_data
  late, failed            \* a byte ended out of a wait; a call has failed

bits == <<ack, pos, stop>>
bytes == <<dr, shift, ackwas, clocked, nacked>>
asking == <<iop, want, base>>
i2cvars == <<bits, bytes, receiving, owned, ipc, asking, taken, late, failed>>

I2cInit ==
  /\ ack = FALSE /\ pos = FALSE /\ stop = FALSE /\ ackwas = FALSE
  /\ dr = 0 /\ shift = 0 /\ clocked = 0 /\ nacked = FALSE
  /\ receiving = FALSE /\ owned = FALSE
  /\ ipc = "idle" /\ iop = "read" /\ want = 1 /\ base = 0 /\ taken = <<>>
  /\ late = FALSE /\ failed = FALSE

BTF == dr # 0 /\ shift # 0
RXNE == dr # 0

\* What the driver polls for at each of its waits.
Awaited ==
  [one |-> RXNE, byte |-> RXNE, two |-> BTF, rest |-> BTF,
   many |-> IF Len(taken) < want - 3 THEN RXNE ELSE BTF]
Polling == ipc \in DOMAIN Awaited /\ ~Awaited[ipc]

\* The case whose bits can be written at leisure: the clock stands still while
\* they are.
Long == iop = "write_read" /\ want > 2

-----------------------------------------------------------------------------
(* External: the peripheral.                                               *)

\* A byte comes in.  With POS set ACK is for the byte after it.
ClockByte ==
  /\ receiving /\ shift = 0 /\ clocked < MaxSent
  /\ LET acked == IF pos THEN ackwas ELSE ack IN
       /\ receiving' = (acked /\ ~stop) /\ owned' = ~stop /\ stop' = FALSE
       /\ nacked' = ~acked
  /\ clocked' = clocked + 1 /\ ackwas' = ack
  /\ IF dr = 0 THEN dr' = clocked + 1 /\ shift' = shift
               ELSE shift' = clocked + 1 /\ dr' = dr
  /\ late' = (late \/ (~Polling /\ ~Long))
  /\ UNCHANGED <<ack, pos, ipc, asking, taken, failed>>

\* A STOP waits for the byte under way, if there is one.
SetStop ==
  IF receiving /\ shift = 0
  THEN stop' = TRUE /\ UNCHANGED <<receiving, owned>>
  ELSE stop' = FALSE /\ receiving' = FALSE /\ owned' = FALSE

\* Reading DR lets the shift register's byte in.
ReadDR == taken' = Append(taken, dr) /\ dr' = shift /\ shift' = 0

-----------------------------------------------------------------------------
(* The call up to the address (_i2c_start, _i2c_write_addr and, for a      *)
(* write_read, _i2c_write_data): ADDR is cleared there.                    *)

Addressed(op, n) ==
  /\ ipc = "idle" /\ ~stop
  /\ iop' = op /\ want' = n /\ base' = clocked /\ taken' = <<>>
  /\ receiving' = TRUE /\ owned' = TRUE /\ ackwas' = ack
  /\ ipc' = IF op = "read" THEN "loop" ELSE "acks"
  /\ UNCHANGED <<bits, dr, shift, clocked, nacked, late, failed>>

\* No START: the call returns and the bus stays as it was.  No device, or one
\* that does not take a byte: STOP.
NoStart ==
  /\ ipc = "idle" /\ failed' = TRUE
  /\ UNCHANGED <<bits, bytes, receiving, owned, ipc, asking, taken, late>>

NoDevice ==
  /\ ipc = "idle" /\ failed' = TRUE
  /\ receiving' = FALSE /\ owned' = FALSE /\ stop' = FALSE
  /\ UNCHANGED <<ack, pos, bytes, ipc, asking, taken, late>>

\* hal_i2c_deinit and hal_i2c_init: the software reset.
Reinit ==
  /\ ipc = "idle" /\ (failed \/ late)
  /\ ack' = FALSE /\ pos' = FALSE /\ stop' = FALSE /\ ackwas' = FALSE
  /\ dr' = 0 /\ shift' = 0 /\ receiving' = FALSE /\ owned' = FALSE
  /\ taken' = <<>> /\ late' = FALSE /\ failed' = FALSE
  /\ UNCHANGED <<clocked, nacked, ipc, asking>>

-----------------------------------------------------------------------------
(* The reads.  One step is one access to the peripheral.                   *)

\* Setting or clearing ACK and going on.
SetAck(on, next) ==
  /\ ack' = on /\ ipc' = next
  /\ UNCHANGED <<pos, stop, bytes, receiving, owned, asking, taken, late, failed>>

StopThen(next) ==
  /\ SetStop /\ ipc' = next
  /\ UNCHANGED <<ack, pos, bytes, asking, taken, late, failed>>

\* A wait that ends with one byte read.
TakeOne(next) ==
  /\ Awaited[ipc] /\ ReadDR /\ ipc' = next
  /\ UNCHANGED <<ackwas, clocked, nacked, pos, stop, receiving, owned, asking, late, failed>>

\* The last two bytes, after their STOP.
TakeTwo(acks, posn) ==
  /\ BTF /\ SetStop /\ taken' = taken \o <<dr, shift>> /\ dr' = 0 /\ shift' = 0
  /\ ack' = acks /\ pos' = posn /\ ipc' = "idle"
  /\ UNCHANGED <<ackwas, clocked, nacked, asking, late, failed>>

\* stm32_i2c_write_read after the second address.  Whether an ACK set while the
\* first byte comes in counts for that byte under POS is left open.
Acks ==
  /\ ipc = "acks" /\ ack' = TRUE /\ ackwas' \in {ackwas, TRUE}
  /\ ipc' = IF want = 1 THEN "nack1" ELSE IF want = 2 THEN "nack2" ELSE "many"
  /\ UNCHANGED <<pos, stop, dr, shift, clocked, nacked, receiving, owned, asking, taken, late, failed>>

ReadOne ==
  \/ ipc = "nack1" /\ SetAck(FALSE, "stop1")
  \/ ipc = "stop1" /\ StopThen("one")
  \/ ipc = "one" /\ TakeOne("idle") /\ UNCHANGED ack

ReadTwo ==
  \/ ipc = "nack2" /\ SetAck(FALSE, "pos2")
  \/ /\ ipc = "pos2" /\ pos' = TRUE /\ ipc' = "two"
     /\ UNCHANGED <<ack, stop, bytes, receiving, owned, asking, taken, late, failed>>
  \/ ipc = "two" /\ TakeTwo(ack, FALSE)

\* Mutant: ACK is cleared after the third byte from the end is read.
ReadManyLate ==
  \/ ipc = "many" /\ Len(taken) < want - 3 /\ TakeOne("many") /\ UNCHANGED ack
  \/ ipc = "many" /\ Len(taken) = want - 3 /\ BTF /\ TakeOne("nack") /\ UNCHANGED ack
  \/ ipc = "nack" /\ SetAck(FALSE, "rest")
  \/ ipc = "rest" /\ TakeTwo(TRUE, pos)

ReadMany ==
  \/ ipc = "many" /\ Len(taken) < want - 3 /\ TakeOne("many") /\ UNCHANGED ack
  \/ ipc = "many" /\ Len(taken) = want - 3 /\ BTF /\ SetAck(FALSE, "third")
  \/ ipc = "third" /\ taken' = Append(taken, dr) /\ dr' = shift /\ shift' = 0 /\ ipc' = "rest"
     /\ UNCHANGED <<ackwas, clocked, nacked, bits, receiving, owned, asking, late, failed>>
  \/ ipc = "rest" /\ TakeTwo(TRUE, pos)

\* stm32_i2c_read, at the top of its loop.
Loop ==
  \/ ipc = "loop" /\ Len(taken) < want - 1 /\ SetAck(TRUE, "byte")
  \/ ipc = "loop" /\ Len(taken) = want - 1 /\ SetAck(FALSE, "last")
  \/ ipc = "last" /\ StopThen("byte")
  \/ ipc = "byte" /\ Len(taken) < want - 1 /\ TakeOne("loop") /\ UNCHANGED ack
  \/ ipc = "byte" /\ Len(taken) = want - 1 /\ TakeOne("idle") /\ ack' = TRUE

\* _wait_flag gives up.  Only stm32_i2c_read sets STOP; POS and ACK stay.
TimeOut ==
  /\ Polling /\ ipc' = "idle" /\ failed' = TRUE
  /\ IF iop = "read" THEN SetStop ELSE UNCHANGED <<stop, receiving, owned>>
  /\ UNCHANGED <<ack, pos, bytes, asking, taken, late>>

-----------------------------------------------------------------------------
I2cNext ==
  \/ ClockByte
  \/ \E op \in {"read", "write_read"}, n \in 1 .. MaxRead : Addressed(op, n)
  \/ NoStart \/ NoDevice \/ Reinit
  \/ Acks \/ ReadOne \/ ReadTwo \/ ReadMany \/ Loop \/ TimeOut

I2cSpec == I2cInit /\ [][I2cNext]_i2cvars

-----------------------------------------------------------------------------
Returned == ipc = "idle" /\ taken # <<>> /\ ~failed

\* A read that returns HAL_OK has the bytes the device sent for it, all of
\* them and no others, the device sent no more than was asked for and was told
\* by a NACK which byte was the last, nothing is left in the registers for the
\* next read, and the bus is given back.  A
\* write_read of more than two bytes needs no haste for that; the other reads
\* hold it when no byte ends while the driver is about something else.
ReadExact ==
  Returned /\ ~late =>
    /\ taken = [k \in 1 .. want |-> base + k]
    /\ clocked = base + want /\ nacked /\ dr = 0 /\ shift = 0 /\ ~owned /\ ~stop
=============================================================================
