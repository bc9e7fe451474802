----------------------------- MODULE MCDrivers ------------------------------
(***************************************************************************)
(* The other drivers for TLC.  Their states do not meet, so one run        *)
(* explores them one at a time: part says which one moves, and the state   *)
(* spaces add up instead of multiplying.  The DMA streams are explored     *)
(* twice, with the UARTs and with the I2C buses as clients, and the timers *)
(* twice, as clocks and as dividers.                                       *)
(***************************************************************************)
EXTENDS DmaStreams, I2cMaster, SdTransfer, Timers, EepromKV, Bitwise

CONSTANT Parts   \* those a run explores

VARIABLE part

ASSUME PartsAssumption ==
  Parts \subseteq {"uart_dma", "i2c_dma", "i2c", "sd", "time", "dividers", "eeprom"}

\* The binding of each client, and those an override may give it.
DefaultBinding == [t1 |-> "s1", t2 |-> "s2", r1 |-> "s3", i1 |-> "s0", i2 |-> "s4"]
Overrides == [t1 |-> {}, t2 |-> {"s1", "s3"}, r1 |-> {}, i1 |-> {"s3"}, i2 |-> {}]

\* Two transmitters on one stream, as USART1 and USART6 are on DMA2 stream 7.
SharedBinding == [DefaultBinding EXCEPT !.t2 = "s1"]
NoOverride == [c \in DOMAIN DefaultBinding |-> {}]

\* A 16-bit timer, a 32-bit one, and two with a table of dividers.
MCChips ==
  [stm16 |-> [top |-> 8, divs |-> <<>>], stm32 |-> [top |-> 64, divs |-> <<>>],
   avr1  |-> [top |-> 8, divs |-> <<1, 4, 16>>], avr2 |-> [top |-> 4, divs |-> <<1, 2, 3>>]]

\* The two values of an EEPROM record: one ends in what its checksum would be.
TwoValues == {<<3, 4>>, <<6, 4>>}

ExclusiveOr(a, b) == a ^^ b

MCInit ==
  /\ part \in Parts
  /\ DmaInit /\ I2cInit /\ SdInit /\ TimersInit /\ EeInit

MCNext ==
  /\ UNCHANGED part
  /\ IF part = "uart_dma" THEN DmaSteps(Tx \union Rx)
     ELSE IF part = "i2c_dma" THEN DmaSteps(Buses)
     ELSE UNCHANGED dmavars
  /\ IF part = "i2c" THEN I2cNext ELSE UNCHANGED i2cvars
  /\ IF part = "sd" THEN SdNext ELSE UNCHANGED sdvars
  /\ IF part = "time" THEN TimebaseNext
     ELSE IF part = "dividers" THEN FrequencyNext
     ELSE UNCHANGED timevars
  /\ IF part = "eeprom" THEN EeNext ELSE UNCHANGED eevars

MCSpec ==
  /\ MCInit /\ [][MCNext]_<<part, dmavars, i2cvars, sdvars, timevars, eevars>>
  /\ DmaFairness
=============================================================================
