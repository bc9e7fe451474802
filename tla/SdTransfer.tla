----------------------------- MODULE SdTransfer -----------------------------
(***************************************************************************)
(* Block transfers by DMA on the SD card, src/vendor/stm32/sdio/sdio.c:    *)
(* the four *_async calls, hal_sdio_wait_sync, and the two interrupts that *)
(* meet to end a transfer, the controller's and the DMA stream's.          *)
(*                                                                         *)
(* An unmasked interrupt is taken before the thread's next step; the data  *)
(* moves, ends or fails at any time, or never.  The thread waits for every *)
(* transfer it starts, as src/vendor/stm32/sdio/diskio.c does.             *)
(***************************************************************************)
EXTENDS Naturals

Dirs == {"rx", "tx"}   \* DMA2 streams 3 and 6
Ops == [write : BOOLEAN, multi : BOOLEAN]

VARIABLES
  spc, op, result,                \* the thread; its transfer; the last status
  sd_busy, dma_done, sdio_done, is_multi_block, sd_last_was_write, sd_last_error,
  irqs, sta, dpsm, cmdrend,       \* MASK, data flags of STA, DTEN, CMDREND
  sden, tcif,                     \* each stream: EN, a completion not served
  primask,                        \* the caller waits with interrupts masked
  card,                           \* the card's state
  moved, ended, calls,            \* the transfer's DMA, its data path, callbacks
  answered, unheard, busied       \* the command was answered; one was not since
                                  \* the card was last ready; a call was refused

flagv == <<sd_busy, dma_done, sdio_done, is_multi_block, sd_last_was_write, sd_last_error>>
regs == <<irqs, sta, dpsm, cmdrend>>
dmav == <<sden, tcif>>
truth == <<moved, ended, calls, answered, unheard, busied>>
sdvars == <<spc, op, result, flagv, regs, dmav, primask, card, truth>>

SdInit ==
  /\ spc = "idle" /\ op = [write |-> FALSE, multi |-> FALSE] /\ result = "none"
  /\ sd_busy = FALSE /\ dma_done = FALSE /\ sdio_done = FALSE
  /\ is_multi_block = FALSE /\ sd_last_was_write = FALSE /\ sd_last_error = "OK"
  /\ irqs = FALSE /\ sta = {} /\ dpsm = FALSE /\ cmdrend = FALSE
  /\ sden = [d \in Dirs |-> FALSE] /\ tcif = {} /\ primask = FALSE
  /\ card = "tran" /\ moved = FALSE /\ ended = "no" /\ calls = 0
  /\ answered = FALSE /\ unheard = FALSE /\ busied = FALSE

Dir == IF op.write THEN "tx" ELSE "rx"

\* The thread runs when no interrupt it lets in is pending.
Thread(at) == spc = at /\ (primask \/ (tcif = {} /\ ~(irqs /\ sta # {})))

Return(status) == spc' = "idle" /\ result' = status /\ primask' = FALSE

-----------------------------------------------------------------------------
(* The card and the controller (external).                                 *)

SdMoved ==
  /\ sden[Dir] /\ ~moved /\ (dpsm \/ ended # "no")
  /\ IF op.write THEN card = "rcv" ELSE card = "data" \/ ended # "no"
  /\ sden' = [sden EXCEPT ![Dir] = FALSE] /\ tcif' = tcif \union {Dir} /\ moved' = TRUE
  /\ UNCHANGED <<spc, op, result, flagv, regs, primask, card, ended, calls, answered, unheard,
                 busied>>

SdEnded ==
  /\ dpsm /\ card = (IF op.write THEN "rcv" ELSE "data") /\ (op.write => moved)
  /\ dpsm' = FALSE /\ sta' = sta \union {"DATAEND"} /\ ended' = "well"
  /\ card' = IF op.multi THEN card ELSE IF op.write THEN "prg" ELSE "tran"
  /\ UNCHANGED <<spc, op, result, flagv, irqs, cmdrend, dmav, primask, moved, calls, answered,
                 unheard, busied>>

\* A wrong CRC, a time-out, an overrun or an underrun.
SdFailed ==
  /\ dpsm /\ dpsm' = FALSE /\ sta' = sta \union {"ERR"} /\ ended' = "badly"
  /\ card' \in IF op.multi THEN {card} ELSE {card, "tran"}
  /\ UNCHANGED <<spc, op, result, flagv, irqs, cmdrend, dmav, primask, moved, calls, answered,
                 unheard, busied>>

\* The card has programmed what it took, or sent its one block to nobody.
CardReady ==
  /\ card = "prg" \/ (card = "data" /\ ~op.multi /\ ~dpsm)
  /\ card' = "tran"
  /\ UNCHANGED <<spc, op, result, flagv, regs, dmav, primask, truth>>

\* CMD12: out of the data states, and answered or not.
StopCard ==
  \E heard \in BOOLEAN, taken \in BOOLEAN :
    /\ heard => taken
    /\ card' = IF ~taken THEN card ELSE CASE card = "data" -> "tran" [] card = "rcv" -> "prg"
                                          [] OTHER -> card
    /\ cmdrend' = heard /\ unheard' = (unheard \/ ~heard)

-----------------------------------------------------------------------------
(* The interrupts.                                                         *)

Callback(ends) ==
  IF ends THEN sd_busy' = FALSE /\ calls' = calls + 1 ELSE UNCHANGED <<sd_busy, calls>>

\* Mutant: the end of the data is taken for the end of the transfer.
SdioIrqAlone ==
  /\ ~primask /\ irqs /\ sta # {}
  /\ irqs' = FALSE /\ sta' = {} /\ dpsm' = FALSE /\ sdio_done' = TRUE
  /\ sd_last_error' = IF "ERR" \in sta THEN "ERR" ELSE "OK"
  /\ Callback(TRUE)
  /\ UNCHANGED <<spc, op, result, dma_done, is_multi_block, sd_last_was_write, cmdrend, dmav,
                 primask, card, moved, ended, answered, unheard, busied>>

\* SDIO_IRQHandler.
SdioIrq ==
  /\ ~primask /\ irqs /\ sta # {}
  /\ irqs' = FALSE /\ sta' = {} /\ dpsm' = FALSE /\ sdio_done' = TRUE
  /\ sd_last_error' = IF "ERR" \in sta THEN "ERR" ELSE "OK"
  /\ Callback(dma_done \/ "ERR" \in sta)
  /\ UNCHANGED <<spc, op, result, dma_done, is_multi_block, sd_last_was_write, cmdrend, dmav,
                 primask, card, moved, ended, answered, unheard, busied>>

\* _sdio_dma_rx_irq_handler and _sdio_dma_tx_irq_handler.
SdDmaIrq(d) ==
  /\ ~primask /\ d \in tcif /\ tcif' = tcif \ {d}
  /\ dma_done' = TRUE /\ Callback(sdio_done \/ sd_last_error # "OK")
  /\ UNCHANGED <<spc, op, result, sdio_done, is_multi_block, sd_last_was_write, sd_last_error,
                 regs, sden, primask, card, moved, ended, answered, unheard, busied>>

-----------------------------------------------------------------------------
(* The *_async calls.                                                      *)

Begin(o) ==
  /\ Thread("idle") /\ ~sd_busy
  /\ spc' = "ready" /\ op' = o /\ sd_last_was_write' = o.write /\ busied' = FALSE
  /\ moved' = FALSE /\ ended' = "no" /\ calls' = 0
  /\ UNCHANGED <<result, sd_busy, dma_done, sdio_done, is_multi_block, sd_last_error, regs, dmav,
                 primask, card, answered, unheard>>

\* HAL_SDIO_BUSY: hal_sdio_read_blocks_async has cleared the flag by then.
Refused(o) ==
  /\ Thread("started") /\ sd_busy /\ busied' = TRUE
  /\ sd_last_was_write' = (sd_last_was_write /\ (o.write \/ ~o.multi))
  /\ UNCHANGED <<spc, op, result, sd_busy, dma_done, sdio_done, is_multi_block, sd_last_error,
                 regs, dmav, primask, card, moved, ended, calls, answered, unheard>>

\* sdio_wait_card_ready, and hal_dma_init of the stream.
CardIsReady ==
  /\ Thread("ready") /\ card = "tran" /\ unheard' = FALSE
  /\ sta' = {} /\ cmdrend' = FALSE /\ sden' = [sden EXCEPT ![Dir] = FALSE]
  /\ spc' = IF op.write /\ op.multi THEN "command" ELSE "arm"
  /\ UNCHANGED <<op, result, flagv, irqs, dpsm, tcif, primask, card, moved, ended, calls,
                 answered, busied>>

CardNotReady ==
  /\ Thread("ready") /\ Return("TIMEOUT")
  /\ UNCHANGED <<op, flagv, regs, dmav, card, truth>>

\* The rendezvous and the interrupts, before what can set them off.
Arm ==
  /\ Thread("arm")
  /\ dma_done' = FALSE /\ sdio_done' = FALSE /\ is_multi_block' = op.multi
  /\ sd_last_error' = "OK" /\ sd_busy' = TRUE /\ irqs' = TRUE
  /\ spc' = "trigger"
  /\ UNCHANGED <<op, result, sd_last_was_write, sta, dpsm, cmdrend, dmav, primask, card, truth>>

\* DTEN, and the stream but for a write of one block.
Trigger ==
  /\ Thread("trigger") /\ dpsm' = TRUE
  /\ sden' = [sden EXCEPT ![Dir] = ~op.write \/ op.multi]
  /\ spc' = IF op.write /\ op.multi THEN "started" ELSE "command"
  /\ UNCHANGED <<op, result, flagv, irqs, sta, cmdrend, tcif, primask, card, truth>>

\* hal_sdio_send_command up to its poll.  The card may refuse, or not be heard.
Command ==
  /\ Thread("command") /\ spc' = "poll" /\ sta' = {}
  /\ \E heard \in BOOLEAN, taken \in BOOLEAN :
       /\ cmdrend' = heard /\ answered' = heard /\ unheard' = (unheard \/ ~heard)
       /\ card' = IF ~taken THEN card ELSE IF op.write THEN "rcv" ELSE "data"
  /\ UNCHANGED <<op, result, flagv, irqs, dpsm, dmav, primask, moved, ended, calls, busied>>

\* Mutant: the rendezvous is armed once the command has been answered.
CommandAnsweredArms ==
  /\ Thread("poll") /\ cmdrend
  /\ spc' = IF ~op.write THEN "started" ELSE IF op.multi THEN "arm" ELSE "start"
  /\ dma_done' = FALSE /\ sdio_done' = FALSE /\ sd_busy' = TRUE /\ irqs' = TRUE
  /\ UNCHANGED <<op, result, is_multi_block, sd_last_was_write, sd_last_error, sta, dpsm, cmdrend,
                 dmav, primask, card, truth>>

CommandAnswered ==
  /\ Thread("poll") /\ cmdrend
  /\ spc' = IF ~op.write THEN "started" ELSE IF op.multi THEN "arm" ELSE "start"
  /\ UNCHANGED <<op, result, flagv, regs, dmav, primask, card, truth>>

CommandFails ==
  /\ Thread("poll") /\ ~cmdrend /\ Return("ERROR")
  /\ sden' = [sden EXCEPT ![Dir] = FALSE]
  /\ IF op.write /\ op.multi THEN UNCHANGED <<irqs, dpsm, sd_busy>>
     ELSE irqs' = FALSE /\ dpsm' = FALSE /\ sd_busy' = FALSE
  /\ is_multi_block' = (is_multi_block /\ op.write)
  /\ UNCHANGED <<op, dma_done, sdio_done, sd_last_was_write, sd_last_error, sta, cmdrend, tcif,
                 card, truth>>

\* The stream of a write of one block.
StartDma ==
  /\ Thread("start") /\ spc' = "started" /\ sden' = [sden EXCEPT ![Dir] = TRUE]
  /\ UNCHANGED <<op, result, flagv, regs, tcif, primask, card, truth>>

-----------------------------------------------------------------------------
(* hal_sdio_wait_sync.                                                     *)

WaitSync ==
  /\ Thread("started") /\ spc' = "wait" /\ primask' \in BOOLEAN
  /\ UNCHANGED <<op, result, flagv, regs, dmav, card, truth>>

WaitOver ==
  /\ Thread("wait") /\ ~sd_busy /\ spc' = "close"
  /\ UNCHANGED <<op, result, flagv, regs, dmav, primask, card, truth>>

\* The deadline has passed, on a clock that may have jumped or while another
\* task ran, or the spins ran out; and sd_busy is still set.
Wedged ==
  /\ Thread("wait") /\ sd_busy /\ spc' = "teardown"
  /\ UNCHANGED <<op, result, flagv, regs, dmav, primask, card, truth>>

Teardown ==
  /\ Thread("teardown") /\ spc' = "abort"
  /\ irqs' = FALSE /\ sta' = {} /\ dpsm' = FALSE /\ StopCard
  /\ UNCHANGED <<op, result, flagv, dmav, primask, moved, ended, calls, answered, busied>>

Abort ==
  /\ Thread("abort") /\ Return("TIMEOUT")
  /\ is_multi_block' = FALSE /\ dma_done' = FALSE /\ sdio_done' = FALSE /\ sd_busy' = FALSE
  /\ sd_last_error' = "TIMEOUT"
  /\ UNCHANGED <<op, sd_last_was_write, regs, dmav, card, truth>>

CloseMulti ==
  /\ Thread("close") /\ sd_last_error = "OK" /\ is_multi_block /\ StopCard /\ sta' = {}
  /\ is_multi_block' = ~cmdrend'
  /\ IF cmdrend' THEN spc' = "close" /\ UNCHANGED <<result, primask>> ELSE Return("ERROR")
  /\ UNCHANGED <<op, sd_busy, dma_done, sdio_done, sd_last_was_write, sd_last_error, irqs, dpsm,
                 dmav, moved, ended, calls, answered, busied>>

CloseWell ==
  /\ Thread("close") /\ sd_last_error = "OK" /\ ~is_multi_block
  /\ IF sd_last_was_write THEN spc' = "programming" /\ UNCHANGED <<result, primask>>
     ELSE Return("OK")
  /\ UNCHANGED <<op, flagv, regs, dmav, card, truth>>

Programmed ==
  /\ Thread("programming")
  /\ (card = "tran" /\ Return("OK")) \/ (~primask /\ Return("TIMEOUT"))
  /\ UNCHANGED <<op, flagv, regs, dmav, card, truth>>

\* Mutant: a transfer that failed is not stopped.
CloseFailedOpen ==
  /\ Thread("close") /\ sd_last_error # "OK" /\ Return(sd_last_error)
  /\ is_multi_block' = FALSE
  /\ UNCHANGED <<op, sd_busy, dma_done, sdio_done, sd_last_was_write, sd_last_error, regs, dmav,
                 card, truth>>

CloseFailed ==
  /\ Thread("close") /\ sd_last_error # "OK" /\ Return(sd_last_error)
  /\ StopCard /\ sta' = {} /\ is_multi_block' = FALSE
  /\ UNCHANGED <<op, sd_busy, dma_done, sdio_done, sd_last_was_write, sd_last_error, irqs, dpsm,
                 dmav, moved, ended, calls, answered, busied>>

-----------------------------------------------------------------------------
SdNext ==
  \/ SdMoved \/ SdEnded \/ SdFailed \/ CardReady
  \/ SdioIrq \/ \E d \in Dirs : SdDmaIrq(d)
  \/ \E o \in Ops : Begin(o) \/ Refused(o)
  \/ CardIsReady \/ CardNotReady \/ Arm \/ Trigger \/ Command \/ CommandAnswered \/ CommandFails
  \/ StartDma \/ WaitSync \/ WaitOver \/ Wedged \/ Teardown \/ Abort
  \/ CloseMulti \/ CloseWell \/ Programmed \/ CloseFailed

SdSpec == SdInit /\ [][SdNext]_sdvars

-----------------------------------------------------------------------------
\* HAL_SDIO_OK from hal_sdio_wait_sync means that the whole transfer is over:
\* the data has ended well on the bus, all of it has passed through the DMA,
\* the callback ran once, and the card has programmed what it was given.  A
\* multi-block read refused meanwhile (busied) drops the last of these.
OkIsDone ==
  spc = "idle" /\ result = "OK" =>
    moved /\ ended = "well" /\ calls = 1 /\ (op.write /\ ~busied => card = "tran")

\* No way out leaves the card in the middle of a transfer, which every later
\* call would run into; a command the card did not answer is the exception.
CardFreed == spc = "idle" /\ ~unheard => card \in {"tran", "prg"}

\* The driver gives a transfer up only when it has to: no interrupt that comes
\* before, between or after the steps of a call loses the completion of a
\* transfer that was to be waited for, or the answer to its command.
GivesUpRightly ==
  [][ /\ Wedged => primask \/ ~moved \/ ended # "well"
      /\ CommandFails => ~answered ]_sdvars
=============================================================================
