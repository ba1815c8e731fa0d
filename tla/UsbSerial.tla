----------------------------- MODULE UsbSerial -----------------------------
(***************************************************************************)
(* The USB serial port as a device file, for builds whose CLI is on the    *)
(* UART (CLI_USE_USB = 0): the usb task (services/usb_service.c with the   *)
(* transfers of hardware/rp2040/hw_usb.c), the two queues, and 'cat' and   *)
(* 'echo' of /dev/usb0 (cli/node_dev.c).                                   *)
(*                                                                         *)
(* TinyUSB has a FIFO in each direction and acts inside tud_task: it takes *)
(* a packet when its receive FIFO has room for any packet, that is when it *)
(* is empty.  A byte is NUL or the number of a character; rx_buffer and    *)
(* tx_buffer are the first rx_pos and tx_pos bytes of the arrays.  In      *)
(* usb_iface_t rx_pos follows the array tx_buffer, low byte first; it is   *)
(* below 256.  A wait for room in a queue may end at any moment while the  *)
(* queue is full.                                                          *)
(***************************************************************************)
EXTENDS Naturals, Sequences, SequencesExt, FiniteSetsExt

CONSTANTS
  RX_BUFSIZE,           \* CFG_TUD_CDC_RX_BUFSIZE: FIFO, rx_buffer, queue item, cat's buffer
  TX_BUFSIZE,           \* CFG_TUD_CDC_TX_BUFSIZE: FIFO, tx_buffer, queue item
  USB0_RX_QUEUE_DEPTH, USB0_TX_QUEUE_DEPTH,
  Packets,              \* what the host sends: "c" for a character, "nul"
  BUF_IN_SIZE,          \* the shell's input buffer: no text is longer
  Lengths,              \* of the texts that echo writes
  MaxPackets, MaxTexts, \* bounds: packets, texts,
  MaxInputs             \* and both together

ASSUME UsbConstants ==
  /\ RX_BUFSIZE \in Nat \ {0} /\ TX_BUFSIZE \in Nat \ {0}
  /\ USB0_RX_QUEUE_DEPTH \in Nat \ {0} /\ USB0_TX_QUEUE_DEPTH \in Nat \ {0}
  /\ \A p \in Packets : p \in Seq({"c", "nul"}) /\ Len(p) \in 1 .. RX_BUFSIZE
  /\ BUF_IN_SIZE \in Nat /\ Lengths \subseteq 1 .. BUF_IN_SIZE
  /\ MaxPackets \in Nat /\ MaxTexts \in Nat /\ MaxInputs \in Nat

VARIABLES
  conn,                                \* the host has the port open
  rx_fifo, rx_buffer, usb0_rx_queue,   \* bytes from the host on their way
  usb0_tx_queue, tx_buffer, tx_fifo,   \* bytes to the host
  usb, cli,                            \* where the two tasks are
  usb_rx_data, data,                   \* cat's string, echo's string
  npacket, nin, ntext, nout,           \* packets and texts so far, and their bytes
  shown, host,                         \* history: what cat has shown, the host has got
  overrun, hidden, stray               \* history: see CatGet, Transfer and Fetch

rxVars  == <<rx_fifo, rx_buffer, usb0_rx_queue>>
txVars  == <<usb0_tx_queue, tx_buffer, tx_fifo>>
cliVars == <<cli, usb_rx_data, data, shown>>
counts  == <<npacket, nin, ntext, nout>>
vars    == <<conn, rxVars, txVars, usb, cliVars, counts, host, overrun, hidden, stray>>

NUL == 0
isText(b) == b # NUL
UpToNul(bytes) == LET Nuls == {i \in DOMAIN bytes : bytes[i] = NUL}
                  IN  IF Nuls = {} THEN bytes ELSE SubSeq(bytes, 1, Min(Nuls) - 1)
\* The characters among the bytes.
TextOf(bytes) ==
  LET text[i \in 0 .. Len(bytes)] ==
        IF i = 0 THEN <<>>
        ELSE IF isText(bytes[i]) THEN Append(text[i - 1], bytes[i]) ELSE text[i - 1]
  IN  text[Len(bytes)]
\* A terminator with something behind it.
NulWithin(bytes) == \E i \in 1 .. Len(bytes) - 1 : bytes[i] = NUL

Init ==
  /\ conn = FALSE
  /\ rx_fifo = <<>> /\ rx_buffer = <<>> /\ usb0_rx_queue = <<>>
  /\ usb0_tx_queue = <<>> /\ tx_buffer = <<>> /\ tx_fifo = <<>>
  /\ usb = "tud_task" /\ cli = "prompt" /\ usb_rx_data = <<>> /\ data = <<>>
  /\ npacket = 0 /\ nin = 0 /\ ntext = 0 /\ nout = 0
  /\ shown = <<>> /\ host = <<>> /\ overrun = FALSE /\ hidden = FALSE
  /\ stray = FALSE
-----------------------------------------------------------------------------
(* The host, while the usb task is in tud_task.                            *)

HostOpen ==
  /\ usb = "tud_task" /\ conn' = ~conn
  /\ UNCHANGED <<rxVars, txVars, usb, cliVars, counts, host, overrun, hidden, stray>>

HostSend(p) ==
  /\ usb = "tud_task" /\ conn /\ rx_fifo = <<>>
  /\ npacket < MaxPackets /\ npacket + ntext < MaxInputs
  /\ rx_fifo' = [i \in DOMAIN p |-> IF p[i] = "nul" THEN NUL ELSE nin + i]
  /\ npacket' = npacket + 1 /\ nin' = nin + Len(p)
  /\ UNCHANGED <<conn, rx_buffer, usb0_rx_queue, txVars, usb, cliVars, ntext, nout,
                 host, overrun, hidden, stray>>

HostTake ==
  /\ usb = "tud_task" /\ conn /\ tx_fifo # <<>>
  /\ tx_fifo' = Tail(tx_fifo) /\ host' = Append(host, Head(tx_fifo))
  /\ UNCHANGED <<conn, rxVars, usb0_tx_queue, tx_buffer, usb, cliVars, counts,
                 overrun, hidden, stray>>
-----------------------------------------------------------------------------
(* The usb task: one iteration of the loop.                                *)

\* MUTANT: the read may fill the buffer to the last byte.
ReadFull ==
  IF conn /\ rx_fifo # <<>> /\ Len(rx_buffer) + Len(rx_fifo) <= RX_BUFSIZE
  THEN rx_buffer' = rx_buffer \o rx_fifo /\ rx_fifo' = <<>>
  ELSE UNCHANGED <<rx_buffer, rx_fifo>>

\* MUTANT: the read is at the start of the buffer and not at rx_pos.
ReadAtStart ==
  IF conn /\ rx_fifo # <<>> /\ Len(rx_buffer) + Len(rx_fifo) < RX_BUFSIZE
  THEN rx_buffer' = rx_fifo /\ rx_fifo' = <<>>
  ELSE UNCHANGED <<rx_buffer, rx_fifo>>

\* MUTANT: room for a terminator is kept twice.
ReadShort ==
  IF conn /\ rx_fifo # <<>> /\ Len(rx_buffer) + Len(rx_fifo) < RX_BUFSIZE - 1
  THEN rx_buffer' = rx_buffer \o rx_fifo /\ rx_fifo' = <<>>
  ELSE UNCHANGED <<rx_buffer, rx_fifo>>

\* usb_read_bytes: room for a terminator must be left.
Read ==
  IF conn /\ rx_fifo # <<>> /\ Len(rx_buffer) + Len(rx_fifo) < RX_BUFSIZE
  THEN rx_buffer' = rx_buffer \o rx_fifo /\ rx_fifo' = <<>>
  ELSE UNCHANGED <<rx_buffer, rx_fifo>>

\* tud_task returns; bytes move from the FIFO to the buffer.  What is read behind a
\* terminator is out of sight of every string function.
Transfer ==
  /\ usb = "tud_task" /\ usb' = "write"
  /\ Read
  /\ hidden' = (hidden \/ NulWithin(rx_buffer'))
  /\ UNCHANGED <<conn, usb0_rx_queue, txVars, cliVars, counts, host, overrun, stray>>

\* rx_pos, byte by byte.
Behind   == <<Len(rx_buffer), NUL>>
\* The tx_pos bytes from the start of tx_buffer on.
Outgoing == IF Len(tx_buffer) <= TX_BUFSIZE THEN tx_buffer
            ELSE SubSeq(SubSeq(tx_buffer, 1, TX_BUFSIZE) \o Behind, 1, Len(tx_buffer))
\* What tud_cdc_n_write takes.
Taken    == Min({Len(tx_buffer), TX_BUFSIZE - Len(tx_fifo)})

\* MUTANT: what tud_cdc_n_write has not taken is dropped.
MoveNothing ==
  /\ tx_fifo' = tx_fifo \o SubSeq(Outgoing, 1, Taken) /\ tx_buffer' = <<>>
  /\ UNCHANGED rx_buffer

\* What the FIFO has no room for moves to the front, over the low byte of rx_pos if
\* there is too much of it.
Move ==
  /\ tx_fifo' = tx_fifo \o SubSeq(Outgoing, 1, Taken)
  /\ tx_buffer' = SubSeq(Outgoing, Taken + 1, Len(tx_buffer))
  /\ rx_buffer' = IF Len(tx_buffer') > TX_BUFSIZE THEN <<>> ELSE rx_buffer

\* usb_write_bytes.
Write ==
  /\ usb = "write" /\ usb' = "post"
  /\ \/ conn /\ Taken > 0 /\ Move
     \/ ~(conn /\ Taken > 0) /\ UNCHANGED <<tx_fifo, tx_buffer, rx_buffer>>
  /\ UNCHANGED <<conn, rx_fifo, usb0_rx_queue, usb0_tx_queue, cliVars, counts, host, overrun,
                 hidden, stray>>

\* A terminator is added if there is none, and the buffer goes to the queue.
Post ==
  /\ usb = "post" /\ usb' = "fetch"
  /\ \/ rx_buffer = <<>> /\ UNCHANGED <<usb0_rx_queue, rx_buffer>>
     \/ /\ rx_buffer # <<>> /\ Len(usb0_rx_queue) < USB0_RX_QUEUE_DEPTH
        /\ usb0_rx_queue' = Append(usb0_rx_queue,
             IF Last(rx_buffer) = NUL THEN rx_buffer ELSE Append(rx_buffer, NUL))
        /\ rx_buffer' = <<>>
  /\ UNCHANGED <<conn, rx_fifo, txVars, cliVars, counts, host, overrun, hidden, stray>>

\* MUTANT: portMAX_DELAY in place of 10 ticks.
PostForever == FALSE

\* No room within 10 ticks: the bytes stay for the next iteration.
PostTimeout ==
  /\ usb = "post" /\ usb' = "fetch"
  /\ rx_buffer # <<>> /\ Len(usb0_rx_queue) = USB0_RX_QUEUE_DEPTH
  /\ UNCHANGED <<conn, rxVars, txVars, cliVars, counts, host, overrun, hidden, stray>>

\* The bytes up to the first terminator, and that one; if tx_buffer has none strlen
\* finds it behind, where rx_pos is.
Terminated(item) == IF Last(item) = NUL THEN item ELSE item \o Append(UpToNul(Behind), NUL)

\* A text is taken from the queue once the last one is written; tx_pos counts its
\* terminator.  Then the task sleeps.
Fetch ==
  /\ usb = "fetch" /\ usb' = "tud_task"
  /\ IF usb0_tx_queue # <<>> /\ tx_buffer = <<>>
     THEN /\ tx_buffer' = Terminated(Head(usb0_tx_queue))
          /\ usb0_tx_queue' = Tail(usb0_tx_queue)
          /\ stray' = (stray \/ Last(Head(usb0_tx_queue)) # NUL)
     ELSE UNCHANGED <<tx_buffer, usb0_tx_queue, stray>>
  /\ UNCHANGED <<conn, rxVars, tx_fifo, cliVars, counts, host, overrun, hidden>>

UsbTask == Transfer \/ Write \/ Post \/ PostTimeout \/ Fetch
-----------------------------------------------------------------------------
(* cat and echo of /dev/usb0 in the cli task.                              *)

Cat ==
  /\ cli = "prompt" /\ cli' = "cat"
  /\ usb_rx_data' = <<>>
  /\ UNCHANGED <<conn, rxVars, txVars, usb, data, counts, shown, host, overrun, hidden, stray>>

\* Each item is received behind the string so far.  Items are as long as the
\* whole buffer: every one but the first runs over its end.
CatGet ==
  /\ cli = "cat" /\ usb0_rx_queue # <<>>
  /\ usb0_rx_queue' = Tail(usb0_rx_queue)
  /\ usb_rx_data' = usb_rx_data \o UpToNul(Head(usb0_rx_queue))
  /\ overrun' = (overrun \/ usb_rx_data # <<>>)
  /\ UNCHANGED <<conn, rx_fifo, rx_buffer, txVars, usb, cli, data, counts, shown, host,
                 hidden, stray>>

\* shell_print, and the buffer is freed.
CatEnd ==
  /\ cli = "cat" /\ usb0_rx_queue = <<>> /\ cli' = "prompt"
  /\ shown' = shown \o usb_rx_data /\ usb_rx_data' = <<>>
  /\ UNCHANGED <<conn, rxVars, txVars, usb, data, counts, host, overrun, hidden, stray>>

Echo(length) ==
  /\ cli = "prompt" /\ cli' = "echo"
  /\ ntext < MaxTexts /\ npacket + ntext < MaxInputs
  /\ data' = [i \in 1 .. length |-> nout + i]
  /\ ntext' = ntext + 1 /\ nout' = nout + length
  /\ UNCHANGED <<conn, rxVars, txVars, usb, usb_rx_data, npacket, nin, shown, host,
                 overrun, hidden, stray>>

\* xQueueSend copies TX_BUFSIZE bytes, the terminator among them or not.
Item == IF Len(data) < TX_BUFSIZE THEN Append(data, NUL) ELSE SubSeq(data, 1, TX_BUFSIZE)

\* usb_data_put, whose result is ignored.
EchoPut ==
  /\ cli = "echo" /\ Len(usb0_tx_queue) < USB0_TX_QUEUE_DEPTH /\ cli' = "prompt"
  /\ usb0_tx_queue' = Append(usb0_tx_queue, Item) /\ data' = <<>>
  /\ UNCHANGED <<conn, rxVars, tx_buffer, tx_fifo, usb, usb_rx_data, counts, shown, host,
                 overrun, hidden, stray>>

EchoTimeout ==
  /\ cli = "echo" /\ Len(usb0_tx_queue) = USB0_TX_QUEUE_DEPTH /\ cli' = "prompt"
  /\ data' = <<>>
  /\ UNCHANGED <<conn, rxVars, txVars, usb, usb_rx_data, counts, shown, host, overrun, hidden, stray>>

Command == CatGet \/ CatEnd \/ EchoPut \/ EchoTimeout
-----------------------------------------------------------------------------
Next == \/ HostOpen \/ HostTake \/ \E p \in Packets : HostSend(p)
        \/ UsbTask \/ Cat \/ Command \/ \E length \in Lengths : Echo(length)

Spec == Init /\ [][Next]_vars

\* The tasks run; a host that has the port open goes on taking what is there.
FairSpec == Spec /\ WF_vars(UsbTask) /\ WF_vars(Command) /\ SF_vars(HostTake)
-----------------------------------------------------------------------------
\* The numbers of characters, and what rx_pos can be.
Byte == 0 .. (MaxPackets + 1) * RX_BUFSIZE + MaxTexts * BUF_IN_SIZE

\* The terminator that Post adds at rx_pos is inside rx_buffer, and each queued item
\* inside its own; tx_pos is inside tx_buffer until strlen has left it.
TypeOK ==
  /\ conn \in BOOLEAN /\ overrun \in BOOLEAN /\ hidden \in BOOLEAN /\ stray \in BOOLEAN
  /\ rx_fifo \in Seq(Byte) /\ Len(rx_fifo) <= RX_BUFSIZE
  /\ rx_buffer \in Seq(Byte) /\ Len(rx_buffer) < RX_BUFSIZE
  /\ tx_buffer \in Seq(Byte) /\ Len(tx_buffer) <= IF stray THEN TX_BUFSIZE + 2 ELSE TX_BUFSIZE
  /\ tx_fifo \in Seq(Byte) /\ Len(tx_fifo) <= TX_BUFSIZE
  /\ usb0_rx_queue \in Seq(Seq(Byte)) /\ Len(usb0_rx_queue) <= USB0_RX_QUEUE_DEPTH
  /\ usb0_tx_queue \in Seq(Seq(Byte)) /\ Len(usb0_tx_queue) <= USB0_TX_QUEUE_DEPTH
  /\ \A i \in DOMAIN usb0_rx_queue : Len(usb0_rx_queue[i]) <= RX_BUFSIZE
  /\ \A i \in DOMAIN usb0_tx_queue : Len(usb0_tx_queue[i]) <= TX_BUFSIZE
  /\ usb \in {"tud_task", "write", "post", "fetch"} /\ cli \in {"prompt", "cat", "echo"}
  /\ usb_rx_data \in Seq(Byte) /\ data \in Seq(Byte)
  /\ npacket \in 0 .. MaxPackets /\ ntext \in 0 .. MaxTexts /\ nin \in Byte /\ nout \in Byte
  /\ shown \in Seq(Byte) /\ host \in Seq(Byte)

\* cat shows each character the host has sent once and in order, however packets
\* are split, joined or kept back, until one is read behind a terminator, cat has run
\* over its buffer, or usb_write_bytes may move bytes over rx_pos
\* (hardware_config.h:957, "read out (copy) any available bytes").
fromHost == usb_rx_data \o TextOf(FlattenSeq(usb0_rx_queue) \o rx_buffer \o rx_fifo)
RxPipe   == INSTANCE Pipe WITH pending <- fromHost, arrived <- shown,
                               broken <- overrun \/ hidden \/ stray
RxIsPipe == RxPipe!PipeSpec

\* The host gets the texts that echo has queued whole, in order, once and
\* terminated, also across partial writes and a port closed half-way
\* (hw_usb.c:180, "if all bytes in the write buffer haven't been written, shift
\* them up"), until strlen has left tx_buffer (usb_service.c:100, "assuming null
\* terminated byte array").
toHost   == tx_fifo \o tx_buffer \o FlattenSeq(usb0_tx_queue)
TxPipe   == INSTANCE Pipe WITH pending <- toHost, arrived <- host, broken <- stray
TxIsPipe == TxPipe!PipeSpec

\* If the host keeps the port open, everything that was queued for it arrives, and
\* what strlen has added to it.
TextsArrive == <>[]conn => <>[](toHost = <<>>)

\* If the user goes on using cat, what the host has sent is read, but for a packet
\* that fills the FIFO, which Read leaves there for good (hw_usb.c:164).
InputRead == <>[]conn /\ []<>(cli = "cat")
               => <>[](rx_buffer = <<>> /\ Len(rx_fifo) \in {0, RX_BUFSIZE})
=============================================================================
