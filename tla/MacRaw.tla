------------------------------- MODULE MacRaw -------------------------------
(***************************************************************************)
(* The Ethernet driver: the W5500's socket 0 in MACRAW mode as used by     *)
(* port/lwip/w5x00_lwip.c through the buffer functions of w5500.c, polled  *)
(* by the wiznetpoll service (cli/w5500_polltask.c) once the shell's       *)
(* w5500 lwip (cli/w5500_func.c) has opened it.                            *)
(*                                                                         *)
(* The chip stores each frame in a ring, after two bytes of length, and    *)
(* counts what it holds from the position the driver last acknowledged     *)
(* with RECV; positions are 16-bit counters, PTR here.  A byte is a triple *)
(* of the frame's number, its length and the byte's place in it: -1 and 0  *)
(* are the places of the two bytes of length.  One action is one access,   *)
(* or several in a row to registers that no other task uses.  Frames sent  *)
(* fit the chip's buffer (1542 bytes, 8 KB), so send_lwip never cuts one;  *)
(* socket() of MACRAW on socket 0 has no way to fail.                      *)
(***************************************************************************)
EXTENDS Integers, Sequences

CONSTANTS
  RX_RING, TX_RING,  \* bytes of the chip's buffers of socket 0
  PTR,               \* number of values of a position register, 2^16
  ETHERNET_MTU,      \* bytes of the buffer of poll_w5x00macraw
  MIN_FRAME,         \* bytes netif_output pads to
  Lens,              \* lengths of the frames received and sent
  MaxRx, MaxTx       \* bounds: frames received, frames sent

HEAD == 2            \* bytes of length before a frame
Senders == {"poll", "cli"}  \* tasks that call netif_output

ASSUME MacRawConstants ==
  /\ RX_RING \in Nat \ {0} /\ TX_RING \in Nat \ {0} /\ PTR \in Nat
  /\ PTR % RX_RING = 0 /\ PTR % TX_RING = 0 /\ PTR > RX_RING /\ PTR > TX_RING
  /\ ETHERNET_MTU \in Nat /\ MIN_FRAME \in Nat /\ MIN_FRAME <= TX_RING
  /\ Lens \subseteq Nat \ {0} /\ \A l \in Lens : HEAD + l <= RX_RING /\ l <= TX_RING
  /\ MaxRx \in Nat /\ MaxTx \in Nat

VARIABLES
  rx_mem, rx_wr, rx_ack, rx_rd,    \* receive ring; written, acknowledged, read up to
  tx_mem, tx_wr, tx_rd, sending, ir,  \* transmit ring, SEND pending, Sn_IR
  shell, added, link_up,           \* w5500 lwip; g_netif is in netif_list; its link
  ppc, len, head, pack,            \* the poll task in a turn of its loop
  tx_frame, tpc, ptr,              \* the shared frame buffer; tasks sending one
  nrx, ntx,                        \* frames so far
  rxq, delivered, txq, wire,       \* history: see FrameLink
  longest,                         \* history: the longest frame copied to pack
  clash                            \* history: two tasks were in netif_output

rxChip  == <<rx_mem, rx_wr, rx_ack>>
txChip  == <<tx_mem, tx_wr, tx_rd, sending, ir>>
rxTask  == <<rx_rd, ppc, len, head, pack, longest>>
txTask  == <<tx_frame, tpc, ptr, ntx, txq, clash>>
netif   == <<shell, added, link_up>>
vars == <<netif, rxChip, txChip, rxTask, txTask, nrx, rxq, delivered, wire>>
-----------------------------------------------------------------------------
Frame(id, l) == [k \in 1 .. l |-> <<id, l, k>>]
Stored(f)    == [k \in 1 .. HEAD |-> <<f[1][1], Len(f), k - HEAD>>] \o f
Junk         == <<0, 0, 0>>
Padding      == <<0, 0, 1>>
Frames       == {Frame(id, l) : id \in 1 .. MaxRx + MaxTx, l \in Lens}

\* Two tasks were in netif_output, or more was copied to pack than it holds, over
\* whatever lies behind it on the stack of the poll task.
Broken == clash \/ longest > ETHERNET_MTU

Link == INSTANCE FrameLink WITH broken <- Broken

\* The ring mem, of the given size, after bytes were written from position p on.
Written(mem, size, p, bytes) ==
  [i \in 0 .. size - 1 |->
     LET k == ((i - p) % size) + 1 IN IF k <= Len(bytes) THEN bytes[k] ELSE mem[i]]
\* n bytes of it from position p on.
ReadFrom(mem, size, p, n) == [k \in 1 .. n |-> mem[(p + k - 1) % size]]

\* MUTANT: the sum is kept in a register wider than the chip's.
PlusWide(p, n) == p + n

Plus(p, n)  == (p + n) % PTR
Minus(p, q) == (p - q) % PTR

\* Sn_RX_RSR.  getSn_RX_RSR reads it twice until both readings agree.
RX_RSR == Minus(rx_wr, rx_ack)

\* What two bytes taken for a length say, minus the two bytes themselves; bytes
\* from inside a frame are a wrong length.
\* MUTANT: the two bytes of length are counted as part of the frame.
PackLenWhole(bytes) == IF bytes[1][3] = 1 - HEAD THEN bytes[1][2] + HEAD ELSE bytes[1][2]

PackLen(bytes) == IF bytes[1][3] = 1 - HEAD THEN bytes[1][2] ELSE bytes[1][2] + 1

Init ==
  /\ rx_mem = [i \in 0 .. RX_RING - 1 |-> Junk] /\ rx_wr = 0 /\ rx_ack = 0 /\ rx_rd = 0
  /\ tx_mem = [i \in 0 .. TX_RING - 1 |-> Junk] /\ tx_wr = 0 /\ tx_rd = 0
  /\ sending = FALSE /\ ir = {}
  /\ shell = "prompt" /\ added = FALSE /\ link_up = FALSE /\ clash = FALSE
  /\ ppc = "idle" /\ len = 0 /\ head = 0 /\ pack = <<>> /\ longest = 0
  /\ tx_frame = <<>> /\ tpc = [t \in Senders |-> "idle"] /\ ptr = [t \in Senders |-> 0]
  /\ nrx = 0 /\ ntx = 0
  /\ rxq = <<>> /\ delivered = <<>> /\ txq = <<>> /\ wire = <<>>
-----------------------------------------------------------------------------
(* w5500 lwip in the shell: w5x00_lwipinit.                                *)

\* netif_add clears the flags of g_netif.  If it is in the list already the search
\* for a number that no netif of the list has never ends.
LwipInit ==
  /\ shell = "prompt" /\ shell' = IF added THEN "hung" ELSE "socket"
  /\ added' = TRUE /\ link_up' = FALSE
  /\ UNCHANGED <<rxChip, txChip, rxTask, txTask, nrx, rxq, delivered, wire>>

OpenSocket ==
  /\ shell = "socket" /\ shell' = "linkup"
  /\ UNCHANGED <<added, link_up, rxChip, txChip, rxTask, txTask, nrx, rxq, delivered, wire>>

\* netif_set_link_up.
LinkUp ==
  /\ shell = "linkup" /\ shell' = "dhcp" /\ link_up' = TRUE
  /\ UNCHANGED <<added, rxChip, txChip, rxTask, txTask, nrx, rxq, delivered, wire>>

\* netif_set_up, which has no address to announce, and dhcp_start are done.
LwipEnd ==
  /\ shell \in {"dhcp", "sent"} /\ tpc["cli"] = "idle" /\ shell' = "prompt"
  /\ UNCHANGED <<added, link_up, rxChip, txChip, rxTask, txTask, nrx, rxq, delivered, wire>>
-----------------------------------------------------------------------------
(* The chip.  Bound: chip, poll task and senders are not followed any      *)
(* further once Broken, when nothing more is promised.                     *)

SocketOpen == added /\ shell # "socket"

\* A frame arrives and is kept if there is room for it.
ChipReceive(l) ==
  /\ SocketOpen /\ ~Broken /\ nrx < MaxRx /\ nrx' = nrx + 1
  /\ LET f == Frame(nrx', l) IN
     IF HEAD + l <= RX_RING - RX_RSR
     THEN /\ rx_mem' = Written(rx_mem, RX_RING, rx_wr, Stored(f))
          /\ rx_wr' = Plus(rx_wr, HEAD + l)
          /\ rxq' = Append(rxq, f)
     ELSE UNCHANGED <<rx_mem, rx_wr, rxq>>
  /\ UNCHANGED <<netif, rx_ack, txChip, rxTask, txTask, delivered, wire>>

\* The SEND command is done: what is between the positions went out, or not.
ChipSend(ok) ==
  /\ ~Broken /\ sending /\ sending' = FALSE
  /\ tx_rd' = tx_wr
  /\ ir' = ir \cup {IF ok THEN "SENDOK" ELSE "TIMEOUT"}
  /\ wire' = IF ok THEN Append(wire, ReadFrom(tx_mem, TX_RING, tx_rd, Minus(tx_wr, tx_rd)))
             ELSE wire
  /\ txq' = Tail(txq)
  /\ UNCHANGED <<netif, rxChip, tx_mem, tx_wr, rxTask, tx_frame, tpc, ptr, ntx, clash, nrx, rxq,
                 delivered>>
-----------------------------------------------------------------------------
(* The poll task: poll_w5x00macraw and recv_lwip.                          *)

\* A turn of the loop, if the link is up.
Turn ==
  /\ ppc = "idle" /\ link_up /\ ~Broken /\ ppc' = "look"
  /\ UNCHANGED <<rxChip, txChip, rx_rd, len, head, pack, longest, txTask, nrx, rxq,
                 delivered, wire>>

\* MUTANT: too little to be worth reading is left in the chip.
LookForMore ==
  /\ ppc = "look" /\ ppc' = IF RX_RSR > HEAD + 1 THEN "head" ELSE "timers"
  /\ len' = RX_RSR
  /\ UNCHANGED <<rxChip, txChip, rx_rd, head, pack, longest, txTask, nrx, rxq,
                 delivered, wire>>

\* getsockopt(SO_RECVBUF).
Look ==
  /\ ppc = "look" /\ ppc' = IF RX_RSR > 0 THEN "head" ELSE "timers"
  /\ len' = RX_RSR
  /\ UNCHANGED <<rxChip, txChip, rx_rd, head, pack, longest, txTask, nrx, rxq,
                 delivered, wire>>

\* Reading moves Sn_RX_RD.
Advance(n) == rx_rd' = Plus(rx_rd, n)

ReadHead ==
  /\ ppc = "head" /\ ppc' = "ackhead"
  /\ head' = PackLen(ReadFrom(rx_mem, RX_RING, rx_rd, HEAD))
  /\ Advance(HEAD)
  /\ UNCHANGED <<rxChip, txChip, len, pack, longest, txTask, nrx, rxq, delivered, wire>>

\* setSn_CR(RECV).
AckHead ==
  /\ ppc = "ackhead" /\ ppc' = "body"
  /\ rx_ack' = rx_rd
  /\ UNCHANGED <<rx_mem, rx_wr, txChip, rx_rd, len, head, pack, longest, txTask, nrx,
                 rxq, delivered, wire>>

\* A frame longer than len, which is not the size of pack but what the chip
\* holds, is skipped.
ReadBody ==
  /\ ppc = "body"
  /\ Advance(head)
  /\ IF head > len
     THEN ppc' = "ackskip" /\ UNCHANGED <<pack, longest>>
     ELSE /\ ppc' = "ackbody"
          /\ pack' = ReadFrom(rx_mem, RX_RING, rx_rd, head)
          /\ longest' = IF head > longest THEN head ELSE longest
  /\ UNCHANGED <<rxChip, txChip, len, head, txTask, nrx, rxq, delivered, wire>>

AckBody ==
  /\ ppc \in {"ackbody", "ackskip"}
  /\ ppc' = IF ppc = "ackbody" THEN "input" ELSE "timers"
  /\ rx_ack' = rx_rd
  /\ UNCHANGED <<rx_mem, rx_wr, txChip, rx_rd, len, head, pack, longest, txTask, nrx,
                 rxq, delivered, wire>>

\* The frame goes to lwIP, or is lost because pbuf_alloc fails.
Input ==
  /\ ppc = "input" /\ ppc' = "timers"
  /\ rxq' = Tail(rxq)
  /\ delivered' \in {delivered, Append(delivered, pack)}
  /\ UNCHANGED <<rxChip, txChip, rx_rd, len, head, pack, longest, txTask, nrx, wire>>

\* sys_check_timeouts is done, and with it the turn and its local variables.
TurnEnd ==
  /\ ppc = "timers" /\ tpc["poll"] = "idle" /\ ppc' = "idle"
  /\ len' = 0 /\ head' = 0 /\ pack' = <<>>
  /\ UNCHANGED <<rxChip, txChip, rx_rd, longest, txTask, nrx, rxq, delivered, wire>>

Poll == /\ Turn \/ Look \/ ReadHead \/ AckHead \/ ReadBody \/ AckBody \/ Input \/ TurnEnd
        /\ UNCHANGED netif
-----------------------------------------------------------------------------
(* Sending: netif_output and send_lwip.  lwIP sends from its timers and in *)
(* reply to a frame, in the poll task, and the first DHCP message from     *)
(* dhcp_start, in the shell.                                               *)

InLwip(t) == \/ t = "poll" /\ ppc = "timers" /\ shell' = shell
             \/ t = "cli" /\ shell = "dhcp" /\ shell' = "sent"

\* MUTANT: tx_frame is not cleared before the frame is copied to it.
OutputStale(t, l) ==
  /\ InLwip(t) /\ tpc[t] = "idle"
  /\ ntx < MaxTx /\ ntx' = ntx + 1
  /\ LET f == Frame(MaxRx + ntx', l) IN
     /\ txq' = Append(txq, f)
     /\ tx_frame' = [k \in 1 .. Len(Link!Padded(f)) |->
                       IF k > Len(f) /\ k <= Len(tx_frame) THEN tx_frame[k]
                       ELSE Link!Padded(f)[k]]
  /\ tpc' = [tpc EXCEPT ![t] = "getwr"]
  /\ clash' = (clash \/ \E u \in Senders : tpc[u] # "idle")
  /\ UNCHANGED <<added, link_up, rxChip, txChip, rxTask, ptr, nrx, rxq, delivered, wire>>

Output(t, l) ==
  /\ InLwip(t) /\ tpc[t] = "idle"
  /\ ntx < MaxTx /\ ntx' = ntx + 1
  /\ LET f == Frame(MaxRx + ntx', l) IN tx_frame' = Link!Padded(f) /\ txq' = Append(txq, f)
  /\ tpc' = [tpc EXCEPT ![t] = "getwr"]
  /\ clash' = (clash \/ \E u \in Senders : tpc[u] # "idle")
  /\ UNCHANGED <<added, link_up, rxChip, txChip, rxTask, ptr, nrx, rxq, delivered, wire>>

Step(t, from, to) == ~Broken /\ tpc[t] = from /\ tpc' = [tpc EXCEPT ![t] = to]

others == <<netif, rxChip, rxTask, ntx, txq, clash, nrx, rxq, delivered, wire>>

GetWr(t) ==
  /\ Step(t, "getwr", "write")
  /\ ptr' = [ptr EXCEPT ![t] = tx_wr]
  /\ UNCHANGED <<txChip, tx_frame, others>>

Write(t) ==
  /\ Step(t, "write", "setwr")
  /\ tx_mem' = Written(tx_mem, TX_RING, ptr[t], tx_frame)
  /\ UNCHANGED <<tx_wr, tx_rd, sending, ir, tx_frame, ptr, others>>

SetWr(t) ==
  /\ Step(t, "setwr", "send")
  /\ tx_wr' = Plus(ptr[t], Len(tx_frame))
  /\ UNCHANGED <<tx_mem, tx_rd, sending, ir, tx_frame, ptr, others>>

\* setSn_CR(SEND), and the wait until the chip has taken the command.
Send(t) ==
  /\ Step(t, "send", "await")
  /\ sending' = TRUE
  /\ UNCHANGED <<tx_mem, tx_wr, tx_rd, ir, tx_frame, ptr, others>>

\* MUTANT: only SENDOK ends the wait.
AwaitOk(t) ==
  /\ Step(t, "await", "idle")
  /\ "SENDOK" \in ir
  /\ ptr' = [ptr EXCEPT ![t] = 0] /\ ir' = ir \ {"SENDOK"}
  /\ UNCHANGED <<tx_mem, tx_wr, tx_rd, sending, tx_frame, others>>

\* The flag that is found is cleared.
Await(t) ==
  /\ Step(t, "await", "idle")
  /\ ir # {}
  /\ ptr' = [ptr EXCEPT ![t] = 0] /\ ir' = ir \ {IF "SENDOK" \in ir THEN "SENDOK" ELSE "TIMEOUT"}
  /\ UNCHANGED <<tx_mem, tx_wr, tx_rd, sending, tx_frame, others>>

Sending(t) == GetWr(t) \/ Write(t) \/ SetWr(t) \/ Send(t) \/ Await(t)
-----------------------------------------------------------------------------
Lwip == OpenSocket \/ LinkUp \/ LwipEnd

Next == \/ LwipInit \/ Lwip
        \/ \E l \in Lens : ChipReceive(l)
        \/ \E ok \in BOOLEAN : ChipSend(ok)
        \/ Poll
        \/ \E t \in Senders : Sending(t) \/ \E l \in Lens : Output(t, l)

Spec == Init /\ [][Next]_vars

\* The tasks run, and the chip carries out a SEND.
Fairness == /\ WF_vars(Lwip) /\ WF_vars(Poll) /\ \A t \in Senders : WF_vars(Sending(t))
            /\ WF_vars(\E ok \in BOOLEAN : ChipSend(ok))
FairSpec == Spec /\ Fairness
-----------------------------------------------------------------------------
Positions == 0 .. PTR - 1
Bytes     == (0 .. MaxRx + MaxTx) \X (0 .. PTR) \X (1 - HEAD .. PTR)

TypeOK ==
  /\ rx_mem \in [0 .. RX_RING - 1 -> Bytes] /\ tx_mem \in [0 .. TX_RING - 1 -> Bytes]
  /\ {rx_wr, rx_ack, rx_rd, tx_wr, tx_rd} \subseteq Positions
  /\ sending \in BOOLEAN /\ ir \subseteq {"SENDOK", "TIMEOUT"}
  /\ shell \in {"prompt", "socket", "linkup", "dhcp", "sent", "hung"}
  /\ added \in BOOLEAN /\ link_up \in BOOLEAN /\ clash \in BOOLEAN
  /\ ppc \in {"idle", "look", "timers", "head", "ackhead", "body", "ackbody", "ackskip", "input"}
  /\ len \in Nat /\ head \in Nat /\ longest \in Nat /\ pack \in Seq(Bytes)
  /\ tx_frame \in Seq(Bytes) /\ ptr \in [Senders -> Positions]
  /\ tpc \in [Senders -> {"idle", "getwr", "write", "setwr", "send", "await"}]
  /\ nrx \in 0 .. MaxRx /\ ntx \in 0 .. MaxTx
  /\ rxq \in Seq(Frames) /\ txq \in Seq(Frames)
  /\ delivered \in Seq(Seq(Bytes)) /\ wire \in Seq(Seq(Bytes))

\* The driver implements the link: frames are delivered and sent whole, in
\* order and once, whatever wraps around and whenever frames arrive, until two
\* tasks are in netif_output at once or a frame longer than ETHERNET_MTU overruns pack.
IsLink == Link!LinkSpec

\* No frame copied to the buffer of poll_w5x00macraw is longer than the buffer
\* (w5x00_lwip.c:99, "Packet is bigger than buffer - drop the packet").
FrameFits == longest <= ETHERNET_MTU

\* Every frame the chip keeps is taken out of it again: the poll task never
\* loses its place in the ring.  After a second w5500 lwip the link stays down.
Drained == (rxq # <<>>) ~> (rxq = <<>> \/ Broken \/ shell = "hung")

\* netif_output returns: every SEND is answered to the task that issued it
\* (w5x00_lwip.c:59, the loop has no other way out).
SendReturns == \A t \in Senders : (tpc[t] # "idle") ~> (tpc[t] = "idle" \/ Broken)

\* One task at a time is inside lwIP (lwip/doc/doxygen/main_page.h:162): the
\* shell is not sending while the poll task sends or hands up a frame.
OneInLwip == ~(tpc["cli"] # "idle" /\ (ppc = "input" \/ tpc["poll"] # "idle"))
=============================================================================
