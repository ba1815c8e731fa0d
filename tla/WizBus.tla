------------------------------- MODULE WizBus -------------------------------
(***************************************************************************)
(* Access to the W5500 over SPI or PIO: the callbacks of WIZCHIP and their *)
(* registration (wizchip_conf.c), the four accessors (w5500.c), the two    *)
(* buses (w5x00_spi.c, wiznet_spi_pio.c), and the tasks that use them: the *)
(* shell with w5500 init, read, readbuff, writebuff and register           *)
(* (w5500_func.c), and the poll task (w5500_polltask.c).                   *)
(*                                                                         *)
(* The accessors look the callbacks up in WIZCHIP at each call, one slot   *)
(* at a time, and w5500 init replaces them one slot at a time.  A transfer *)
(* reaches the chip if the bus owns the pins and chip select is low.       *)
(***************************************************************************)
EXTENDS Naturals, Sequences

CONSTANTS
  Regs, Vals,         \* registers and their values
  Volatile, Blank,    \* registers that the chip changes; all after a reset
  ShellOps, PollOps,  \* accesses the tasks make: [fn, reg, val]
  SetupOp,            \* the one that stands for all those of w5500 init
  CHANNELS,           \* DMA channels there are to claim
  MaxInits            \* bound: w5500 init commands

Tasks  == {"cli", "wiznetpoll"}
Slots  == {"enter", "exit", "select", "deselect",
           "read_byte", "write_byte", "read_burst", "write_burst"}
AllOps == ShellOps \cup PollOps \cup {SetupOp}

ASSUME WizBusConstants ==
  /\ Volatile \subseteq Regs /\ Blank \in [Regs -> Vals]
  /\ AllOps \subseteq [fn : {"READ", "WRITE", "READ_BUF", "WRITE_BUF"},
                       reg : Regs, val : Vals]
  /\ CHANNELS \in Nat /\ MaxInits \in Nat

VARIABLES
  cb,            \* WIZCHIP: the bus each slot was registered for
  owner,         \* of each critical section made so far: who is in it
  pins, cs,      \* the bus that owns the pins; chip select is low
  pio, saved,    \* PIO: the instance is in use; spi_header, <<>> if it is empty
  mem, latched,  \* the chip: registers, header received since it was selected
  pc, op, got,   \* of each task: its place in an accessor, the access, the last read
  mode, step,    \* w5500 init: its argument, its place or 0
  status,        \* g_w5k_status # 0
  channels,      \* DMA channels left
  dead,          \* an assertion, a panic or a fault has stopped the firmware
  misused,       \* history: the bus was changed under an access, or used too early
  viewed         \* history: w5500 register was used before w5500 init

bus  == <<cb, owner, pins, cs, pio, saved>>
chip == <<mem, latched>>
task == <<pc, op, got>>
init == <<mode, step, status, channels>>
vars == <<bus, chip, task, init, dead, misused, viewed>>

Init ==
  /\ cb = [s \in Slots |-> "none"] /\ owner = <<>>
  /\ pins = "gpio" /\ cs = FALSE /\ pio = FALSE /\ saved = <<>>
  /\ mem = Blank /\ latched = <<>>
  /\ pc = [t \in Tasks |-> "idle"] /\ op = [t \in Tasks |-> SetupOp]
  /\ got = [t \in Tasks |-> SetupOp.val]
  /\ mode = "spinormal" /\ step = 0 /\ status = FALSE /\ channels = CHANNELS
  /\ dead = FALSE /\ misused = FALSE /\ viewed = FALSE
-----------------------------------------------------------------------------
(* w5500 init: one step per callback it replaces, of which the critical    *)
(* section has two (wizchip_conf.c:205-206).                               *)

Program ==
  [spinormal |-> <<"spi_init", "section", "enter", "exit", "chip_off", "select", "deselect",
                   "read_byte", "write_byte", "read_burst", "write_burst", "setup", "ready">>,
   spipio    |-> <<"pio_open", "read_byte", "write_byte", "read_burst", "write_burst",
                   "select", "deselect", "section", "enter", "exit", "chip_off", "setup",
                   "ready">>]
Registering == step \in 1 .. 11
At(s)       == ~dead /\ step # 0 /\ Program[mode][step] = s
In(t, place) == ~dead /\ pc[t] = place
Quiet       == \A t \in Tasks : pc[t] = "idle"

Changes == misused' = (misused \/ ~Quiet)
Deselected == cs' = FALSE /\ latched' = <<>>
Dies == dead' = TRUE /\ UNCHANGED <<bus, chip, task, init, misused, viewed>>

StartInit(m) ==
  /\ step = 0 /\ In("cli", "idle") /\ Len(owner) < MaxInits
  /\ mode' = m /\ step' = 1
  /\ UNCHANGED <<bus, chip, task, status, channels, dead, misused, viewed>>

\* MUTANT: a channel is taken that is not there.
SpiInitUnchecked ==
  /\ At("spi_init")
  /\ channels' = channels - 2 /\ step' = step + 1
  /\ pins' = "spi" /\ Deselected /\ Changes
  /\ UNCHANGED <<cb, owner, pio, saved, mem, task, mode, status, dead, viewed>>

\* wizchip_spi_initialize.  dma_claim_unused_channel(true) panics without a channel.
SpiInit ==
  /\ At("spi_init") /\ channels >= 2
  /\ channels' = channels - 2 /\ step' = step + 1
  /\ pins' = "spi" /\ Deselected /\ Changes
  /\ UNCHANGED <<cb, owner, pio, saved, mem, task, mode, status, dead, viewed>>

\* wiznet_spi_pio_open, reset and set_active.  The instance is taken from an
\* uninitialised variable if it is in use: that may be it once more.
PioOpen ==
  /\ At("pio_open") /\ channels >= 2
  /\ channels' = channels - 2 /\ step' = step + 1
  /\ pins' = "pio" /\ pio' = TRUE /\ mem' = Blank /\ Deselected /\ Changes
  /\ UNCHANGED <<cb, owner, saved, task, mode, status, dead, viewed>>

\* The panic, the assertion, or the use of the NULL that was returned.
InitFails ==
  /\ \/ (At("spi_init") \/ At("pio_open")) /\ channels < 2
     \/ At("pio_open") /\ pio
  /\ Dies

\* critical_section_init claims a new spin lock, whoever holds the old one.
NewSection ==
  /\ At("section") /\ step' = step + 1
  /\ owner' = Append(owner, "nobody") /\ Changes
  /\ UNCHANGED <<cb, pins, cs, pio, saved, chip, task, mode, status, channels, dead, viewed>>

\* wizchip_initialize and wizchip_initialize_pio begin with wizchip_deselect.
ChipOff ==
  /\ At("chip_off") /\ step' = step + 1
  /\ Deselected /\ Changes
  /\ UNCHANGED <<cb, owner, pins, pio, saved, mem, task, mode, status, channels, dead, viewed>>

\* One assignment of reg_wizchip_cris_cbfunc, reg_wizchip_cs_cbfunc,
\* reg_wizchip_spi_cbfunc or reg_wizchip_spiburst_cbfunc.
Register(s) ==
  /\ At(s) /\ step' = step + 1
  /\ cb' = [cb EXCEPT ![s] = IF mode = "spinormal" THEN "spi" ELSE "pio"] /\ Changes
  /\ UNCHANGED <<owner, pins, cs, pio, saved, chip, task, mode, status, channels, dead, viewed>>

Ready ==
  /\ At("ready") /\ In("cli", "idle")
  /\ step' = 0 /\ status' = TRUE
  /\ UNCHANGED <<bus, chip, task, mode, channels, dead, misused, viewed>>

\* w5500 register writes g_w5k_status without a look at it.
View ==
  /\ step = 0 /\ In("cli", "idle")
  /\ status' = TRUE /\ viewed' = (viewed \/ ~status)
  /\ UNCHANGED <<bus, chip, task, mode, step, channels, dead, misused>>
-----------------------------------------------------------------------------
(* The accessors, from WIZCHIP_CRITICAL_ENTER to WIZCHIP_CRITICAL_EXIT.    *)

Call(t, o) ==
  /\ In(t, "idle")
  /\ pc' = [pc EXCEPT ![t] = "enter"] /\ op' = [op EXCEPT ![t] = o]
  /\ misused' = (misused \/ Registering \/ \E s \in Slots : cb[s] = "none")
  /\ UNCHANGED <<bus, chip, got, mode, status, channels, dead, viewed>>

ShellCall(o) == step = 0 /\ Call("cli", o) /\ UNCHANGED step
SetupCall    == At("setup") /\ Call("cli", SetupOp) /\ step' = step + 1

\* MUTANT: the status is not looked at.
PollCallUnasked(o) == Call("wiznetpoll", o) /\ UNCHANGED step

\* check_link_status, and the driver once the netif is up.
PollCall(o) == status /\ Call("wiznetpoll", o) /\ UNCHANGED step

Goes(t, to) == /\ pc' = [pc EXCEPT ![t] = to]
               /\ UNCHANGED <<op, init, misused, viewed>>

\* Both tasks use the critical section made last.
Holder(who) == owner' = [owner EXCEPT ![Len(owner)] = who]

\* MUTANT: the critical section is entered whoever is in it.
EnterAnyway(t) ==
  /\ In(t, "enter") /\ Goes(t, "select")
  /\ IF cb["enter"] = "none" THEN UNCHANGED owner ELSE Holder(t)
  /\ UNCHANGED <<cb, pins, cs, pio, saved, chip, got, dead>>

\* wizchip_critical_section_lock, or the empty default.
Enter(t) ==
  /\ In(t, "enter") /\ Goes(t, "select")
  /\ IF cb["enter"] = "none" THEN UNCHANGED owner
     ELSE owner[Len(owner)] = "nobody" /\ Holder(t)
  /\ UNCHANGED <<cb, pins, cs, pio, saved, chip, got, dead>>

\* wizchip_select; wiznet_spi_pio_frame_start also takes the pins.
Select(t) ==
  /\ In(t, "select") /\ Goes(t, "head")
  /\ pins' = IF cb["select"] = "pio" THEN "pio" ELSE pins
  /\ cs' = (cs \/ cb["select"] # "none")
  /\ latched' = IF cs THEN latched ELSE <<>>
  /\ UNCHANGED <<cb, owner, pio, saved, mem, got, dead>>

isRead(o)     == o.fn \in {"READ", "READ_BUF"}
HeaderOf(o)   == [read |-> isRead(o), reg |-> o.reg]
Fresh(b)      == cs /\ pins = b /\ latched = <<>>
\* What a whole access does.  No step depends on the registers, and they are not
\* followed any further once the bus was misused.
Served(t) ==
  CASE misused       -> UNCHANGED <<mem, got>>
    [] isRead(op[t]) -> got' = [got EXCEPT ![t] = mem[op[t].reg]] /\ UNCHANGED mem
    [] OTHER         -> mem' = [mem EXCEPT ![op[t].reg] = op[t].val] /\ UNCHANGED got
\* Bytes that the chip did not expect: nothing is known of what they do.
Havoc ==
  IF misused THEN UNCHANGED <<mem, got>>
  ELSE mem' \in [Regs -> Vals] /\ got' \in [Tasks -> Vals]
\* The slots that the header, or all of WIZCHIP_WRITE, and the data go through.
HeadSlot(o)   == IF cb["write_burst"] = "none" \/ (isRead(o) /\ cb["read_burst"] = "none")
                 THEN "write_byte" ELSE "write_burst"
DataSlot(o)   == IF HeadSlot(o) = "write_byte" \/ o.fn = "READ"
                 THEN IF isRead(o) THEN "read_byte" ELSE "write_byte"
                 ELSE IF isRead(o) THEN "read_burst" ELSE "write_burst"

\* The header goes out; with it all of a WIZCHIP_WRITE.
HeadSpi(t) ==
  /\ cb[HeadSlot(op[t])] = "spi"
  /\ latched' = <<HeaderOf(op[t])>>
  /\ CASE ~Fresh("spi")      -> Havoc
       [] op[t].fn = "WRITE" -> Served(t)
       [] OTHER              -> UNCHANGED <<mem, got>>
  /\ UNCHANGED <<saved, dead>>

\* wiznet_spi_pio_write_buffer: three bytes are kept as the header of the next
\* transfer; if one is kept already they are its data.
HeadPio(t) ==
  /\ cb[HeadSlot(op[t])] = "pio" /\ HeadSlot(op[t]) = "write_burst"
  /\ IF saved = <<>> /\ op[t].fn # "WRITE"
     THEN saved' = <<HeaderOf(op[t])>> /\ UNCHANGED <<mem, latched, got>>
     ELSE /\ saved' = <<>> /\ latched' = <<HeaderOf(op[t])>>
          /\ IF saved = <<>> /\ Fresh("pio") THEN Served(t) ELSE Havoc
  /\ UNCHANGED dead

\* Without a bus the slots alias functions of another type; in the byte slots of
\* the PIO are functions that panic.
HeadNone(t) ==
  /\ cb[HeadSlot(op[t])] = "none" \/ (cb[HeadSlot(op[t])] = "pio" /\ HeadSlot(op[t]) = "write_byte")
  /\ Havoc /\ dead' \in BOOLEAN
  /\ UNCHANGED <<saved, latched>>

Header(t) ==
  /\ In(t, "head") /\ Goes(t, IF op[t].fn = "WRITE" THEN "deselect" ELSE "data")
  /\ HeadSpi(t) \/ HeadPio(t) \/ HeadNone(t)
  /\ UNCHANGED <<cb, owner, pins, cs, pio>>

DataSpi(t) ==
  /\ cb[DataSlot(op[t])] = "spi"
  /\ IF cs /\ pins = "spi" /\ latched = <<HeaderOf(op[t])>> THEN Served(t) ELSE Havoc
  /\ UNCHANGED <<saved, latched, dead>>

\* MUTANT: spi_header_count is not set to 0.
DataPioKept(t) ==
  /\ cb[DataSlot(op[t])] = "pio" /\ saved # <<>> /\ latched' = saved
  /\ UNCHANGED saved
  /\ IF Fresh("pio") /\ saved = <<HeaderOf(op[t])>> THEN Served(t) ELSE Havoc
  /\ UNCHANGED dead

\* wiznet_spi_pio_read_byte, read_buffer and write_buffer.
DataPio(t) ==
  /\ cb[DataSlot(op[t])] = "pio" /\ saved # <<>> /\ latched' = saved
  /\ saved' = <<>>
  /\ IF Fresh("pio") /\ saved = <<HeaderOf(op[t])>> THEN Served(t) ELSE Havoc
  /\ UNCHANGED dead

\* There is no bus, the slot panics, or assert(spi_header_count == SPI_HEADER_LEN)
\* fails; a write without a header goes somewhere.
DataFails(t) ==
  /\ \/ cb[DataSlot(op[t])] = "none"
     \/ cb[DataSlot(op[t])] = "pio" /\ saved = <<>>
  /\ Havoc /\ dead' \in BOOLEAN
  /\ UNCHANGED <<saved, latched>>

Data(t) ==
  /\ In(t, "data") /\ Goes(t, "deselect")
  /\ DataSpi(t) \/ DataPio(t) \/ DataFails(t)
  /\ UNCHANGED <<cb, owner, pins, cs, pio>>

\* MUTANT: the chip stays selected.
DeselectNot(t) ==
  /\ In(t, "deselect") /\ Goes(t, "exit")
  /\ UNCHANGED <<bus, chip, got, dead>>

Deselect(t) ==
  /\ In(t, "deselect") /\ Goes(t, "exit")
  /\ IF cb["deselect"] = "none" THEN UNCHANGED <<cs, latched>> ELSE Deselected
  /\ UNCHANGED <<cb, owner, pins, pio, saved, mem, got, dead>>

\* MUTANT: the critical section is not left.
ExitNot(t) ==
  /\ In(t, "exit") /\ Goes(t, "idle")
  /\ UNCHANGED <<bus, chip, got, dead>>

\* wizchip_critical_section_unlock, or the empty default.  What is released is
\* the critical section made last, whichever was entered.
Exit(t) ==
  /\ In(t, "exit") /\ pc' = [pc EXCEPT ![t] = "idle"] /\ op' = [op EXCEPT ![t] = SetupOp]
  /\ IF cb["exit"] = "none" THEN UNCHANGED owner ELSE Holder("nobody")
  /\ UNCHANGED <<cb, pins, cs, pio, saved, chip, got, init, dead, misused, viewed>>

Access(t) == Enter(t) \/ Select(t) \/ Header(t) \/ Data(t) \/ Deselect(t) \/ Exit(t)

\* The chip changes a register.
Change(r) ==
  /\ ~dead /\ ~misused /\ \E v \in Vals : mem' = [mem EXCEPT ![r] = v]
  /\ UNCHANGED <<bus, latched, task, init, dead, misused, viewed>>

InitCommand == SpiInit \/ PioOpen \/ InitFails \/ NewSection \/ ChipOff \/ SetupCall \/ Ready
               \/ \E s \in Slots : Register(s)

Next == \/ InitCommand \/ View
        \/ \E m \in DOMAIN Program : StartInit(m)
        \/ \E o \in ShellOps : ShellCall(o)
        \/ \E o \in PollOps : PollCall(o)
        \/ \E t \in Tasks : Access(t)
        \/ \E r \in Volatile : Change(r)

Spec == Init /\ [][Next]_vars

\* The tasks run, and a spin lock that is free now and again is got.
FairSpec == Spec /\ WF_vars(InitCommand)
                 /\ \A t \in Tasks : SF_vars(Access(t))
-----------------------------------------------------------------------------
Headers == [read : BOOLEAN, reg : Regs]
Buses   == {"none", "spi", "pio"}

TypeOK ==
  /\ cb \in [Slots -> Buses] /\ owner \in Seq(Tasks \cup {"nobody"})
  /\ Len(owner) <= MaxInits
  /\ pins \in {"gpio", "spi", "pio"} /\ cs \in BOOLEAN /\ pio \in BOOLEAN
  /\ saved \in {<<>>} \cup {<<h>> : h \in Headers}
  /\ mem \in [Regs -> Vals] /\ latched \in {<<>>} \cup {<<h>> : h \in Headers}
  /\ pc \in [Tasks -> {"idle", "enter", "select", "head", "data", "deselect", "exit"}]
  /\ op \in [Tasks -> AllOps] /\ got \in [Tasks -> Vals]
  /\ mode \in DOMAIN Program /\ step \in 0 .. 13 /\ status \in BOOLEAN
  /\ channels \in 0 .. CHANNELS
  /\ dead \in BOOLEAN /\ misused \in BOOLEAN /\ viewed \in BOOLEAN

\* As long as the bus is not changed under an access, every access of either task
\* over either bus takes effect once, on its register, between its call and its
\* return, though it is made of six calls through callbacks and, with the PIO, of a
\* header that waits for the next of them (wiznet_spi_pio.c:415).
asked == [t \in Tasks |->
            CASE pc[t] = "idle"                 -> [kind |-> "none"]
              [] pc[t] \in {"deselect", "exit"} -> [kind |-> "done"]
              [] OTHER -> [kind |-> IF isRead(op[t]) THEN "read" ELSE "write",
                           reg  |-> op[t].reg, val |-> op[t].val]]
Regis == INSTANCE Registers WITH broken <- misused,
           Ops <- [kind : {"read", "write"}, reg : Regs, val : Vals]
IsRegisters == Regis!RegistersSpec

\* An access leaves the bus as it found it: between accesses the chip is not
\* selected, no header waits in the PIO instance and nobody is in the section.
LeavesNoTrace ==
  Quiet /\ ~misused => ~cs /\ saved = <<>> /\ \A i \in 1 .. Len(owner) : owner[i] = "nobody"

\* Only the poll task asks for g_w5k_status (w5500_polltask.c:74): until the first
\* w5500 init has registered every callback it keeps off the chip, unless w5500
\* register has set the status.
PollWaits ==
  pc["wiznetpoll"] # "idle" => viewed \/ \A s \in Slots : cb[s] # "none"

\* The firmware stops only if the bus was changed under an access or used too
\* early, if the one PIO instance is opened again, or if there are no more DMA
\* channels, of which every init claims two for good: the assertions on the header
\* (wiznet_spi_pio.c:382) and the panics behind write_byte are not reached.
NoPanic ==
  [][dead' => misused' \/ (At("pio_open") /\ pio) \/ (Registering /\ channels < 2)]_vars

\* The section made last is held by a task that is not inside: it entered through
\* the new _enter and left through the old _exit, which does nothing.
Stranded ==
  owner # <<>> /\ \E t \in Tasks : owner[Len(owner)] = t /\ pc[t] \in {"idle", "enter"}

\* Every access ends, although the critical section is made anew under it and its
\* two callbacks are replaced one after the other (w5x00_spi.c:176,
\* wizchip_conf.c:205-206).  The section can be stranded, and every access then
\* waits for ever, only if w5500 register let the poll task in before the first
\* w5500 init: a later one finds both callbacks registered.
AccessEnds ==
  \A t \in Tasks : (pc[t] # "idle") ~> (pc[t] = "idle" \/ dead \/ (viewed /\ Stranded))
=============================================================================
