--------------------------- MODULE WizBusProofs ---------------------------
(* Theorems about WizBus, for every value of its constants.                *)
EXTENDS WizBus, SequenceTheorems, TLAPS

-----------------------------------------------------------------------------
(* The steps of w5500 init.                                                *)

Modes == {"spinormal", "spipio"}
BusOf(m) == IF m = "spinormal" THEN "spi" ELSE "pio"

SpiSteps == <<"spi_init", "section", "enter", "exit", "chip_off", "select", "deselect",
              "read_byte", "write_byte", "read_burst", "write_burst", "setup", "ready">>
PioSteps == <<"pio_open", "read_byte", "write_byte", "read_burst", "write_burst",
              "select", "deselect", "section", "enter", "exit", "chip_off", "setup",
              "ready">>

LEMMA ProgramOf ==
  /\ DOMAIN Program = Modes
  /\ Program["spinormal"] = SpiSteps /\ Program["spipio"] = PioSteps
  BY DEF Program, Modes, SpiSteps, PioSteps

\* What comes between the first step and the last two: the callbacks, the critical
\* section, and the chip select pin.
Replacing == Slots \cup {"section", "chip_off"}

\* Each callback is registered by one of the steps after the bus is set up, those of
\* the critical section when it has been made; the chip is set up last.
LEMMA Places ==
  ASSUME NEW m \in Modes
  PROVE  /\ \A i \in 1 .. 13 : /\ Program[m][i] = "ready" <=> i = 13
                               /\ Program[m][i] = "setup" <=> i = 12
                               /\ Program[m][i] \in {"spi_init", "pio_open"} <=> i = 1
                               /\ Program[m][i] = "spi_init" => m = "spinormal"
                               /\ Program[m][i] = "pio_open" => m = "spipio"
         /\ \A s \in Replacing : \E i \in 1 .. 11 : Program[m][i] = s
         /\ \A i, j \in 1 .. 13 : i # j => Program[m][i] # Program[m][j]
         /\ \A i \in 1 .. 13 : Program[m][i] \in {"enter", "exit"}
              => \E j \in 1 .. 11 : j < i /\ Program[m][j] = "section"
         /\ Program[m][1] = "spi_init" <=> m = "spinormal"
  <1>1. CASE m = "spinormal"
    <2>1. Program[m] = SpiSteps
      BY <1>1, ProgramOf
    <2> DEFINE p == SpiSteps
    <2>2. /\ p[1] = "spi_init" /\ p[2] = "section" /\ p[3] = "enter" /\ p[4] = "exit"
          /\ p[5] = "chip_off" /\ p[6] = "select" /\ p[7] = "deselect"
          /\ p[8] = "read_byte" /\ p[9] = "write_byte" /\ p[10] = "read_burst"
          /\ p[11] = "write_burst" /\ p[12] = "setup" /\ p[13] = "ready"
      BY DEF SpiSteps
    <2> HIDE DEF p
    <2>3. Program[m] = p
      BY <2>1 DEF p
    <2>4. \A i \in 1 .. 13 : /\ p[i] = "ready" <=> i = 13
                             /\ p[i] = "setup" <=> i = 12
                             /\ p[i] \in {"spi_init", "pio_open"} <=> i = 1
      BY <2>2
    <2>5. /\ \A i \in 1 .. 13 : p[i] = "spi_init" => m = "spinormal"
          /\ \A i \in 1 .. 13 : p[i] = "pio_open" => m = "spipio"
          /\ p[1] = "spi_init" <=> m = "spinormal"
      BY <1>1, <2>2
    <2>6. \A s \in Replacing : \E i \in 1 .. 11 : p[i] = s
      BY <2>2 DEF Slots, Replacing
    <2>7. \A i, j \in 1 .. 13 : i # j => p[i] # p[j]
      BY <2>2
    <2>8. \A i \in 1 .. 13 : p[i] \in {"enter", "exit"}
                            => \E j \in 1 .. 11 : j < i /\ p[j] = "section"
      BY <2>2
    <2> QED
      BY <2>3, <2>4, <2>5, <2>6, <2>7, <2>8
  <1>2. CASE m = "spipio"
    <2>1. Program[m] = PioSteps
      BY <1>2, ProgramOf
    <2> DEFINE p == PioSteps
    <2>2. /\ p[1] = "pio_open" /\ p[2] = "read_byte" /\ p[3] = "write_byte"
          /\ p[4] = "read_burst" /\ p[5] = "write_burst" /\ p[6] = "select"
          /\ p[7] = "deselect" /\ p[8] = "section" /\ p[9] = "enter" /\ p[10] = "exit"
          /\ p[11] = "chip_off" /\ p[12] = "setup" /\ p[13] = "ready"
      BY DEF PioSteps
    <2> HIDE DEF p
    <2>3. Program[m] = p
      BY <2>1 DEF p
    <2>4. \A i \in 1 .. 13 : /\ p[i] = "ready" <=> i = 13
                             /\ p[i] = "setup" <=> i = 12
                             /\ p[i] \in {"spi_init", "pio_open"} <=> i = 1
      BY <2>2
    <2>5. /\ \A i \in 1 .. 13 : p[i] = "spi_init" => m = "spinormal"
          /\ \A i \in 1 .. 13 : p[i] = "pio_open" => m = "spipio"
          /\ p[1] = "spi_init" <=> m = "spinormal"
      BY <1>2, <2>2
    <2>6. \A s \in Replacing : \E i \in 1 .. 11 : p[i] = s
      BY <2>2 DEF Slots, Replacing
    <2>7. \A i, j \in 1 .. 13 : i # j => p[i] # p[j]
      BY <2>2
    <2>8. \A i \in 1 .. 13 : p[i] \in {"enter", "exit"}
                            => \E j \in 1 .. 11 : j < i /\ p[j] = "section"
      BY <2>2
    <2> QED
      BY <2>3, <2>4, <2>5, <2>6, <2>7, <2>8
  <1> QED
    BY <1>1, <1>2 DEF Modes

-----------------------------------------------------------------------------
(* Type correctness.                                                       *)

\* While the critical section of a w5500 init is still to be made, there is one more
\* to come.
SectionToCome ==
  \A i \in 1 .. 11 : step # 0 /\ step <= i /\ Program[mode][i] = "section"
                      => Len(owner) < MaxInits

\* Its callbacks are registered when it has been made.
SectionMade ==
  /\ \A i \in 1 .. 11 : i < step /\ Program[mode][i] = "section" => owner # <<>>
  /\ cb["enter"] # "none" \/ cb["exit"] # "none" => owner # <<>>

TypeInv == TypeOK /\ SectionToCome /\ SectionMade

LEMMA OpTypes ==
  ASSUME NEW o \in AllOps
  PROVE  /\ o.fn \in {"READ", "WRITE", "READ_BUF", "WRITE_BUF"} /\ o.reg \in Regs /\ o.val \in Vals
         /\ HeaderOf(o) \in Headers /\ isRead(o) \in BOOLEAN
  <1>1. o.fn \in {"READ", "WRITE", "READ_BUF", "WRITE_BUF"} /\ o.reg \in Regs /\ o.val \in Vals
    BY WizBusConstants
  <1>2. isRead(o) \in BOOLEAN
    BY DEF isRead
  <1> QED
    BY <1>1, <1>2 DEF HeaderOf, Headers

LEMMA Blanks == Blank \in [Regs -> Vals]
  BY WizBusConstants

LEMMA TypeInit == Init => TypeInv
  <1> SUFFICES ASSUME Init PROVE TypeInv
    OBVIOUS
  <1>1. SetupOp \in AllOps /\ SetupOp.val \in Vals
    BY OpTypes DEF AllOps
  <1>2. /\ cb \in [Slots -> Buses] /\ owner \in Seq(Tasks \cup {"nobody"})
        /\ Len(owner) <= MaxInits
    BY WizBusConstants DEF Init, Buses
  <1>3. /\ mode \in DOMAIN Program /\ step \in 0 .. 13
    BY ProgramOf DEF Init, Modes
  <1>4. channels \in 0 .. CHANNELS
    BY WizBusConstants DEF Init
  <1>5. /\ cs \in BOOLEAN /\ pio \in BOOLEAN /\ status \in BOOLEAN
        /\ dead \in BOOLEAN /\ misused \in BOOLEAN /\ viewed \in BOOLEAN
    BY DEF Init
  <1>7. SectionToCome /\ SectionMade
    BY DEF Init, SectionToCome, SectionMade, Slots
  <1>6. /\ mem \in [Regs -> Vals] /\ op \in [Tasks -> AllOps] /\ got \in [Tasks -> Vals]
        /\ pc \in [Tasks -> {"idle", "enter", "select", "head", "data", "deselect", "exit"}]
    BY <1>1, Blanks DEF Init
  <1> QED
    BY <1>2, <1>3, <1>4, <1>5, <1>6, <1>7 DEF Init, TypeInv, TypeOK

\* Where w5500 init is when it takes a step, and where it goes.
LEMMA StepTypes ==
  ASSUME TypeInv, NEW s, At(s), s # "ready"
  PROVE  /\ step \in 1 .. 12 /\ step + 1 \in 0 .. 13 /\ mode \in Modes /\ mode \in DOMAIN Program
         /\ s \in Slots \cup {"section", "chip_off", "spi_init", "pio_open"} => step \in 1 .. 11
         /\ s = "section" => Len(owner) < MaxInits
         /\ s = "setup" => step = 12
         /\ s \in {"spi_init", "pio_open"} => step = 1
         /\ s = "spi_init" => mode = "spinormal"
         /\ s = "pio_open" => mode = "spipio"
  <1>1. mode \in Modes /\ mode \in DOMAIN Program /\ step \in 1 .. 13 /\ Program[mode][step] = s
    BY ProgramOf DEF TypeInv, TypeOK, At
  <1>2. step \in 1 .. 12
    BY <1>1, Places
  <1>3. s \in Slots \cup {"section", "chip_off", "spi_init", "pio_open"} => s # "setup" /\ s # "ready"
    BY DEF Slots
  <1>4. s # "setup" => step \in 1 .. 11
    BY <1>1, <1>2, Places
  <1>5. s = "section" => Len(owner) < MaxInits
    BY <1>1, <1>3, <1>4 DEF TypeInv, SectionToCome, SectionMade
  <1> QED
    BY <1>1, <1>2, <1>3, <1>4, <1>5, Places

\* What the tasks read and what they write keeps its type.
LEMMA ServedTypes ==
  ASSUME TypeInv, NEW t \in Tasks, Served(t) \/ Havoc
  PROVE  mem' \in [Regs -> Vals] /\ got' \in [Tasks -> Vals]
  <1>1. op[t] \in AllOps
    BY DEF TypeInv, TypeOK
  <1>2. op[t].reg \in Regs /\ op[t].val \in Vals
    BY <1>1, OpTypes
  <1> QED
    BY <1>2 DEF TypeInv, TypeOK, Served, Havoc

LEMMA SequenceTypes ==
  ASSUME NEW S, NEW q \in Seq(S)
  PROVE  /\ Len(q) \in Nat
         /\ \A e \in S : Append(q, e) \in Seq(S) /\ Len(Append(q, e)) = Len(q) + 1
         /\ \A e \in S, i \in 1 .. Len(q) :
              [q EXCEPT ![i] = e] \in Seq(S) /\ Len([q EXCEPT ![i] = e]) = Len(q)
  OBVIOUS

\* One step of an accessor keeps the types.
LEMMA AccessTypes ==
  ASSUME TypeInv, NEW t \in Tasks, Access(t)
  PROVE  TypeInv'
  <1>0. /\ op[t] \in AllOps /\ HeaderOf(op[t]) \in Headers /\ SetupOp \in AllOps
        /\ owner \in Seq(Tasks \cup {"nobody"}) /\ Len(owner) \in Nat
        /\ owner # <<>> => Len(owner) \in 1 .. Len(owner)
        /\ t \in Tasks \cup {"nobody"} /\ "nobody" \in Tasks \cup {"nobody"}
    BY OpTypes DEF TypeInv, TypeOK, AllOps
  <1>1. ASSUME NEW to \in {"select", "head", "data", "deselect", "exit"}, Goes(t, to),
               UNCHANGED <<cb, pio>>,
               owner' \in Seq(Tasks \cup {"nobody"}), Len(owner') = Len(owner),
               pins' \in {"gpio", "spi", "pio"}, cs' \in BOOLEAN, dead' \in BOOLEAN,
               saved' \in {<<>>} \cup {<<h>> : h \in Headers},
               latched' \in {<<>>} \cup {<<h>> : h \in Headers},
               mem' \in [Regs -> Vals], got' \in [Tasks -> Vals]
        PROVE  TypeInv'
    <2>1. pc' \in [Tasks -> {"idle", "enter", "select", "head", "data", "deselect", "exit"}]
      BY <1>1 DEF TypeInv, TypeOK, Goes
    <2> QED
      BY <1>1, <2>1 DEF TypeInv, TypeOK, SectionToCome, SectionMade, Goes, init
  <1>2. "enter" \in Slots /\ "exit" \in Slots
    BY DEF Slots
  <1>3. ASSUME NEW e \in Tasks \cup {"nobody"}, owner # <<>>, Holder(e)
        PROVE  owner' \in Seq(Tasks \cup {"nobody"}) /\ Len(owner') = Len(owner)
    BY <1>0, <1>3, SequenceTypes DEF Holder
  <1>4. CASE Enter(t)
    <2>1. owner' \in Seq(Tasks \cup {"nobody"}) /\ Len(owner') = Len(owner)
      <3>1. CASE cb["enter"] = "none"
        BY <1>0, <1>4, <3>1 DEF Enter
      <3>2. CASE cb["enter"] # "none"
        BY <1>0, <1>3, <1>4, <3>2 DEF Enter, TypeInv, SectionMade
      <3> QED
        BY <3>1, <3>2
    <2>2. Goes(t, "select") /\ UNCHANGED <<cb, pins, cs, pio, saved, chip, got, dead>>
      BY <1>4 DEF Enter
    <2> QED
      BY <1>1, <2>1, <2>2 DEF TypeInv, TypeOK, chip
  <1>5. CASE Select(t)
    <2>1. cs' \in BOOLEAN
      BY <1>5 DEF Select, TypeInv, TypeOK
    <2>2. pins' \in {"gpio", "spi", "pio"} /\ latched' \in {<<>>} \cup {<<h>> : h \in Headers}
      BY <1>5 DEF Select, TypeInv, TypeOK
    <2> QED
      BY <1>1, <1>5, <2>1, <2>2 DEF Select, TypeInv, TypeOK
  <1>6. CASE Header(t)
    <2>1. mem' \in [Regs -> Vals] /\ got' \in [Tasks -> Vals]
      BY <1>6, ServedTypes DEF Header, HeadSpi, HeadPio, HeadNone, TypeInv, TypeOK
    <2>2. /\ saved' \in {<<>>} \cup {<<h>> : h \in Headers}
          /\ latched' \in {<<>>} \cup {<<h>> : h \in Headers}
      BY <1>0, <1>6 DEF Header, HeadSpi, HeadPio, HeadNone, TypeInv, TypeOK
    <2>3. dead' \in BOOLEAN
      BY <1>6 DEF Header, HeadSpi, HeadPio, HeadNone, TypeInv, TypeOK
    <2>4. UNCHANGED <<cb, owner, pins, cs, pio>>
          /\ \E to \in {"deselect", "data"} : Goes(t, to)
      BY <1>6 DEF Header
    <2> QED
      BY <1>0, <1>1, <2>1, <2>2, <2>3, <2>4 DEF TypeInv, TypeOK
  <1>7. CASE Data(t)
    <2>1. mem' \in [Regs -> Vals] /\ got' \in [Tasks -> Vals]
      BY <1>7, ServedTypes DEF Data, DataSpi, DataPio, DataFails
    <2>2. /\ saved' \in {<<>>} \cup {<<h>> : h \in Headers}
          /\ latched' \in {<<>>} \cup {<<h>> : h \in Headers}
      BY <1>7 DEF Data, DataSpi, DataPio, DataFails, TypeInv, TypeOK
    <2>3. dead' \in BOOLEAN
      BY <1>7 DEF Data, DataSpi, DataPio, DataFails, TypeInv, TypeOK
    <2>4. UNCHANGED <<cb, owner, pins, cs, pio>> /\ Goes(t, "deselect")
      BY <1>7 DEF Data
    <2> QED
      BY <1>0, <1>1, <2>1, <2>2, <2>3, <2>4 DEF TypeInv, TypeOK
  <1>8. CASE Deselect(t)
    <2>1. cs' \in BOOLEAN
      BY <1>8 DEF Deselect, Deselected, TypeInv, TypeOK
    <2>2. latched' \in {<<>>} \cup {<<h>> : h \in Headers}
      BY <1>8 DEF Deselect, Deselected, TypeInv, TypeOK
    <2> QED
      BY <1>0, <1>1, <1>8, <2>1, <2>2 DEF Deselect, TypeInv, TypeOK
  <1>9. CASE Exit(t)
    <2>1. owner' \in Seq(Tasks \cup {"nobody"}) /\ Len(owner') = Len(owner)
      <3>1. CASE cb["exit"] = "none"
        BY <1>0, <1>9, <3>1 DEF Exit
      <3>2. CASE cb["exit"] # "none"
        BY <1>0, <1>3, <1>9, <3>2 DEF Exit, TypeInv, SectionMade
      <3> QED
        BY <3>1, <3>2
    <2>2. /\ pc' \in [Tasks -> {"idle", "enter", "select", "head", "data", "deselect", "exit"}]
          /\ op' \in [Tasks -> AllOps]
      BY <1>0, <1>9 DEF Exit, TypeInv, TypeOK
    <2> QED
      BY <1>9, <2>1, <2>2 DEF Exit, TypeInv, TypeOK, SectionToCome, SectionMade, chip, init
  <1> QED
    BY <1>4, <1>5, <1>6, <1>7, <1>8, <1>9 DEF Access

\* The critical section is still there after the other steps of w5500 init.
LEMMA StillMade ==
  ASSUME TypeInv, owner' = owner, cb' = cb,
         \/ step' \in {0, 1} \/ UNCHANGED <<step, mode>>
         \/ /\ mode' = mode /\ step \in 1 .. 12 /\ step' = step + 1
            /\ Program[mode][step] # "section"
  PROVE  SectionMade'
  BY DEF TypeInv, SectionMade

LEMMA TypeStep == TypeInv /\ [Next]_vars => TypeInv'
  <1> SUFFICES ASSUME TypeInv, [Next]_vars PROVE TypeInv'
    OBVIOUS
  <1>0. /\ Len(owner) \in Nat /\ MaxInits \in Nat /\ CHANNELS \in Nat /\ channels \in 0 .. CHANNELS
        /\ Blank \in [Regs -> Vals]
    BY WizBusConstants, Blanks DEF TypeInv, TypeOK
  <1>1. CASE SpiInit \/ PioOpen
    <2>1. PICK s \in {"spi_init", "pio_open"} : At(s)
      BY <1>1 DEF SpiInit, PioOpen
    <2>2. step = 1 /\ mode \in DOMAIN Program /\ step' = step + 1
      BY <1>1, <2>1, StepTypes DEF SpiInit, PioOpen
    <2>3. channels' \in 0 .. CHANNELS
      BY <1>0, <1>1 DEF SpiInit, PioOpen
    <2>4. /\ cs' \in BOOLEAN /\ pio' \in BOOLEAN /\ status' \in BOOLEAN
          /\ dead' \in BOOLEAN /\ misused' \in BOOLEAN /\ viewed' \in BOOLEAN
      BY <1>1 DEF SpiInit, PioOpen, Deselected, Changes, Quiet, TypeInv, TypeOK
    <2>5. pins' \in {"gpio", "spi", "pio"} /\ mem' \in [Regs -> Vals] /\ latched' = <<>>
      BY <1>0, <1>1 DEF SpiInit, PioOpen, Deselected, TypeInv, TypeOK
    <2>6. UNCHANGED <<cb, owner, saved, task, mode>>
      BY <1>1 DEF SpiInit, PioOpen
    <2>7. SectionToCome'
      BY <2>2, <2>6 DEF SectionToCome, TypeInv
    <2>8. SectionMade'
      BY <2>1, <2>2, <2>6, StillMade DEF At
    <2> QED
      BY <2>2, <2>3, <2>4, <2>5, <2>6, <2>7, <2>8 DEF TypeInv, TypeOK, task
  <1>2. CASE InitFails
    BY <1>2 DEF InitFails, Dies, TypeInv, TypeOK, SectionToCome, SectionMade, bus, chip, task, init
  <1>3. CASE NewSection
    <2>1. /\ At("section") /\ step' = step + 1 /\ owner' = Append(owner, "nobody")
          /\ misused' = (misused \/ ~Quiet)
          /\ UNCHANGED <<cb, pins, cs, pio, saved, chip, task, mode, status, channels, dead, viewed>>
      BY <1>3 DEF NewSection, Changes
    <2>2. /\ step \in 1 .. 11 /\ step + 1 \in 0 .. 13 /\ Len(owner) < MaxInits
      BY <2>1, StepTypes
    <2>3. owner' \in Seq(Tasks \cup {"nobody"}) /\ Len(owner') = Len(owner) + 1
      BY <2>1 DEF TypeInv, TypeOK
    <2>4. misused' \in BOOLEAN
      BY <2>1 DEF TypeInv, TypeOK, Quiet
    <2>5. TypeOK'
      BY <1>0, <2>1, <2>2, <2>3, <2>4 DEF TypeInv, TypeOK, task, chip
    <2>6. \A i \in 1 .. 11 : i > step => Program[mode][i] # "section"
      <3>1. mode \in Modes /\ Program[mode][step] = "section" /\ step \in 1 .. 11
        BY <2>1, <2>2, ProgramOf DEF At, TypeInv, TypeOK
      <3> QED
        BY <3>1, Places
    <2>7. SectionToCome'
      BY <2>1, <2>2, <2>6 DEF TypeInv, SectionToCome
    <2>8. SectionMade'
      BY <1>0, <2>3 DEF SectionMade
    <2> QED
      BY <2>5, <2>7, <2>8 DEF TypeInv
  <1>15. CASE ChipOff
    <2>1. /\ At("chip_off") /\ step' = step + 1 /\ cs' = FALSE /\ latched' = <<>>
          /\ misused' = (misused \/ ~Quiet)
          /\ UNCHANGED <<cb, owner, pins, pio, saved, mem, task, mode, status, channels, dead, viewed>>
      BY <1>15 DEF ChipOff, Deselected, Changes
    <2>2. step \in 1 .. 11 /\ step + 1 \in 0 .. 13
      BY <2>1, StepTypes
    <2>3. misused' \in BOOLEAN /\ cs' \in BOOLEAN
      BY <2>1 DEF TypeInv, TypeOK, Quiet
    <2>4. SectionToCome'
      BY <2>1, <2>2 DEF TypeInv, SectionToCome
    <2>5. SectionMade'
      BY <2>1, <2>2, StillMade DEF At
    <2> QED
      BY <2>1, <2>2, <2>3, <2>4, <2>5 DEF TypeInv, TypeOK, task
  <1>4. ASSUME NEW s \in Slots, Register(s) PROVE TypeInv'
    <2>1. /\ At(s) /\ s # "ready" /\ step' = step + 1
          /\ cb' = [cb EXCEPT ![s] = IF mode = "spinormal" THEN "spi" ELSE "pio"]
          /\ misused' = (misused \/ ~Quiet)
          /\ UNCHANGED <<owner, pins, cs, pio, saved, chip, task, mode, status, channels,
                         dead, viewed>>
      BY <1>4 DEF Register, Changes, Slots
    <2>2. step \in 1 .. 11 /\ step + 1 \in 0 .. 13
      BY <2>1, StepTypes
    <2>3. cb' \in [Slots -> Buses] /\ misused' \in BOOLEAN
      BY <2>1 DEF TypeInv, TypeOK, Quiet, Buses
    <2>4. SectionToCome'
      BY <2>1, <2>2 DEF TypeInv, SectionToCome
    <2>5. Program[mode][step] = s /\ mode \in Modes /\ s # "section"
      BY <2>1, ProgramOf DEF At, TypeInv, TypeOK, Slots
    <2>6. s \in {"enter", "exit"} => owner # <<>>
      BY <2>2, <2>5, Places DEF TypeInv, SectionMade
    <2>7. SectionMade'
      BY <2>1, <2>2, <2>5, <2>6 DEF TypeInv, SectionMade
    <2> QED
      BY <2>1, <2>2, <2>3, <2>4, <2>7 DEF TypeInv, TypeOK, task, chip
  <1>5. CASE Ready
    BY <1>5 DEF Ready, TypeInv, TypeOK, SectionToCome, SectionMade, bus, chip, task
  <1>6. CASE View
    BY <1>6 DEF View, TypeInv, TypeOK, SectionToCome, SectionMade, bus, chip, task
  <1>7. ASSUME NEW m \in DOMAIN Program, StartInit(m) PROVE TypeInv'
    BY <1>0, <1>7 DEF StartInit, TypeInv, TypeOK, SectionToCome, SectionMade, bus, chip, task
  <1>8. ASSUME NEW t \in Tasks, NEW o \in AllOps, Call(t, o), NEW n \in 0 .. 13, step' = n,
               \/ n = step
               \/ n = step + 1 /\ step \in 1 .. 12 /\ Program[mode][step] # "section"
        PROVE  TypeInv'
    <2>1. misused' \in BOOLEAN
      BY <1>8 DEF Call, TypeInv, TypeOK, Registering
    <2>2. SectionToCome'
      BY <1>8 DEF Call, TypeInv, SectionToCome, bus
    <2>3. SectionMade'
      BY <1>8, StillMade DEF Call, bus
    <2> QED
      BY <1>8, <2>1, <2>2, <2>3 DEF Call, TypeInv, TypeOK, bus, chip
  <1>9. ASSUME NEW t \in Tasks, Access(t) PROVE TypeInv'
    BY <1>9, AccessTypes
  <1>10. ASSUME NEW r \in Volatile, Change(r) PROVE TypeInv'
    <2>1. mem' \in [Regs -> Vals]
      BY <1>10, WizBusConstants DEF Change, TypeInv, TypeOK
    <2> QED
      BY <1>10, <2>1 DEF Change, TypeInv, TypeOK, SectionToCome, SectionMade, bus, task, init
  <1>11. CASE UNCHANGED vars
    BY <1>11 DEF vars, TypeInv, TypeOK, SectionToCome, SectionMade, bus, chip, task, init
  <1>12. SetupCall => TypeInv'
    <2> SUFFICES ASSUME SetupCall PROVE TypeInv'
      OBVIOUS
    <2>1. At("setup") /\ Call("cli", SetupOp) /\ step' = step + 1 /\ SetupOp \in AllOps
      BY DEF SetupCall, AllOps
    <2>2. step = 12 /\ Program[mode][step] # "section"
      BY <2>1, StepTypes DEF At
    <2> QED
      BY <1>8, <2>1, <2>2 DEF Tasks
  <1>13. ASSUME NEW o \in ShellOps, ShellCall(o) PROVE TypeInv'
    <2>1. Call("cli", o) /\ step' = step /\ step \in 0 .. 13 /\ o \in AllOps
      BY <1>13 DEF ShellCall, AllOps, TypeInv, TypeOK
    <2> QED
      BY <1>8, <2>1 DEF Tasks
  <1>14. ASSUME NEW o \in PollOps, PollCall(o) PROVE TypeInv'
    <2>1. Call("wiznetpoll", o) /\ step' = step /\ step \in 0 .. 13 /\ o \in AllOps
      BY <1>14 DEF PollCall, AllOps, TypeInv, TypeOK
    <2> QED
      BY <1>8, <2>1 DEF Tasks
  <1> QED
    BY <1>1, <1>2, <1>3, <1>4, <1>5, <1>6, <1>7, <1>9, <1>10, <1>11, <1>12, <1>13, <1>14,
       <1>15 DEF Next, InitCommand

\* The types of the bus, TypeOK: for any registers, accesses, number of DMA channels and
\* of w5500 init commands; a w5500 init takes its thirteen steps and no more.
THEOREM WizBusTypes == Spec => []TypeOK
  <1>1. TypeInv => TypeOK
    BY DEF TypeInv
  <1> QED
    BY TypeInit, TypeStep, <1>1, PTL DEF Spec
-----------------------------------------------------------------------------
(* What w5500 init has registered stays registered.                        *)

Done(s) == s \in Slots => cb[s] = BusOf(mode)

ProgressInv == \A i \in 1 .. 11 : i < step => Done(Program[mode][i])

Registered == \A s \in Slots : cb[s] # "none"

StatusInv == status \/ pc["wiznetpoll"] # "idle" => viewed \/ Registered

LEMMA AllDone ==
  ASSUME TypeInv, ProgressInv, step \in {12, 13}
  PROVE  \A s \in Slots : cb[s] = BusOf(mode)
  <1>1. mode \in Modes
    BY ProgramOf DEF TypeInv, TypeOK
  <1>2. \A i \in 1 .. 11 : Done(Program[mode][i])
    BY DEF ProgressInv
  <1>3. \A s \in Slots : Done(s)
    BY <1>1, <1>2, Places DEF Replacing
  <1> QED
    BY <1>3 DEF Done

\* Only two actions change what is registered; of the others those that move w5500
\* init on are its first step and its last two.
LEMMA RestOfBus ==
  ASSUME TypeInv, [Next]_vars, ~NewSection, ~ChipOff, \A s \in Slots : ~Register(s)
  PROVE  /\ cb' = cb
         /\ \/ UNCHANGED <<step, mode>>
            \/ mode' = mode /\ step \in {1, 12} /\ step' = step + 1
            \/ step' \in {0, 1}
  <1>1. SpiInit \/ PioOpen => mode' = mode /\ step = 1 /\ step' = step + 1
    BY StepTypes DEF SpiInit, PioOpen
  <1>2. SetupCall => mode' = mode /\ step = 12 /\ step' = step + 1
    BY StepTypes DEF SetupCall, Call
  <1>3. SpiInit \/ PioOpen \/ SetupCall => cb' = cb
    BY DEF SpiInit, PioOpen, SetupCall, Call, bus
  <1>4. InitFails \/ View \/ (\E r \in Volatile : Change(r))
          \/ (\E o \in ShellOps : ShellCall(o)) \/ (\E o \in PollOps : PollCall(o))
          \/ (\E t \in Tasks : Access(t)) \/ UNCHANGED vars
          => UNCHANGED <<cb, step, mode>>
    BY DEF InitFails, Dies, View, Change, ShellCall, PollCall, Call, Access, Enter, Select,
       Header, Data, Deselect, Exit, Goes, vars, bus, init
  <1>5. Ready \/ (\E m \in DOMAIN Program : StartInit(m))
          => cb' = cb /\ step' \in {0, 1}
    BY DEF Ready, StartInit, bus
  <1> QED
    BY <1>1, <1>2, <1>3, <1>4, <1>5 DEF Next, InitCommand

LEMMA ProgressStep == TypeInv /\ ProgressInv /\ [Next]_vars => ProgressInv'
  <1> SUFFICES ASSUME TypeInv, ProgressInv, [Next]_vars PROVE ProgressInv'
    OBVIOUS
  <1>0. mode \in Modes /\ step \in 0 .. 13 /\ Len(owner) \in Nat /\ cb \in [Slots -> Buses]
    BY ProgramOf DEF TypeInv, TypeOK
  <1>1. CASE NewSection \/ ChipOff
    <2>1. step' = step + 1 /\ mode' = mode /\ cb' = cb
      BY <1>1 DEF NewSection, ChipOff
    <2>2. Program[mode][step] \in {"section", "chip_off"}
      BY <1>1 DEF NewSection, ChipOff, At
    <2>3. Program[mode][step] \notin Slots
      BY <2>2 DEF Slots
    <2> QED
      BY <1>0, <2>1, <2>3 DEF ProgressInv, Done
  <1>2. ASSUME NEW s \in Slots, Register(s) PROVE ProgressInv'
    <2>1. /\ At(s) /\ step' = step + 1 /\ mode' = mode
          /\ cb' = [cb EXCEPT ![s] = BusOf(mode)]
      BY <1>2 DEF Register, BusOf
    <2>2. Program[mode][step] = s /\ s # "section"
      BY <2>1 DEF At, Slots
    <2> QED
      BY <1>0, <2>1, <2>2 DEF ProgressInv, Done
  <1>3. CASE ~NewSection /\ ~ChipOff /\ \A s \in Slots : ~Register(s)
    <2>1. cb' = cb
      BY <1>3, RestOfBus
    <2>2. CASE UNCHANGED <<step, mode>>
      BY <2>1, <2>2 DEF ProgressInv, Done
    <2>3. CASE mode' = mode /\ step = 1 /\ step' = step + 1
      <3>1. Program[mode][1] \in {"spi_init", "pio_open"}
        BY <1>0, Places
      <3>2. Done(Program[mode][1])'
        BY <3>1, <2>3 DEF Done, Slots
      <3> QED
        BY <2>3, <3>2 DEF ProgressInv
    <2>4. CASE mode' = mode /\ step = 12 /\ step' = step + 1
      BY <2>1, <2>4 DEF ProgressInv, Done
    <2>5. CASE step' \in {0, 1}
      BY <2>5 DEF ProgressInv
    <2> QED
      BY <1>3, <2>2, <2>3, <2>4, <2>5, RestOfBus
  <1> QED
    BY <1>1, <1>2, <1>3

LEMMA StatusStep == TypeInv /\ ProgressInv /\ StatusInv /\ [Next]_vars => StatusInv'
  <1> SUFFICES ASSUME TypeInv, ProgressInv, StatusInv, [Next]_vars PROVE StatusInv'
    OBVIOUS
  <1>0. /\ "wiznetpoll" \in Tasks /\ "cli" \in Tasks /\ "cli" # "wiznetpoll"
        /\ pc \in [Tasks -> {"idle", "enter", "select", "head", "data", "deselect", "exit"}]
        /\ cb \in [Slots -> Buses] /\ Len(owner) \in Nat
    BY DEF Tasks, TypeInv, TypeOK
  <1>1. Registered => Registered'
    <2>1. CASE NewSection \/ ChipOff
      BY <1>0, <2>1 DEF NewSection, ChipOff, Registered
    <2>2. ASSUME NEW s \in Slots, Register(s) PROVE Registered => Registered'
      BY <1>0, <2>2 DEF Register, Registered
    <2> QED
      BY <2>1, <2>2, RestOfBus DEF Registered
  <1>2. CASE Ready
    <2>1. step = 13
      BY <1>2, ProgramOf, Places DEF Ready, At, TypeInv, TypeOK
    <2>2. Registered
      BY <2>1, AllDone DEF Registered, BusOf
    <2> QED
      BY <1>1, <2>2 DEF StatusInv
  <1>3. CASE View
    BY <1>1, <1>3 DEF View, StatusInv, task
  <1>4. ASSUME NEW o \in PollOps, PollCall(o) PROVE StatusInv'
    BY <1>1, <1>4 DEF PollCall, Call, StatusInv
  <1>5. CASE ~Ready /\ ~View /\ \A o \in PollOps : ~PollCall(o)
    <2>1. viewed' = viewed /\ status' = status
      BY <1>5 DEF Next, vars, InitCommand, SpiInit, PioOpen, InitFails, Dies, NewSection, ChipOff, Register,
         SetupCall, Call, StartInit, ShellCall, Access, Enter, Select, Header, Data, Deselect,
         Exit, Goes, Change, init
    <2>2. pc'["wiznetpoll"] = pc["wiznetpoll"] \/ pc["wiznetpoll"] # "idle"
      BY <1>0, <1>5 DEF Next, vars, InitCommand, SpiInit, PioOpen, InitFails, Dies, NewSection, ChipOff,
         Register, SetupCall, Call, StartInit, ShellCall, Access, Enter, Select, Header, Data,
         Deselect, Exit, Goes, Change, task, In
    <2> QED
      BY <1>1, <2>1, <2>2 DEF StatusInv
  <1> QED
    BY <1>2, <1>3, <1>4, <1>5

LEMMA ProgressInvariant == Spec => [](TypeInv /\ ProgressInv /\ StatusInv)
  <1>1. Init => ProgressInv /\ StatusInv
    BY DEF Init, ProgressInv, StatusInv, Tasks
  <1> QED
    BY TypeInit, TypeStep, ProgressStep, StatusStep, <1>1, PTL DEF Spec

\* PollWaits: for any sequence of w5500 init commands in either mode, the poll task
\* reaches the chip only after the first of them has registered everything.
THEOREM PollTaskWaits == Spec => []PollWaits
  <1>1. StatusInv => PollWaits
    BY DEF StatusInv, Registered, PollWaits
  <1> QED
    BY ProgressInvariant, <1>1, PTL
-----------------------------------------------------------------------------
(* The bus is only changed while nobody uses it, as long as it is not      *)
(* misused, and is used by one task at a time.                             *)

\* One bus is behind all callbacks; SPI owns its pins all the time.
Uniform == \E b \in {"spi", "pio"} : /\ \A s \in Slots : cb[s] = b
                                     /\ b = "spi" => pins = "spi"

Inside(t) == pc[t] \in {"select", "head", "data", "deselect", "exit"}

BusInv ==
  /\ mode = "spinormal" /\ step >= 2 => pins = "spi"
  /\ ~Quiet => step \in {0, 1, 12, 13} /\ Uniform
  /\ step \in {0, 1} => Uniform \/ \A s \in Slots : cb[s] = "none"

\* The critical section in use is held by the task inside; the old ones are free.
SectionInv ==
  /\ \A t \in Tasks : Inside(t) <=> owner # <<>> /\ owner[Len(owner)] = t
  /\ \A i \in 1 .. Len(owner) : i # Len(owner) => owner[i] = "nobody"

Untouched == cs = FALSE /\ latched = <<>> /\ saved = <<>>

\* What the task inside has done so far to the bus and the chip.
AccessOf(t) ==
  /\ pc[t] \in {"select", "exit"} => Untouched
  /\ pc[t] = "head" => Fresh(cb["select"]) /\ saved = <<>>
  /\ pc[t] = "data" =>
       /\ cs /\ pins = cb["select"] /\ op[t].fn # "WRITE"
       /\ cb["select"] = "spi" => latched = <<HeaderOf(op[t])>> /\ saved = <<>>
       /\ cb["select"] = "pio" => latched = <<>> /\ saved = <<HeaderOf(op[t])>>
  /\ pc[t] = "deselect" => saved = <<>>

AccessInv == /\ (\A t \in Tasks : ~Inside(t)) => Untouched
             /\ \A t \in Tasks : AccessOf(t)

SafeInv == BusInv /\ SectionInv /\ AccessInv

\* While every task is outside the accessors the bus is at rest.
LEMMA QuietBus ==
  ASSUME TypeInv, SafeInv, Quiet
  PROVE  /\ Untouched /\ \A t \in Tasks : ~Inside(t)
         /\ \A i \in 1 .. Len(owner) : owner[i] = "nobody"
  <1>1. \A t \in Tasks : ~Inside(t)
    BY DEF Quiet, Inside
  <1>2. Untouched
    BY <1>1 DEF SafeInv, AccessInv
  <1>3. ASSUME NEW i \in 1 .. Len(owner) PROVE owner[i] = "nobody"
    <2>1. owner[i] \in Tasks \cup {"nobody"}
      BY DEF TypeInv, TypeOK
    <2>2. CASE i # Len(owner)
      BY <2>2 DEF SafeInv, SectionInv
    <2>3. CASE i = Len(owner)
      BY <1>1, <2>1, <2>3 DEF SafeInv, SectionInv
    <2> QED
      BY <2>2, <2>3
  <1> QED
    BY <1>1, <1>2, <1>3

\* As long as nothing has been misused, a step of w5500 init finds the bus at rest
\* and leaves it so.
LEMMA InitSafe ==
  ASSUME TypeInv, ProgressInv, SafeInv, ~misused',
         SpiInit \/ PioOpen \/ NewSection \/ ChipOff \/ \E s \in Slots : Register(s)
  PROVE  SafeInv'
  <1>1. Quiet /\ Quiet' /\ pc' = pc /\ op' = op
    BY DEF SpiInit, PioOpen, NewSection, ChipOff, Register, Changes, task, Quiet
  <1>2. /\ Untouched /\ \A i \in 1 .. Len(owner) : owner[i] = "nobody"
        /\ \A t \in Tasks : ~Inside(t)
    BY <1>1, QuietBus
  <1>3. Untouched'
    BY <1>2 DEF SpiInit, PioOpen, NewSection, ChipOff, Register, Deselected, Untouched, chip
  <1>4. step \in 1 .. 11 /\ step' = step + 1 /\ mode' = mode
    BY StepTypes DEF SpiInit, PioOpen, NewSection, ChipOff, Register, Slots
  <1>5. BusInv'
    <2>1. mode = "spinormal" /\ step' >= 2 => pins' = "spi"
      <3>1. CASE SpiInit
        BY <3>1 DEF SpiInit
      <3>2. CASE PioOpen
        BY <3>2, StepTypes DEF PioOpen
      <3>3. CASE NewSection \/ ChipOff \/ \E s \in Slots : Register(s)
        <4>1. (pins' = pins /\ step # 1) \/ mode # "spinormal"
          <5>1. \E s \in Replacing : At(s) /\ pins' = pins
            BY <3>3 DEF NewSection, ChipOff, Register, Replacing
          <5>2. mode \in Modes /\ "spi_init" \notin Replacing
            BY ProgramOf DEF TypeInv, TypeOK, Slots, Replacing
          <5> QED
            BY <5>1, <5>2, ProgramOf, Places DEF At
        <4> QED
          BY <1>4, <4>1 DEF SafeInv, BusInv
      <3> QED
        BY <3>1, <3>2, <3>3
    <2> QED
      BY <1>1, <1>4, <2>1 DEF BusInv
  <1>6. SectionInv'
    <2>1. \A t \in Tasks : ~Inside(t)'
      BY <1>1, <1>2 DEF Inside
    <2>2. CASE NewSection
      <3>1. /\ owner' = Append(owner, "nobody")
            /\ owner \in Seq(Tasks \cup {"nobody"})
        BY <2>2 DEF NewSection, TypeInv, TypeOK
      <3>2. Len(owner') = Len(owner) + 1 /\ \A i \in 1 .. Len(owner') : owner'[i] = "nobody"
        BY <1>2, <3>1
      <3>3. owner' # <<>> /\ "nobody" \notin Tasks
        BY <3>1, <3>2 DEF Tasks
      <3> QED
        BY <2>1, <3>2, <3>3 DEF SectionInv
    <2>3. CASE owner' = owner
      BY <1>1, <1>2, <2>1, <2>3 DEF SectionInv, SafeInv, Inside
    <2> QED
      BY <2>2, <2>3 DEF SpiInit, PioOpen, ChipOff, Register
  <1>7. AccessInv'
    BY <1>1, <1>3 DEF AccessInv, AccessOf, Quiet
  <1> QED
    BY <1>5, <1>6, <1>7 DEF SafeInv

\* An access starts when everything is registered, and finds one bus.
LEMMA CallSafe ==
  ASSUME TypeInv, ProgressInv, SafeInv, ~misused', NEW t \in Tasks, NEW o, Call(t, o),
         step' = step \/ (step = 12 /\ step' = 13)
  PROVE  SafeInv' /\ step \in {0, 12, 13}
  <1>1. /\ step \in {0, 12, 13} /\ \A s \in Slots : cb[s] # "none"
        /\ mode' = mode /\ pc' = [pc EXCEPT ![t] = "enter"] /\ op' = [op EXCEPT ![t] = o]
        /\ pc[t] = "idle" /\ UNCHANGED <<cb, owner, pins, cs, saved, latched>>
    <2>1. /\ mode' = mode /\ pc' = [pc EXCEPT ![t] = "enter"] /\ op' = [op EXCEPT ![t] = o]
          /\ pc[t] = "idle" /\ UNCHANGED <<cb, owner, pins, cs, saved, latched>>
      BY DEF Call, bus, chip, In
    <2>2. ~Registering /\ \A s \in Slots : cb[s] # "none"
      BY DEF Call
    <2>3. step \in {0, 12, 13}
      BY <2>2 DEF Registering, TypeInv, TypeOK
    <2> QED
      BY <2>1, <2>2, <2>3
  <1>2. mode \in Modes /\ "select" \in Slots
    BY ProgramOf DEF TypeInv, TypeOK, Slots
  <1>3. Uniform
    <2>1. CASE step = 0
      BY <1>1, <1>2, <2>1 DEF SafeInv, BusInv
    <2>2. CASE step \in {12, 13}
      <3>1. \A s \in Slots : cb[s] = BusOf(mode)
        BY <2>2, AllDone
      <3>2. mode = "spinormal" => pins = "spi"
        BY <2>2 DEF SafeInv, BusInv
      <3> QED
        BY <3>1, <3>2 DEF Uniform, BusOf
    <2> QED
      BY <1>1, <2>1, <2>2
  <1>4. BusInv'
    BY <1>1, <1>3 DEF SafeInv, BusInv, Uniform
  <1>5. \A u \in Tasks : /\ Inside(u)' <=> Inside(u)
                         /\ pc'[u] # "enter" => pc'[u] = pc[u] /\ op'[u] = op[u]
    BY <1>1 DEF Inside, TypeInv, TypeOK
  <1>6. SectionInv'
    BY <1>1, <1>5 DEF SafeInv, SectionInv
  <1>7. AccessInv'
    <2>1. (\A u \in Tasks : ~Inside(u)') => Untouched'
      BY <1>1, <1>5 DEF SafeInv, AccessInv, Untouched
    <2>2. ASSUME NEW u \in Tasks PROVE AccessOf(u)'
      BY <1>1, <1>5 DEF SafeInv, AccessInv, AccessOf, Untouched, Fresh
    <2> QED
      BY <2>1, <2>2 DEF AccessInv
  <1> QED
    BY <1>1, <1>4, <1>6, <1>7 DEF SafeInv

\* Whoever is in an accessor finds one bus and a critical section; whoever is in the
\* critical section is there alone.
LEMMA AtWork ==
  ASSUME TypeInv, SafeInv, NEW t \in Tasks, pc[t] # "idle"
  PROVE  /\ step \in {0, 1, 12, 13} /\ Uniform /\ owner # <<>> /\ Len(owner) \in 1 .. Len(owner)
         /\ cb["select"] \in {"spi", "pio"} /\ \A s \in Slots : cb[s] = cb["select"]
         /\ cb["select"] = "spi" => pins = "spi"
         /\ Inside(t) => \A u \in Tasks : u # t => ~Inside(u) /\ pc[u] \in {"idle", "enter"}
  <1>1. step \in {0, 1, 12, 13} /\ Uniform
    BY DEF SafeInv, BusInv, Quiet
  <1>2. owner # <<>> /\ Len(owner) \in 1 .. Len(owner)
    <2>1. "enter" \in Slots
      BY DEF Slots
    <2>2. owner # <<>>
      BY <1>1, <2>1 DEF Uniform, TypeInv, SectionMade
    <2> QED
      BY <2>2 DEF TypeInv, TypeOK
  <1>3. Inside(t) => \A u \in Tasks : u # t => ~Inside(u)
    BY DEF SafeInv, SectionInv
  <1>4. \A u \in Tasks : ~Inside(u) => pc[u] \in {"idle", "enter"}
    BY DEF Inside, TypeInv, TypeOK
  <1>5. "select" \in Slots
    BY DEF Slots
  <1> QED
    BY <1>1, <1>2, <1>3, <1>4, <1>5 DEF Uniform

\* What the task in the critical section does is of no concern to the other.
LEMMA InsideSafe ==
  ASSUME TypeInv, ProgressInv, SafeInv, NEW t \in Tasks, Inside(t),
         UNCHANGED <<cb, owner, mode, step, op>>,
         pins' = pins \/ pins' = cb["select"],
         NEW to \in {"select", "head", "data", "deselect", "exit"}, pc' = [pc EXCEPT ![t] = to],
         AccessOf(t)'
  PROVE  SafeInv'
  <1>1. pc[t] # "idle" /\ pc[t] \in {"select", "head", "data", "deselect", "exit"}
    BY DEF Inside
  <1>2. \A u \in Tasks : u # t => pc'[u] = pc[u] /\ pc[u] \in {"idle", "enter"}
    BY <1>1, AtWork DEF TypeInv, TypeOK
  <1>3. pc'[t] = to
    BY DEF TypeInv, TypeOK
  <1>4. BusInv'
    <2>1. Uniform /\ \A s \in Slots : cb[s] = cb["select"]
      BY <1>1, AtWork
    <2>2. "select" \in Slots /\ (cb["select"] = "spi" => pins' = "spi")
      BY <1>1, AtWork DEF Slots
    <2>3. Uniform'
      BY <2>1, <2>2 DEF Uniform
    <2>4. step \in {0, 1, 12, 13}
      BY <1>1, AtWork
    <2>5. mode = "spinormal" /\ step >= 2 => pins' = "spi"
      <3> SUFFICES ASSUME mode = "spinormal", step >= 2 PROVE cb["select"] = "spi"
        BY <2>2
      <3>1. step \in {12, 13}
        BY <2>4
      <3> QED
        BY <2>2, <3>1, AllDone DEF BusOf
    <2> QED
      BY <2>3, <2>4, <2>5 DEF BusInv
  <1>5. SectionInv'
    BY <1>1, <1>2, <1>3 DEF SafeInv, SectionInv, Inside
  <1>6. AccessInv'
    BY <1>2, <1>3 DEF AccessInv, AccessOf, Inside
  <1> QED
    BY <1>4, <1>5, <1>6 DEF SafeInv

\* Every step of an accessor leaves the bus to the task as the next step wants it.
LEMMA AccessSafe ==
  ASSUME TypeInv, ProgressInv, SafeInv, NEW t \in Tasks, Access(t)
  PROVE  SafeInv'
  <1>1. pc[t] # "idle" /\ pc \in [Tasks -> {"idle", "enter", "select", "head", "data", "deselect", "exit"}]
    BY DEF Access, Enter, Select, Header, Data, Deselect, Exit, In, TypeInv, TypeOK
  <1>2. /\ Uniform /\ owner # <<>> /\ Len(owner) \in 1 .. Len(owner)
        /\ cb["select"] \in {"spi", "pio"} /\ \A s \in Slots : cb[s] = cb["select"]
        /\ cb["select"] = "spi" => pins = "spi"
    BY <1>1, AtWork DEF Uniform
  <1>3. /\ "select" \in Slots /\ "deselect" \in Slots /\ "read_byte" \in Slots
        /\ "write_byte" \in Slots /\ "read_burst" \in Slots /\ "write_burst" \in Slots
        /\ "enter" \in Slots /\ "exit" \in Slots
    BY DEF Slots
  <1>4. HeadSlot(op[t]) = "write_burst" /\ DataSlot(op[t]) \in Slots
    BY <1>2, <1>3 DEF HeadSlot, DataSlot
  <1>5. CASE Enter(t)
    <2>1. /\ pc[t] = "enter" /\ pc' = [pc EXCEPT ![t] = "select"] /\ owner[Len(owner)] = "nobody"
          /\ owner' = [owner EXCEPT ![Len(owner)] = t]
          /\ UNCHANGED <<op, mode, step, cb, pins, cs, saved, latched>>
      BY <1>2, <1>3, <1>5 DEF Enter, Holder, Goes, In, init, chip
    <2>2. \A u \in Tasks : ~Inside(u)
      BY <1>2, <2>1 DEF SafeInv, SectionInv, Tasks
    <2>3. \A u \in Tasks : Inside(u)' <=> u = t
      BY <1>1, <2>1, <2>2 DEF Inside
    <2>4. /\ owner \in Seq(Tasks \cup {"nobody"}) /\ Len(owner') = Len(owner)
          /\ \A i \in 1 .. Len(owner) : owner'[i] = IF i = Len(owner) THEN t ELSE owner[i]
      BY <1>2, <2>1 DEF TypeInv, TypeOK
    <2>8. owner' # <<>> /\ owner'[Len(owner')] = t /\ \A u \in Tasks : u # t => owner'[Len(owner')] # u
      BY <1>2, <2>4
    <2>9. \A i \in 1 .. Len(owner') : i # Len(owner') => owner'[i] = "nobody"
      BY <2>4 DEF SafeInv, SectionInv
    <2>5. SectionInv'
      BY <2>3, <2>8, <2>9 DEF SectionInv
    <2>6. BusInv'
      BY <1>1, <1>2, <2>1, AtWork DEF SafeInv, BusInv, Uniform
    <2>7. AccessInv'
      BY <1>1, <2>1, <2>2, <2>3 DEF SafeInv, AccessInv, AccessOf, Untouched, Inside
    <2> QED
      BY <2>5, <2>6, <2>7 DEF SafeInv
  <1>6. CASE Select(t)
    <2>1. /\ pc[t] = "select" /\ pc' = [pc EXCEPT ![t] = "head"] /\ saved' = saved
          /\ pins' = IF cb["select"] = "pio" THEN "pio" ELSE pins
          /\ cs' = (cs \/ cb["select"] # "none") /\ latched' = IF cs THEN latched ELSE <<>>
          /\ UNCHANGED <<cb, owner, mode, step, op>>
      BY <1>6 DEF Select, Goes, In, init
    <2>2. Untouched /\ Inside(t)
      BY <2>1 DEF SafeInv, AccessInv, AccessOf, Inside
    <2>3. Fresh(cb["select"])' /\ saved' = <<>>
      BY <1>2, <2>1, <2>2 DEF Untouched, Fresh
    <2>4. AccessOf(t)'
      BY <1>1, <2>1, <2>3 DEF AccessOf
    <2> QED
      BY <2>1, <2>2, <2>4, InsideSafe
  <1>7. CASE Header(t)
    <2> DEFINE to == IF op[t].fn = "WRITE" THEN "deselect" ELSE "data"
    <2>1. /\ pc[t] = "head" /\ pc' = [pc EXCEPT ![t] = to]
          /\ UNCHANGED <<cb, owner, pins, cs, mode, step, op>>
          /\ HeadSpi(t) \/ HeadPio(t) \/ HeadNone(t)
      BY <1>7 DEF Header, Goes, In, init
    <2>2. Fresh(cb["select"]) /\ saved = <<>> /\ Inside(t)
      BY <2>1 DEF SafeInv, AccessInv, AccessOf, Inside
    <2>3. cb["select"] = "spi" => latched' = <<HeaderOf(op[t])>> /\ saved' = saved
      BY <1>2, <1>3, <1>4, <2>1 DEF HeadSpi, HeadPio, HeadNone
    <2>4. cb["select"] = "pio" =>
            IF op[t].fn = "WRITE" THEN saved' = <<>>
            ELSE saved' = <<HeaderOf(op[t])>> /\ latched' = latched
      BY <1>2, <1>3, <1>4, <2>1, <2>2 DEF HeadSpi, HeadPio, HeadNone
    <2>5. AccessOf(t)'
      BY <1>1, <1>2, <2>1, <2>2, <2>3, <2>4 DEF AccessOf, Fresh, HeaderOf, isRead
    <2> QED
      BY <2>1, <2>2, <2>5, InsideSafe
  <1>8. CASE Data(t)
    <2>1. /\ pc[t] = "data" /\ pc' = [pc EXCEPT ![t] = "deselect"]
          /\ UNCHANGED <<cb, owner, pins, cs, mode, step, op>>
          /\ DataSpi(t) \/ DataPio(t) \/ DataFails(t)
      BY <1>8 DEF Data, Goes, In, init
    <2>2. Inside(t) /\ cb["select"] = "spi" => saved = <<>>
      BY <2>1 DEF SafeInv, AccessInv, AccessOf, Inside
    <2>3. cb["select"] = "pio" => saved # <<>>
      BY <2>1 DEF SafeInv, AccessInv, AccessOf
    <2>4. saved' = <<>>
      BY <1>2, <1>4, <2>1, <2>2, <2>3 DEF DataSpi, DataPio, DataFails, Inside
    <2>5. AccessOf(t)'
      BY <1>1, <2>1, <2>4 DEF AccessOf
    <2>6. Inside(t)
      BY <2>1 DEF Inside
    <2> QED
      BY <2>1, <2>5, <2>6, InsideSafe
  <1>9. CASE Deselect(t)
    <2>1. /\ pc[t] = "deselect" /\ pc' = [pc EXCEPT ![t] = "exit"]
          /\ cs' = FALSE /\ latched' = <<>> /\ saved' = saved
          /\ UNCHANGED <<cb, owner, pins, mode, step, op>>
      BY <1>2, <1>3, <1>9 DEF Deselect, Deselected, Goes, In, init
    <2>2. Inside(t) /\ saved = <<>>
      BY <2>1 DEF SafeInv, AccessInv, AccessOf, Inside
    <2>3. AccessOf(t)'
      BY <1>1, <2>1, <2>2 DEF AccessOf, Untouched
    <2> QED
      BY <2>1, <2>2, <2>3, InsideSafe
  <1>10. CASE Exit(t)
    <2>1. /\ pc[t] = "exit" /\ pc' = [pc EXCEPT ![t] = "idle"]
          /\ owner' = [owner EXCEPT ![Len(owner)] = "nobody"]
          /\ UNCHANGED <<mode, step, cb, pins, cs, saved, latched>>
      BY <1>2, <1>3, <1>10 DEF Exit, Holder, In, init, chip
    <2>2. Untouched /\ Inside(t)
      BY <2>1 DEF SafeInv, AccessInv, AccessOf, Inside
    <2>3. \A u \in Tasks : ~Inside(u)' /\ pc'[u] \in {"idle", "enter"}
      BY <1>1, <2>1, <2>2, AtWork DEF Inside
    <2>4. /\ owner \in Seq(Tasks \cup {"nobody"}) /\ Len(owner') = Len(owner)
          /\ \A i \in 1 .. Len(owner) : owner'[i] = IF i = Len(owner) THEN "nobody" ELSE owner[i]
      BY <1>2, <2>1 DEF TypeInv, TypeOK
    <2>8. "nobody" \notin Tasks /\ owner'[Len(owner')] = "nobody"
      BY <1>2, <2>4 DEF Tasks
    <2>9. \A i \in 1 .. Len(owner') : i # Len(owner') => owner'[i] = "nobody"
      BY <2>4 DEF SafeInv, SectionInv
    <2>5. SectionInv'
      BY <2>3, <2>8, <2>9 DEF SectionInv
    <2>6. BusInv'
      BY <1>1, <1>2, <2>1, AtWork DEF SafeInv, BusInv, Uniform
    <2>7. AccessInv'
      BY <2>1, <2>2, <2>3 DEF SafeInv, AccessInv, AccessOf, Untouched
    <2> QED
      BY <2>5, <2>6, <2>7 DEF SafeInv
  <1> QED
    BY <1>5, <1>6, <1>7, <1>8, <1>9, <1>10 DEF Access

UnlessMisused == ~misused => SafeInv

LEMMA SafeStep ==
  ASSUME TypeInv, ProgressInv, UnlessMisused, [Next]_vars
  PROVE  UnlessMisused'
  <1> SUFFICES ASSUME ~misused' PROVE SafeInv'
    BY DEF UnlessMisused
  <1>0. misused => misused'
    BY DEF Next, vars, InitCommand, SpiInit, PioOpen, InitFails, Dies, NewSection, ChipOff, Register,
       SetupCall, Call, StartInit, ShellCall, PollCall, Access, Enter, Select, Header, Data,
       Deselect, Exit, Goes, Change, View, Ready, Changes
  <1>1. SafeInv /\ mode \in Modes /\ step \in 0 .. 13
    BY <1>0, ProgramOf DEF UnlessMisused, TypeInv, TypeOK
  <1>2. CASE SpiInit \/ PioOpen \/ NewSection \/ ChipOff \/ \E s \in Slots : Register(s)
    BY <1>1, <1>2, InitSafe
  <1>3. CASE SetupCall
    <2>1. Call("cli", SetupOp) /\ step = 12 /\ step' = 13 /\ "cli" \in Tasks
      BY <1>3, StepTypes DEF SetupCall, Tasks
    <2> QED
      BY <1>1, <2>1, CallSafe
  <1>4. ASSUME NEW o, ShellCall(o) \/ PollCall(o) PROVE SafeInv'
    <2>1. PICK t \in Tasks : Call(t, o) /\ step' = step
      BY <1>4 DEF ShellCall, PollCall, Tasks
    <2>2. step' = step \/ (step = 12 /\ step' = 13)
      BY <2>1
    <2>3. Call(t, o)
      BY <2>1
    <2> QED
      BY <1>1, <2>2, <2>3, CallSafe
  <1>5. ASSUME NEW t \in Tasks, Access(t) PROVE SafeInv'
    BY <1>1, <1>5, AccessSafe
  <1>6. CASE Ready
    <2>1. /\ step' = 0 /\ pc["cli"] = "idle"
          /\ UNCHANGED <<cb, owner, pins, cs, saved, latched, pc, op, mode>>
      BY <1>6 DEF Ready, In, bus, chip, task
    <2>2. step = 13
      BY <1>1, <1>6, Places DEF Ready, At
    <2>3. \A s \in Slots : cb[s] = BusOf(mode)
      BY <2>2, AllDone
    <2>4. Uniform
      BY <1>1, <2>2, <2>3 DEF SafeInv, BusInv, Uniform, BusOf
    <2>5. BusInv'
      BY <2>1, <2>4 DEF BusInv, Uniform
    <2> QED
      BY <1>1, <2>1, <2>5 DEF SafeInv, SectionInv, AccessInv, AccessOf, Inside, Untouched, Fresh
  <1>7. ASSUME NEW m \in DOMAIN Program, StartInit(m) PROVE SafeInv'
    <2>1. /\ step = 0 /\ step' = 1
          /\ UNCHANGED <<cb, owner, pins, cs, saved, latched, pc, op>>
      BY <1>7 DEF StartInit, bus, chip, task
    <2>2. BusInv'
      BY <1>1, <2>1 DEF SafeInv, BusInv, Quiet, Uniform
    <2> QED
      BY <1>1, <2>1, <2>2 DEF SafeInv, SectionInv, AccessInv, AccessOf, Inside, Untouched, Fresh
  <1>8. CASE InitFails \/ View \/ (\E r \in Volatile : Change(r)) \/ UNCHANGED vars
    <2>1. UNCHANGED <<cb, owner, pins, cs, saved, latched, pc, op, mode, step>>
      BY <1>8 DEF InitFails, Dies, View, Change, vars, bus, chip, task, init
    <2> QED
      BY <1>1, <2>1 DEF SafeInv, BusInv, Quiet, Uniform, SectionInv, AccessInv, AccessOf, Inside,
         Untouched, Fresh
  <1> QED
    BY <1>2, <1>3, <1>4, <1>5, <1>6, <1>7, <1>8 DEF Next, InitCommand

LEMMA SafeInvariant == Spec => [](TypeInv /\ ProgressInv /\ StatusInv /\ UnlessMisused)
  <1>1. Init => UnlessMisused
    BY DEF Init, UnlessMisused, SafeInv, BusInv, SectionInv, AccessInv, AccessOf, Quiet, Inside,
       Untouched
  <1>2. TypeInv /\ ProgressInv /\ UnlessMisused /\ [Next]_vars => UnlessMisused'
    BY SafeStep
  <1> QED
    BY ProgressInvariant, <1>1, <1>2, PTL DEF Spec

\* LeavesNoTrace: for any accesses of either task, whatever steps of the two and of
\* w5500 init come between.
THEOREM AccessesLeaveNoTrace == Spec => []LeavesNoTrace
  <1>1. TypeInv /\ UnlessMisused => LeavesNoTrace
    BY QuietBus DEF UnlessMisused, LeavesNoTrace, Untouched
  <1> QED
    BY SafeInvariant, <1>1, PTL

-----------------------------------------------------------------------------
(* What stops the firmware.                                                *)

\* A task that sends a header or data finds the bus it needs, and with the PIO the
\* header that goes before the data.
LEMMA AtHead ==
  ASSUME TypeInv, SafeInv, NEW t \in Tasks, In(t, "head")
  PROVE  /\ ~HeadNone(t) /\ Fresh(cb[HeadSlot(op[t])]) /\ saved = <<>>
         /\ HeadSlot(op[t]) = "write_burst"
  <1>1. pc[t] = "head" /\ pc[t] # "idle"
    BY DEF In
  <1>2. cb["select"] \in {"spi", "pio"} /\ \A s \in Slots : cb[s] = cb["select"]
    BY <1>1, AtWork
  <1>3. HeadSlot(op[t]) = "write_burst" /\ "write_burst" \in Slots
    BY <1>2 DEF HeadSlot, Slots
  <1>4. Fresh(cb["select"]) /\ saved = <<>>
    BY <1>1 DEF SafeInv, AccessInv, AccessOf
  <1> QED
    BY <1>2, <1>3, <1>4 DEF HeadNone

LEMMA AtData ==
  ASSUME TypeInv, SafeInv, NEW t \in Tasks, In(t, "data")
  PROVE  /\ ~DataFails(t) /\ op[t].fn # "WRITE"
         /\ cb[DataSlot(op[t])] = "spi" => cs /\ pins = "spi" /\ latched = <<HeaderOf(op[t])>>
         /\ cb[DataSlot(op[t])] = "pio" => Fresh("pio") /\ saved = <<HeaderOf(op[t])>>
  <1>1. pc[t] = "data" /\ pc[t] # "idle"
    BY DEF In
  <1>2. cb["select"] \in {"spi", "pio"} /\ \A s \in Slots : cb[s] = cb["select"]
    BY <1>1, AtWork
  <1>3. DataSlot(op[t]) \in Slots
    BY DEF DataSlot, Slots
  <1>4. /\ cs /\ pins = cb["select"] /\ op[t].fn # "WRITE"
        /\ cb["select"] = "spi" => latched = <<HeaderOf(op[t])>>
        /\ cb["select"] = "pio" => latched = <<>> /\ saved = <<HeaderOf(op[t])>>
    BY <1>1 DEF SafeInv, AccessInv, AccessOf
  <1>5. cb[DataSlot(op[t])] = cb["select"]
    BY <1>2, <1>3
  <1> QED
    BY <1>2, <1>4, <1>5 DEF DataFails, Fresh

\* NoPanic: the assertions on the header and the panics behind write_byte are not
\* reached by any accesses, whatever the number of channels.
THEOREM OnlyTheseStop == Spec => NoPanic
  <1> DEFINE Why == \/ misused' \/ (At("pio_open") /\ pio) \/ (Registering /\ channels < 2)
  <1>1. TypeInv /\ UnlessMisused /\ [Next]_vars => [dead' => Why]_vars
    <2> SUFFICES ASSUME TypeInv, UnlessMisused, Next, dead', ~misused' PROVE Why
      BY DEF vars
    <2>1. CASE InitFails
      <3>1. /\ At("spi_init") \/ At("pio_open")
            /\ channels < 2 \/ (At("pio_open") /\ pio)
        BY <2>1 DEF InitFails
      <3>2. Registering
        BY <3>1, StepTypes DEF Registering
      <3> QED
        BY <3>1, <3>2
    <2>2. ASSUME NEW t \in Tasks, Access(t) PROVE FALSE
      <3>1. misused' = misused /\ SafeInv /\ ~dead
        BY <2>2 DEF Access, Enter, Select, Header, Data, Deselect, Exit, Goes, In, UnlessMisused
      <3>2. CASE Header(t)
        BY <3>1, <3>2, AtHead DEF Header, HeadSpi, HeadPio
      <3>3. CASE Data(t)
        BY <3>1, <3>3, AtData DEF Data, DataSpi, DataPio
      <3>4. CASE Enter(t) \/ Select(t) \/ Deselect(t) \/ Exit(t)
        BY <3>1, <3>4 DEF Enter, Select, Deselect, Exit
      <3> QED
        BY <2>2, <3>2, <3>3, <3>4 DEF Access
    <2>3. CASE ~InitFails /\ \A t \in Tasks : ~Access(t)
      BY <2>3 DEF Next, InitCommand, SpiInit, PioOpen, NewSection, ChipOff, Register, SetupCall, Call,
         StartInit, ShellCall, PollCall, Change, View, Ready, At, In
    <2> QED
      BY <2>1, <2>2, <2>3
  <1> QED
    BY SafeInvariant, <1>1, PTL DEF Spec, NoPanic
-----------------------------------------------------------------------------
(* The accessors implement registers.                                      *)

\* A task that moves in an accessor changes what it asks for, and nothing that the
\* other does.
LEMMA AskedOf ==
  ASSUME TypeInv, NEW t \in Tasks, NEW p, pc' = [pc EXCEPT ![t] = p],
         \A u \in Tasks : u # t => op'[u] = op[u]
  PROVE  asked' = [asked EXCEPT ![t] = asked'[t]]
  <1>1. \A u \in Tasks : u # t => pc'[u] = pc[u]
    BY DEF TypeInv, TypeOK
  <1>2. \A u \in Tasks : u # t => asked'[u] = asked[u]
    BY <1>1 DEF asked
  <1>3. asked = [u \in Tasks |-> asked[u]] /\ asked' = [u \in Tasks |-> asked'[u]]
    BY DEF asked
  <1> QED
    BY <1>2, <1>3

LEMMA ServedOnce ==
  ASSUME TypeInv, ~misused, NEW t \in Tasks, pc[t] \in {"head", "data"}, Served(t),
         pc' = [pc EXCEPT ![t] = "deselect"], op' = op
  PROVE  Regis!Serve(t)
  <1>1. op[t] \in AllOps
    BY DEF TypeInv, TypeOK
  <1>2. isRead(op[t]) \in BOOLEAN
    BY <1>1, OpTypes
  <1>3. asked[t] = [kind |-> IF isRead(op[t]) THEN "read" ELSE "write",
                    reg |-> op[t].reg, val |-> op[t].val]
    BY DEF asked
  <1>4. asked'[t] = [kind |-> "done"]
    BY DEF asked, TypeInv, TypeOK
  <1>5. asked' = [asked EXCEPT ![t] = [kind |-> "done"]]
    BY <1>4, AskedOf
  <1>6. CASE isRead(op[t])
    <2>1. got' = [got EXCEPT ![t] = mem[op[t].reg]] /\ mem' = mem
      BY <1>6 DEF Served
    <2> QED
      BY <1>3, <1>5, <1>6, <2>1 DEF Regis!Serve
  <1>7. CASE ~isRead(op[t])
    <2>1. mem' = [mem EXCEPT ![op[t].reg] = op[t].val] /\ got' = got
      BY <1>7 DEF Served
    <2> QED
      BY <1>3, <1>5, <1>7, <2>1 DEF Regis!Serve
  <1> QED
    BY <1>2, <1>6, <1>7

\* The two steps that take the access to the chip serve it; the other steps of an
\* accessor are not seen, but for the return.
LEMMA AccessServes ==
  ASSUME TypeInv, SafeInv, ~misused, NEW t \in Tasks, Access(t)
  PROVE  Regis!Serve(t) \/ Regis!Answer(t) \/ UNCHANGED <<mem, asked, got>>
  <1>1. ASSUME UNCHANGED <<mem, got>>, NEW p, pc' = [pc EXCEPT ![t] = p], op' = op,
               \/ {pc[t], p} \subseteq {"enter", "select", "head", "data"}
               \/ {pc[t], p} \subseteq {"deselect", "exit"}
        PROVE  UNCHANGED <<mem, asked, got>>
    <2>1. pc'[t] = p
      BY <1>1 DEF TypeInv, TypeOK
    <2>2. asked'[t] = asked[t]
      BY <1>1, <2>1 DEF asked
    <2>3. asked' = [asked EXCEPT ![t] = asked[t]]
      BY <1>1, <2>2, AskedOf
    <2>4. asked' = asked
      BY <2>3 DEF asked
    <2> QED
      BY <1>1, <2>4
  <1>2. CASE Enter(t)
    BY <1>1, <1>2 DEF Enter, Goes, In, chip
  <1>3. CASE Select(t)
    BY <1>1, <1>3 DEF Select, Goes, In
  <1>4. CASE Header(t)
    <2>1. /\ In(t, "head") /\ op' = op
          /\ pc' = [pc EXCEPT ![t] = IF op[t].fn = "WRITE" THEN "deselect" ELSE "data"]
      BY <1>4 DEF Header, Goes
    <2>2. HeadSpi(t) \/ HeadPio(t)
      BY <1>4, <2>1, AtHead DEF Header
    <2>3. CASE op[t].fn = "WRITE"
      <3>1. Served(t)
        BY <2>1, <2>2, <2>3, AtHead DEF HeadSpi, HeadPio
      <3> QED
        BY <2>1, <2>3, <3>1, ServedOnce DEF In
    <2>4. CASE op[t].fn # "WRITE"
      <3>1. UNCHANGED <<mem, got>>
        BY <2>1, <2>2, <2>4, AtHead DEF HeadSpi, HeadPio
      <3> QED
        BY <1>1, <2>1, <2>4, <3>1 DEF In
    <2> QED
      BY <2>3, <2>4
  <1>5. CASE Data(t)
    <2>1. In(t, "data") /\ op' = op /\ pc' = [pc EXCEPT ![t] = "deselect"]
      BY <1>5 DEF Data, Goes
    <2>2. DataSpi(t) \/ DataPio(t)
      BY <1>5, <2>1, AtData DEF Data
    <2>3. Served(t)
      BY <2>1, <2>2, AtData DEF DataSpi, DataPio
    <2> QED
      BY <2>1, <2>3, ServedOnce DEF In
  <1>6. CASE Deselect(t)
    BY <1>1, <1>6 DEF Deselect, Goes, In
  <1>7. CASE Exit(t)
    <2>1. /\ pc[t] = "exit" /\ pc' = [pc EXCEPT ![t] = "idle"] /\ UNCHANGED <<mem, got>>
          /\ op' = [op EXCEPT ![t] = SetupOp]
      BY <1>7 DEF Exit, In, chip
    <2>2. asked[t] = [kind |-> "done"] /\ asked'[t] = [kind |-> "none"]
      BY <2>1 DEF asked, TypeInv, TypeOK
    <2>3. asked' = [asked EXCEPT ![t] = [kind |-> "none"]]
      BY <2>1, <2>2, AskedOf DEF TypeInv, TypeOK
    <2> QED
      BY <2>1, <2>2, <2>3 DEF Regis!Answer, Regis!NoOp
  <1> QED
    BY <1>2, <1>3, <1>4, <1>5, <1>6, <1>7 DEF Access

LEMMA CallAsks ==
  ASSUME TypeInv, NEW t \in Tasks, NEW o \in AllOps, Call(t, o)
  PROVE  \E a \in [kind : {"read", "write"}, reg : Regs, val : Vals] : Regis!Ask(t, a)
  <1>1. /\ pc[t] = "idle" /\ pc' = [pc EXCEPT ![t] = "enter"]
        /\ op' = [op EXCEPT ![t] = o] /\ UNCHANGED <<mem, got>>
    BY DEF Call, In, chip
  <1> DEFINE a == [kind |-> IF isRead(o) THEN "read" ELSE "write",
                   reg |-> o.reg, val |-> o.val]
  <1>2. a \in [kind : {"read", "write"}, reg : Regs, val : Vals]
    BY OpTypes
  <1>3. asked[t] = [kind |-> "none"] /\ asked'[t] = a
    BY <1>1 DEF asked, TypeInv, TypeOK
  <1>4. asked' = [asked EXCEPT ![t] = a]
    BY <1>1, <1>3, AskedOf DEF TypeInv, TypeOK
  <1> QED
    BY <1>1, <1>2, <1>3, <1>4 DEF Regis!Ask, Regis!NoOp

LEMMA RegistersStep ==
  ASSUME TypeInv, UnlessMisused, [Next]_vars
  PROVE  [Regis!RegistersNext]_<<mem, asked, got, misused>>
  <1> SUFFICES ASSUME ~misused'
               PROVE  Regis!RegistersNext \/ UNCHANGED <<mem, asked, got, misused>>
    BY DEF Regis!RegistersNext
  <1>0. misused \in BOOLEAN /\ misused' \in BOOLEAN
    BY TypeStep DEF TypeInv, TypeOK
  <1>1. (misused => misused')
    BY DEF Next, vars, InitCommand, SpiInit, PioOpen, InitFails, Dies, NewSection, ChipOff, Register,
       SetupCall, Call, StartInit, ShellCall, PollCall, Access, Enter, Select, Header, Data,
       Deselect, Exit, Goes, Change, View, Ready, Changes
  <1>2. ~misused /\ SafeInv /\ misused' = misused
    BY <1>0, <1>1 DEF UnlessMisused
  <1>3. ASSUME NEW t \in Tasks, Access(t)
        PROVE  Regis!RegistersNext \/ UNCHANGED <<mem, asked, got, misused>>
    BY <1>2, <1>3, AccessServes DEF Regis!RegistersNext
  <1>4. ASSUME NEW t \in Tasks, NEW o \in AllOps, Call(t, o) PROVE Regis!RegistersNext
    BY <1>4, CallAsks DEF Regis!RegistersNext
  <1>5. CASE SetupCall \/ (\E o \in ShellOps : ShellCall(o)) \/ \E o \in PollOps : PollCall(o)
    <2>1. \E t \in Tasks, o \in AllOps : Call(t, o)
      BY <1>5 DEF SetupCall, ShellCall, PollCall, Tasks, AllOps
    <2> QED
      BY <1>4, <2>1
  <1>6. CASE PioOpen
    <2>1. mem' = Blank /\ UNCHANGED <<pc, op, got>>
      BY <1>6 DEF PioOpen, task
    <2> QED
      BY <2>1 DEF Regis!RegistersNext, Regis!Reset, asked
  <1>7. ASSUME NEW r \in Volatile, Change(r) PROVE Regis!RegistersNext
    <2>1. (\E v \in Vals : mem' = [mem EXCEPT ![r] = v]) /\ UNCHANGED <<pc, op, got>>
      BY <1>7 DEF Change, task
    <2> QED
      BY <2>1 DEF Regis!RegistersNext, Regis!Change, asked
  <1>8. CASE \/ SpiInit \/ InitFails \/ NewSection \/ ChipOff \/ Ready \/ View \/ UNCHANGED vars
             \/ (\E s \in Slots : Register(s)) \/ \E m \in DOMAIN Program : StartInit(m)
    <2>1. UNCHANGED <<mem, pc, op, got>>
      BY <1>8 DEF SpiInit, InitFails, Dies, NewSection, ChipOff, Ready, View, vars, Register, StartInit,
         task, chip
    <2> QED
      BY <1>2, <2>1 DEF asked
  <1> QED
    BY <1>3, <1>5, <1>6, <1>7, <1>8 DEF Next, InitCommand

\* IsRegisters: over either bus, with any accesses of the two tasks in any order, every
\* access takes effect once, between its call and its return, until the bus is misused.
THEOREM ImplementsRegisters == Spec => IsRegisters
  <1>1. Init => Regis!RegistersInit
    BY DEF Init, Regis!RegistersInit, Regis!NoOp, asked
  <1>2. TypeInv /\ UnlessMisused /\ [Next]_vars => [Regis!RegistersNext]_<<mem, asked, got, misused>>
    BY RegistersStep
  <1> QED
    BY SafeInvariant, <1>1, <1>2, PTL DEF Spec, IsRegisters, Regis!RegistersSpec
=============================================================================
