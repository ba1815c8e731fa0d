----------------------------- MODULE Registers -----------------------------
(***************************************************************************)
(* What the accessors of the chip (WIZCHIP_READ, WIZCHIP_WRITE and their   *)
(* buffer forms) promise the tasks that call them: a memory.  Each access  *)
(* takes effect at one moment between its call and its return, on the      *)
(* register it names.  Some registers change by themselves.  Once broken,  *)
(* nothing is promised.                                                    *)
(***************************************************************************)
CONSTANTS Tasks, Ops,   \* [kind, reg, val]: what a task asks for
          Volatile,     \* registers that the chip changes
          Vals, Blank   \* their values, and all registers after a reset

VARIABLES mem, asked, got, broken  \* asked: the access in progress, got: last read

NoOp == [kind |-> "none"]

Ask(t, op)  == /\ asked[t] = NoOp
               /\ asked' = [asked EXCEPT ![t] = op] /\ UNCHANGED <<mem, got>>
Serve(t)    == /\ asked[t].kind \in {"read", "write"}
               /\ asked' = [asked EXCEPT ![t] = [kind |-> "done"]]
               /\ IF asked[t].kind = "write"
                  THEN /\ mem' = [mem EXCEPT ![asked[t].reg] = asked[t].val]
                       /\ UNCHANGED got
                  ELSE got' = [got EXCEPT ![t] = mem[asked[t].reg]] /\ UNCHANGED mem
Answer(t)   == /\ asked[t].kind = "done"
               /\ asked' = [asked EXCEPT ![t] = NoOp] /\ UNCHANGED <<mem, got>>
Change(r)   == \E v \in Vals : mem' = [mem EXCEPT ![r] = v] /\ UNCHANGED <<asked, got>>
Reset       == mem' = Blank /\ UNCHANGED <<asked, got>>

RegistersInit == mem = Blank /\ asked = [t \in Tasks |-> NoOp] /\ ~broken
RegistersNext ==
  \/ broken'
  \/ /\ ~broken'
     /\ \/ \E t \in Tasks : Serve(t) \/ Answer(t) \/ \E op \in Ops : Ask(t, op)
        \/ Reset \/ \E r \in Volatile : Change(r)
RegistersSpec == RegistersInit /\ [][RegistersNext]_<<mem, asked, got, broken>>
=============================================================================
