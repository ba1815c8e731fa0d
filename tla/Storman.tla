------------------------------ MODULE Storman ------------------------------
(***************************************************************************)
(* The shell's flash0 command and the storagemanager service.              *)
(*                                                                         *)
(* flash0 (cli/node_mnt.c) copies a request into the one-slot              *)
(* storman_queue, waiting at most SEND_TICKS for room, and for the actions *)
(* that produce data then waits on a binary semaphore for 2*DELAY_STORMAN  *)
(* ticks before it prints the shared buffer smi_glob.  The service         *)
(* (services/storman_service.c) polls the queue every DELAY_STORMAN ticks, *)
(* receives straight into smi_glob and gives the semaphore when an action  *)
(* that produces data succeeds.                                            *)
(*                                                                         *)
(* The request carries no identity in the code; the field id names the     *)
(* command it came from, so that the properties can say whose data is      *)
(* printed.  Time is counted in RTOS ticks: ct is the time the shell has   *)
(* waited, st the time the service has spent in the present operation or   *)
(* in the present sleep, and no deadline is passed without being served.   *)
(***************************************************************************)
EXTENDS Integers, Sequences

CONSTANTS
  DELAY_STORMAN,  \* ticks the service sleeps between two polls of its queue
  SEND_TICKS,     \* ticks storman_request waits for room in the queue
  MaxOp,          \* bound: ticks between a receive and the next sleep
  MaxCmds,        \* bound: flash0 commands typed
  MaxRestarts     \* bound: times the service is killed

ASSUME ConstantsAreTimes ==
  /\ DELAY_STORMAN \in Nat \ {0}
  /\ SEND_TICKS \in Nat
  /\ MaxOp \in Nat
  /\ MaxCmds \in Nat
  /\ MaxRestarts \in Nat

VARIABLES
  cpc, ct, cur, ncmd, cgen, fate, shown,  \* the shell inside flash0
  storman_queue, smi_glob,                \* shared with the service
  sem, gen,                               \* semaphores made, the current one
  spc, st, handle, leaked,                \* the service
  visible, restarts                       \* /mnt is mounted; kills so far

cliVars     == <<cpc, ct, cur, ncmd, cgen, shown>>
stormanVars == <<spc, st, handle, leaked>>
vars == <<cpc, ct, cur, ncmd, cgen, fate, shown, storman_queue, smi_glob,
          sem, gen, spc, st, handle, leaked, visible, restarts>>
-----------------------------------------------------------------------------
Actions == {"LSDIR", "MKDIR", "RMDIR", "MKFILE", "RMFILE", "DUMPFILE",
            "READFILE", "WRITEFILE", "APPENDFILE", "FILESTAT", "FSSTAT",
            "FORMAT"}

\* Actions whose command waits for the semaphore and prints smi_glob.
Answered == {"LSDIR", "DUMPFILE", "READFILE", "FILESTAT", "FSSTAT", "FORMAT"}

\* Actions that open the file handle flash0_file, and all that open a handle.
FileActions   == {"MKFILE", "DUMPFILE", "READFILE", "WRITEFILE", "APPENDFILE"}
HandleActions == FileActions \cup {"LSDIR"}

STORMAN_QUEUE_DEPTH == 1
\* Mutant of TAKE_TICKS: the shell waits for one polling period only.
TakeOnePeriod       == DELAY_STORMAN
TAKE_TICKS          == DELAY_STORMAN * 2

Cmds     == 0 .. MaxCmds
Requests == [id : Cmds, action : Actions]
\* smi_glob: a request just received, or the answer the service built from it.
Globals  == [id : Cmds, action : Actions, data : {"request", "answer"}]
Gens     == 1 .. MaxRestarts + 1     \* semaphores that can be created

CliPcs  == {"idle", "send", "take", "wait", "print", "rest", "fault"}
Working == {"work", "body", "give", "close", "report"}
SmPcs   == {"mount", "create", "sleep", "dead"} \cup Working
\* Where an action that produces data has not yet given the semaphore.
BeforeGive == {"work", "body", "give"}

NoRequest == [id |-> 0, action |-> "MKDIR"]

Init ==
  /\ cpc = "idle" /\ ct = 0 /\ cur = NoRequest /\ ncmd = 0 /\ cgen = 0
  /\ fate = "queued" /\ shown = {}
  /\ storman_queue = <<>>
  /\ smi_glob = [id |-> 0, action |-> "MKDIR", data |-> "request"]
  /\ sem = [g \in Gens |-> 0] /\ gen = 0
  /\ spc = "mount" /\ st = 0 /\ handle = "closed" /\ leaked = FALSE
  /\ visible = FALSE /\ restarts = 0
-----------------------------------------------------------------------------
(* The shell: flash0_exec_callback.                                        *)

\* A command is typed: /mnt must be mounted and the service's task exist.
Command(a) ==
  /\ cpc = "idle" /\ ncmd < MaxCmds
  /\ visible /\ spc # "dead"
  /\ ncmd' = ncmd + 1
  /\ cur' = [id |-> ncmd + 1, action |-> a]
  /\ cpc' = "send" /\ ct' = 0 /\ shown' = {} /\ fate' = "queued"
  /\ UNCHANGED <<cgen, storman_queue, smi_glob, sem, gen, stormanVars, visible,
                 restarts>>

\* Mutant of AfterSend: the shell prints without waiting for the semaphore.
PrintAtOnce == IF cur.action \in Answered THEN "print" ELSE "idle"

\* The result of storman_request is ignored: with data to wait for, the
\* command goes on to the semaphore either way.
AfterSend == IF cur.action \in Answered THEN "take" ELSE "idle"

\* Mutant of Send: the queue takes an item it has no room for.
SendAnyway ==
  /\ cpc = "send"
  /\ storman_queue' = Append(storman_queue, cur)
  /\ cpc' = AfterSend /\ ct' = 0
  /\ UNCHANGED <<cur, ncmd, cgen, fate, shown, smi_glob, sem, gen, stormanVars,
                 visible, restarts>>

Send ==
  /\ cpc = "send"
  /\ Len(storman_queue) < STORMAN_QUEUE_DEPTH
  /\ storman_queue' = Append(storman_queue, cur)
  /\ cpc' = AfterSend /\ ct' = 0
  /\ UNCHANGED <<cur, ncmd, cgen, fate, shown, smi_glob, sem, gen, stormanVars,
                 visible, restarts>>

SendTimeout ==
  /\ cpc = "send"
  /\ Len(storman_queue) = STORMAN_QUEUE_DEPTH
  /\ ct = SEND_TICKS
  /\ fate' = "dropped"
  /\ cpc' = AfterSend /\ ct' = 0
  /\ UNCHANGED <<cur, ncmd, cgen, shown, storman_queue, smi_glob, sem, gen,
                 stormanVars, visible, restarts>>

\* xSemaphoreTake reads the handle smi_glob_sem; before the service created
\* the first semaphore the handle is NULL and the call is an assertion.
StartTake ==
  /\ cpc = "take"
  /\ cpc' = IF gen = 0 THEN "fault" ELSE "wait"
  /\ cgen' = gen
  /\ UNCHANGED <<ct, cur, ncmd, fate, shown, storman_queue, smi_glob, sem, gen,
                 stormanVars, visible, restarts>>

Take ==
  /\ cpc = "wait" /\ sem[cgen] = 1
  /\ sem' = [sem EXCEPT ![cgen] = 0]
  /\ cpc' = "print" /\ ct' = 0
  /\ UNCHANGED <<cur, ncmd, cgen, fate, shown, storman_queue, smi_glob, gen,
                 stormanVars, visible, restarts>>

\* Mutant of TakeTimeout: the wait is portMAX_DELAY.
TakeForever == FALSE

TakeTimeout ==
  /\ cpc = "wait" /\ sem[cgen] = 0 /\ ct = TAKE_TICKS
  /\ cpc' = "idle" /\ ct' = 0
  /\ UNCHANGED <<cur, ncmd, cgen, fate, shown, storman_queue, smi_glob, sem, gen,
                 stormanVars, visible, restarts>>

\* shell_print reads smi_glob.sm_item_data while it writes the characters out:
\* its first part and, later, the rest.
PrintStep(from, to) ==
  /\ cpc = from
  /\ shown' = shown \cup {[id |-> smi_glob.id, data |-> smi_glob.data]}
  /\ cpc' = to
  /\ UNCHANGED <<ct, cur, ncmd, cgen, fate, storman_queue, smi_glob, sem, gen,
                 stormanVars, visible, restarts>>
PrintFirst == PrintStep("print", "rest")
PrintRest  == PrintStep("rest", "idle")

Cli == \/ Send \/ SendTimeout \/ StartTake \/ Take \/ TakeTimeout
       \/ PrintFirst \/ PrintRest
-----------------------------------------------------------------------------
(* The service: prvStorageManagerTask.                                     *)

\* The first attempt to mount succeeds and mounts /mnt in the shell, or the
\* flash is formatted and mounted without that, or cannot be mounted at all.
Mount(first) ==
  /\ spc = "mount"
  /\ spc' = "create"
  /\ visible' = (visible \/ first)
  /\ UNCHANGED <<cliVars, fate, storman_queue, smi_glob, sem, gen, st, handle,
                 leaked, restarts>>

\* xSemaphoreCreateBinary: a new, empty semaphore replaces the handle.  The
\* queue is polled at once, so the sleep is entered at its end.
CreateSem ==
  /\ spc = "create"
  /\ gen' = gen + 1
  /\ spc' = "sleep" /\ st' = DELAY_STORMAN
  /\ UNCHANGED <<cliVars, fate, storman_queue, smi_glob, sem, handle, leaked,
                 visible, restarts>>

\* Mutant of Receive: the item is read with xQueuePeek and stays.
Peek ==
  /\ spc = "sleep" /\ st = DELAY_STORMAN
  /\ storman_queue # <<>>
  /\ smi_glob' = [id     |-> Head(storman_queue).id,
                  action |-> Head(storman_queue).action,
                  data   |-> "request"]
  /\ spc' = "work" /\ st' = 0
  /\ UNCHANGED <<cliVars, fate, storman_queue, sem, gen, handle, leaked, visible,
                 restarts>>

Receive ==
  /\ spc = "sleep" /\ st = DELAY_STORMAN
  /\ storman_queue # <<>>
  /\ smi_glob' = [id     |-> Head(storman_queue).id,
                  action |-> Head(storman_queue).action,
                  data   |-> "request"]
  /\ storman_queue' = Tail(storman_queue)
  /\ spc' = "work" /\ st' = 0
  /\ UNCHANGED <<cliVars, fate, sem, gen, handle, leaked, visible, restarts>>

PollEmpty ==
  /\ spc = "sleep" /\ st = DELAY_STORMAN
  /\ storman_queue = <<>>
  /\ st' = 0
  /\ UNCHANGED <<cliVars, fate, storman_queue, smi_glob, sem, gen, spc, handle,
                 leaked, visible, restarts>>

\* The switch statement is left and no error is set.
Finish == spc' = "sleep" /\ st' = 0 /\ UNCHANGED <<fate, leaked>>

\* err < 0: break, and the error is reported after the switch.  leaked records
\* that this happened between opening a handle and closing it.
Fail(open) ==
  /\ spc' = "report" /\ leaked' = (leaked \/ open)
  /\ fate' = IF smi_glob.id = cur.id /\ fate = "queued" THEN "failed" ELSE fate
  /\ UNCHANGED st

Continue(pc) == spc' = pc /\ UNCHANGED <<st, fate, leaked>>

Untouched == UNCHANGED <<cliVars, storman_queue, gen, visible, restarts>>

Answer == smi_glob' = [smi_glob EXCEPT !.data = "answer"]

\* lfs_file_open or lfs_dir_open.
Open ==
  /\ spc = "work" /\ smi_glob.action \in HandleActions
  /\ \/ Continue("body") /\ handle' = "open"
     \/ Fail(FALSE) /\ UNCHANGED handle
  /\ Untouched /\ UNCHANGED <<smi_glob, sem>>

\* Reading, writing or seeking the open handle.  A failing call breaks out of
\* the switch with the handle still open; listing a directory cannot fail.
Body ==
  /\ spc = "body"
  /\ \/ smi_glob.action \in Answered /\ Continue("give") /\ Answer
     \/ smi_glob.action \notin Answered /\ Continue("close") /\ UNCHANGED smi_glob
     \/ smi_glob.action \in FileActions /\ Fail(TRUE) /\ UNCHANGED smi_glob
  /\ Untouched /\ UNCHANGED <<handle, sem>>

\* Mutant of Close: the handle is not closed.
CloseForgotten ==
  /\ spc = "close"
  /\ Finish
  /\ Untouched /\ UNCHANGED <<smi_glob, handle, sem>>

\* lfs_file_close or lfs_dir_close, which may fail but always closes.
Close ==
  /\ spc = "close"
  /\ Finish \/ Fail(FALSE)
  /\ handle' = "closed"
  /\ Untouched /\ UNCHANGED <<smi_glob, sem>>

\* lfs_mkdir and lfs_remove: MKDIR, RMDIR, RMFILE.
Change ==
  /\ spc = "work" /\ smi_glob.action \notin HandleActions \cup Answered
  /\ Finish \/ Fail(FALSE)
  /\ Untouched /\ UNCHANGED <<smi_glob, handle, sem>>

\* FILESTAT and FSSTAT; FORMAT, which answers even when it fails.
Query ==
  /\ spc = "work" /\ smi_glob.action \in Answered \ HandleActions
  /\ \/ Continue("give") /\ Answer
     \/ smi_glob.action # "FORMAT" /\ Fail(FALSE) /\ UNCHANGED smi_glob
  /\ Untouched /\ UNCHANGED <<handle, sem>>

\* xSemaphoreGive(smi_glob_sem).
Give ==
  /\ spc = "give"
  /\ sem' = [sem EXCEPT ![gen] = 1]
  /\ IF smi_glob.action \in HandleActions
     THEN spc' = "close" /\ UNCHANGED st
     ELSE spc' = "sleep" /\ st' = 0
  /\ fate' = IF smi_glob.id = cur.id /\ fate = "queued" THEN "answered" ELSE fate
  /\ Untouched /\ UNCHANGED <<smi_glob, handle, leaked>>

\* cli_print_raw(err_msg).
Report ==
  /\ spc = "report"
  /\ Finish
  /\ Untouched /\ UNCHANGED <<smi_glob, handle, sem>>

Service == \/ \E first \in BOOLEAN : Mount(first)
           \/ CreateSem \/ Receive \/ PollEmpty \/ Open \/ Body \/ Close
           \/ Change \/ Query \/ Give \/ Report
-----------------------------------------------------------------------------
(* The task manager deletes the task; "service start" creates it again.    *)

Kill ==
  /\ spc # "dead" /\ restarts < MaxRestarts
  /\ restarts' = restarts + 1
  /\ spc' = "dead" /\ st' = 0
  /\ UNCHANGED <<cliVars, fate, storman_queue, smi_glob, sem, gen, handle,
                 leaked, visible>>

\* The handles are locals of the new task.
Restart ==
  /\ spc = "dead" /\ cpc = "idle"
  /\ spc' = "mount" /\ handle' = "closed" /\ leaked' = FALSE
  /\ UNCHANGED <<cliVars, fate, storman_queue, smi_glob, sem, gen, st, visible, restarts>>

\* One RTOS tick: whoever has reached a deadline acts before time goes on.
Tick ==
  /\ cpc = "send" => ct < SEND_TICKS
  /\ cpc = "wait" => ct < TAKE_TICKS
  /\ spc = "sleep" => st < DELAY_STORMAN
  /\ spc \in Working => st < MaxOp
  /\ ct' = IF cpc \in {"send", "wait"} THEN ct + 1 ELSE ct
  /\ st' = IF spc \in Working \cup {"sleep"} THEN st + 1 ELSE st
  /\ UNCHANGED <<cpc, cur, ncmd, cgen, fate, shown, storman_queue, smi_glob, sem,
                 gen, spc, handle, leaked, visible, restarts>>

Next == \/ \E a \in Actions : Command(a)
        \/ Cli \/ Service \/ Kill \/ Restart \/ Tick

Spec == Init /\ [][Next]_vars

\* The scheduler is preemptive and shares time within a priority, so a task
\* that can run does run, and the tick interrupt keeps coming.
Fairness == WF_vars(Cli) /\ WF_vars(Service) /\ WF_vars(Tick)
FairSpec == Spec /\ Fairness
-----------------------------------------------------------------------------
\* Every variable keeps its type; in particular the queue never holds more
\* than its one item.
TypeOK ==
  /\ cpc \in CliPcs
  /\ ct \in Nat
  /\ cur \in Requests
  /\ ncmd \in Cmds
  /\ cgen \in {0} \cup Gens
  /\ fate \in {"queued", "dropped", "failed", "answered"}
  /\ shown \subseteq [id : Cmds, data : {"request", "answer"}]
  /\ storman_queue \in Seq(Requests) /\ Len(storman_queue) <= STORMAN_QUEUE_DEPTH
  /\ smi_glob \in Globals
  /\ sem \in [Gens -> {0, 1}]
  /\ gen \in {0} \cup Gens
  /\ spc \in SmPcs
  /\ st \in Nat
  /\ handle \in {"open", "closed"}
  /\ leaked \in BOOLEAN /\ visible \in BOOLEAN
  /\ restarts \in 0 .. MaxRestarts

\* Until the service is killed, whatever the shell prints for a command is the
\* answer to that command, from the first character to the last (node_mnt.c:53,
\* "wait for storagemanager to provide semaphore indicating data is ready").
OwnAnswer == restarts = 0 => \A s \in shown : s = [id |-> cur.id, data |-> "answer"]

\* Until the service is killed, a command that waited and gave up, printing
\* nothing, was dropped because the queue was full or failed with an error: its
\* answer is not still on its way (node_mnt.c:54, the wait is 2*DELAY_STORMAN).
NoLateAnswer ==
  [][(cpc = "wait" /\ cpc' = "idle" /\ restarts = 0)
       => fate \in {"dropped", "failed"}]_vars

\* The service sleeps with its handle closed, whichever calls fail, unless in
\* this life of the task a read, write or seek of an open file has failed: a
\* call that fails to open or to close a file, to make, remove or look up a
\* name, leaves nothing open (storman_service.c:135-243).
HandleClosed == (spc = "sleep" /\ ~leaked) => handle = "closed"

\* The shell comes back to its prompt whatever happens to the service: killed,
\* late, failing (node_mnt.c:54, every wait has a timeout).  Only in a behaviour
\* in which it never takes the semaphore before the first one is made
\* (storman_service.c:101-123): that call is a failed assertion and never ends.
ShellReturns == [](cpc # "fault") => ((cpc # "idle") ~> (cpc = "idle"))

\* A request in the queue is picked up, unless the service is killed
\* (storman_service.c:129, the queue is polled in every iteration).
RequestServed == (storman_queue # <<>>) ~> (storman_queue = <<>> \/ spc = "dead")
=============================================================================
