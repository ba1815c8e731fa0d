------------------------------ MODULE Console ------------------------------
(***************************************************************************)
(* The console: the cli task (services/cli_service.c), the microshell      *)
(* instance it drives through cli/shell.c, and the print queue by which    *)
(* other tasks print (cli_print_raw in services/service_queues.c).         *)
(*                                                                         *)
(* microshell is known by its use: ush_print makes a string the output and *)
(* the state WRITE_CHAR; ush_service writes one character of it if it can, *)
(* and when none is left goes to RESET, from where it writes the prompt in *)
(* the same way and only then goes to READ_CHAR.  There it reads a key if  *)
(* there is one and echoes it; the end of a line runs the command and ends *)
(* in RESET too.  Every string has two characters, also the prompt, which  *)
(* has more than sixty in the code.  A tick passes when the cli task       *)
(* sleeps, is blocked, runs a command or cannot write.                     *)
(***************************************************************************)
EXTENDS Naturals, Sequences, SequencesExt

CONSTANTS
  PRINT_QUEUE_DEPTH,  \* messages the queue holds
  PRINT_TICKS,        \* ticks cli_print_raw waits for room
  DELAY_CLI,          \* ticks between two passes of the cli task
  Posters,            \* other tasks that print with cli_print_raw
  Printers,           \* other tasks that print with shell_print
  MaxMsg, MaxKeys,    \* bounds: messages posted, keys typed
  MaxPrints           \* bound: strings printed otherwise

ASSUME ConsoleConstants ==
  /\ PRINT_QUEUE_DEPTH \in Nat \ {0} /\ PRINT_TICKS \in Nat \ {0}
  /\ DELAY_CLI \in Nat \ {0}
  /\ "cli" \notin Posters \cup Printers
  /\ MaxMsg \in Nat /\ MaxKeys \in Nat /\ MaxPrints \in Nat

VARIABLES
  print_queue,  \* the numbers of the messages
  ush,          \* microshell: state, out (the rest of the output), next, in_pos
  input,        \* keys that microshell has not read
  up,           \* USB takes characters: plugged in, read by the host, served
  cli, sleep,   \* the cli task, and its ticks to sleep
  cur,          \* what the shell_print of each task prints, <<>> if none
  post, wait,   \* the message each task is posting or 0, and its ticks left
  held,         \* history: the console was held up while the task waited
  nmsg, nkey, nprint,  \* messages, keys, other strings so far
  shared,       \* history: another task than the cli task has used shell_print
  line, screen  \* history: lines entered; what has been shown

vars == <<print_queue, ush, input, up, cli, sleep, cur, post, wait, held, nmsg, nkey,
          nprint, shared, line, screen>>

Tasks == {"cli"} \cup Posters \cup Printers

\* One character on the screen: what it belongs to, and if it ends it.
Char(of, last)  == [of |-> of, last |-> last]
Message(m)      == <<"message", m>>
Prompt          == <<"prompt", 0>>
Text(of)        == <<Char(of, FALSE), Char(of, TRUE)>>

Init ==
  /\ print_queue = <<>> /\ input = <<>> /\ up = TRUE
  /\ ush = [state |-> "RESET", out |-> <<>>, next |-> "RESET", in_pos |-> 0]
  /\ cli = "peek" /\ sleep = 0
  /\ cur = [t \in Tasks |-> <<>>] /\ post = [t \in Tasks |-> 0]
  /\ wait = [t \in Tasks |-> 0] /\ held = [t \in Tasks |-> FALSE]
  /\ nmsg = 0 /\ nkey = 0 /\ nprint = 0 /\ shared = FALSE /\ line = 0 /\ screen = <<>>

\* microshell is at an empty line.
AtPrompt == ush.state = "READ_CHAR" /\ ush.in_pos = 0
\* The cli task does not take from the print queue: a line is being typed, a command
\* runs, output or the prompt is being written, or the output has stalled.
HeldUp == ~AtPrompt \/ ~up
-----------------------------------------------------------------------------
(* shell_print.                                                            *)

StartPrint(t, of) ==
  /\ cur' = [cur EXCEPT ![t] = of]
  /\ ush' = [ush EXCEPT !.state = "WRITE_CHAR", !.out = Text(of), !.next = "RESET"]

\* MUTANT: a character that cannot be written is left out.
WriteOrSkip ==
  IF ush.out = <<>>
  THEN ush' = [ush EXCEPT !.state = ush.next] /\ UNCHANGED screen
  ELSE /\ ush' = [ush EXCEPT !.out = Tail(@)]
       /\ screen' = IF up THEN Append(screen, Head(ush.out)) ELSE screen

\* ush_service in WRITE_CHAR.
WriteChar ==
  IF ush.out = <<>>
  THEN ush' = [ush EXCEPT !.state = ush.next] /\ UNCHANGED screen
  ELSE IF up
  THEN ush' = [ush EXCEPT !.out = Tail(@)] /\ screen' = Append(screen, Head(ush.out))
  ELSE UNCHANGED <<ush, screen>>

\* One round of the loop: shell_is_printing calls ush_service.
PrintRound(t) ==
  /\ cur[t] # <<>> /\ ush.state = "WRITE_CHAR"
  /\ WriteChar
  /\ UNCHANGED <<print_queue, input, up, cli, sleep, cur, post, wait, held, nmsg, nkey,
                 nprint, shared, line>>

\* shell_print returns.
PrintEnd(t) ==
  /\ cur[t] # <<>> /\ ush.state # "WRITE_CHAR"
  /\ cur' = [cur EXCEPT ![t] = <<>>]
  /\ cli' = CASE t = "cli" /\ cli = "print"    -> "service"
              [] t = "cli" /\ cli = "cmdprint" -> "command"
              [] OTHER                         -> cli
  /\ UNCHANGED <<print_queue, ush, input, up, sleep, post, wait, held, nmsg, nkey,
                 nprint, shared, line, screen>>
-----------------------------------------------------------------------------
(* cli_print_raw.                                                          *)

StartPost(t) ==
  /\ post[t] = 0 /\ cur[t] = <<>> /\ nmsg < MaxMsg
  /\ nmsg' = nmsg + 1
  /\ post' = [post EXCEPT ![t] = nmsg']
  /\ wait' = [wait EXCEPT ![t] = PRINT_TICKS]
  /\ held' = [held EXCEPT ![t] = HeldUp \/ t = "cli"]

EndPost(t) ==
  /\ post' = [post EXCEPT ![t] = 0]
  /\ cli' = IF t = "cli" THEN "command" ELSE cli
  /\ UNCHANGED <<ush, input, up, sleep, cur, wait, held, nmsg, nkey, nprint, shared,
                 line, screen>>

\* MUTANT: the queue is taken to have room for one more.
SendTooMany(t) ==
  /\ post[t] # 0 /\ Len(print_queue) <= PRINT_QUEUE_DEPTH
  /\ print_queue' = Append(print_queue, post[t])
  /\ EndPost(t)

Send(t) ==
  /\ post[t] # 0 /\ Len(print_queue) < PRINT_QUEUE_DEPTH
  /\ print_queue' = Append(print_queue, post[t])
  /\ EndPost(t)

\* MUTANT: portMAX_DELAY in place of 10 ticks.
SendForever(t) == FALSE

\* MUTANT: cli_print_raw does not wait for room.
SendAtOnce(t) ==
  /\ post[t] # 0 /\ Len(print_queue) = PRINT_QUEUE_DEPTH
  /\ UNCHANGED print_queue
  /\ EndPost(t)

SendTimeout(t) ==
  /\ post[t] # 0 /\ Len(print_queue) = PRINT_QUEUE_DEPTH /\ wait[t] = 0
  /\ UNCHANGED print_queue
  /\ EndPost(t)
-----------------------------------------------------------------------------
(* The cli task.                                                           *)

\* MUTANT: the length of the line is not looked at.
PeekMidLine ==
  /\ cli = "peek"
  /\ IF print_queue # <<>> /\ ush.state = "READ_CHAR"
     THEN /\ cli' = "print" /\ print_queue' = Tail(print_queue)
          /\ StartPrint("cli", Message(Head(print_queue)))
     ELSE cli' = "service" /\ UNCHANGED <<print_queue, ush, cur>>
  /\ UNCHANGED <<input, up, sleep, post, wait, held, nmsg, nkey, nprint, shared, line,
                 screen>>

\* MUTANT: the item is printed and stays in the queue.
PeekOnly ==
  /\ cli = "peek"
  /\ IF print_queue # <<>> /\ AtPrompt
     THEN /\ cli' = "print" /\ UNCHANGED print_queue
          /\ StartPrint("cli", Message(Head(print_queue)))
     ELSE cli' = "service" /\ UNCHANGED <<print_queue, ush, cur>>
  /\ UNCHANGED <<input, up, sleep, post, wait, held, nmsg, nkey, nprint, shared, line,
                 screen>>

\* MUTANT: off by one, the last item is left in the queue.
PeekAllButOne ==
  /\ cli = "peek"
  /\ IF Len(print_queue) > 1 /\ AtPrompt
     THEN /\ cli' = "print" /\ print_queue' = Tail(print_queue)
          /\ StartPrint("cli", Message(Head(print_queue)))
     ELSE cli' = "service" /\ UNCHANGED <<print_queue, ush, cur>>
  /\ UNCHANGED <<input, up, sleep, post, wait, held, nmsg, nkey, nprint, shared, line,
                 screen>>

\* The queue is peeked at; an item is pulled if microshell is at an empty line.
Peek ==
  /\ cli = "peek"
  /\ IF print_queue # <<>> /\ AtPrompt
     THEN /\ cli' = "print" /\ print_queue' = Tail(print_queue)
          /\ StartPrint("cli", Message(Head(print_queue)))
     ELSE cli' = "service" /\ UNCHANGED <<print_queue, ush, cur>>
  /\ UNCHANGED <<input, up, sleep, post, wait, held, nmsg, nkey, nprint, shared, line,
                 screen>>

Sleep == cli' = "sleep" /\ sleep' = DELAY_CLI

\* shell_service with a key to read; the end of a line runs a command if the line
\* has one.
ReadKey ==
  /\ cli = "service" /\ ush.state = "READ_CHAR" /\ input # <<>> /\ up
  /\ input' = Tail(input)
  /\ screen' = Append(screen, Char(<<"line", line>>, Head(input) = "enter"))
  /\ IF Head(input) = "enter"
     THEN ush' = [ush EXCEPT !.state = "RESET", !.in_pos = 0] /\ line' = line + 1
     ELSE ush' = [ush EXCEPT !.in_pos = @ + 1] /\ UNCHANGED line
  /\ IF Head(input) = "enter" /\ ush.in_pos > 0
     THEN cli' = "command" /\ UNCHANGED sleep
     ELSE Sleep
  /\ UNCHANGED <<print_queue, up, cur, post, wait, held, nmsg, nkey, nprint, shared>>

\* shell_service with nothing to read.  A character of the prompt (or of another
\* task's output) is written, or the prompt is begun.
NoKey ==
  /\ cli = "service" /\ (ush.state = "READ_CHAR" => input = <<>> \/ ~up)
  /\ CASE ush.state = "WRITE_CHAR" -> WriteChar
       [] ush.state = "RESET"      ->
            /\ ush' = [ush EXCEPT !.state = "WRITE_CHAR", !.out = Text(Prompt),
                                  !.next = "READ_CHAR"]
            /\ UNCHANGED screen
       [] ush.state = "READ_CHAR"  -> UNCHANGED <<ush, screen>>
  /\ Sleep
  /\ UNCHANGED <<print_queue, input, up, cur, post, wait, held, nmsg, nkey, nprint,
                 shared, line>>

\* A command prints, ...
CommandPrint ==
  /\ cli = "command" /\ nprint < MaxPrints
  /\ nprint' = nprint + 1 /\ cli' = "cmdprint"
  /\ StartPrint("cli", <<"command", nprint'>>)
  /\ UNCHANGED <<print_queue, input, up, sleep, post, wait, held, nmsg, nkey, shared, line,
                 screen>>

\* ... starts a service, whose start function posts a message, ...
CommandPost ==
  /\ cli = "command" /\ cli' = "post"
  /\ StartPost("cli")
  /\ UNCHANGED <<print_queue, ush, input, up, sleep, cur, nkey, nprint, shared, line,
                 screen>>

\* ... and ends.
CommandEnd ==
  /\ cli = "command" /\ Sleep
  /\ UNCHANGED <<print_queue, ush, input, up, cur, post, wait, held, nmsg, nkey, nprint,
                 shared, line, screen>>

Wake ==
  /\ cli = "sleep" /\ sleep = 0 /\ cli' = "peek"
  /\ UNCHANGED <<print_queue, ush, input, up, sleep, cur, post, wait, held, nmsg, nkey,
                 nprint, shared, line, screen>>

Cli == Peek \/ ReadKey \/ NoKey \/ CommandPrint \/ CommandPost \/ CommandEnd \/ Wake
       \/ PrintRound("cli") \/ PrintEnd("cli") \/ Send("cli") \/ SendTimeout("cli")
-----------------------------------------------------------------------------
(* The other tasks, the user, and time.                                    *)

Post(t) ==
  /\ StartPost(t)
  /\ UNCHANGED <<print_queue, ush, input, up, cli, sleep, cur, nkey, nprint, shared,
                 line, screen>>

\* shprintf in the poll task.
Shprintf(t) ==
  /\ cur[t] = <<>> /\ nprint < MaxPrints
  /\ nprint' = nprint + 1 /\ shared' = TRUE
  /\ StartPrint(t, <<"print", nprint'>>)
  /\ UNCHANGED <<print_queue, input, up, cli, sleep, post, wait, held, nmsg, nkey, line,
                 screen>>

Type(key) ==
  /\ nkey < MaxKeys /\ nkey' = nkey + 1
  /\ input' = Append(input, key)
  /\ UNCHANGED <<print_queue, ush, up, cli, sleep, cur, post, wait, held, nmsg, nprint,
                 shared, line, screen>>

\* The host goes away or stops reading, or is back.
Plug ==
  /\ up' = ~up
  /\ held' = [t \in Tasks |-> held[t] \/ (post[t] # 0 /\ ~up')]
  /\ UNCHANGED <<print_queue, ush, input, cli, sleep, cur, post, wait, nmsg, nkey,
                 nprint, shared, line, screen>>

\* The cli task is not about to run, and no wait is over.
Tick ==
  /\ \/ cli = "sleep" /\ sleep > 0
     \/ cli = "command"
     \/ cli = "post"
     \/ cur["cli"] # <<>> /\ ush.state = "WRITE_CHAR" /\ ush.out # <<>> /\ ~up
  /\ \A t \in Tasks : post[t] # 0 => wait[t] > 0 /\ Len(print_queue) = PRINT_QUEUE_DEPTH
  /\ sleep' = IF cli = "sleep" THEN sleep - 1 ELSE sleep
  /\ wait' = [t \in Tasks |-> IF post[t] # 0 THEN wait[t] - 1 ELSE wait[t]]
  /\ held' = [t \in Tasks |-> held[t] \/ (post[t] # 0 /\ HeldUp)]
  /\ UNCHANGED <<print_queue, ush, input, up, cli, cur, post, nmsg, nkey, nprint, shared,
                 line, screen>>

Next == \/ Cli \/ Plug \/ Tick
        \/ \E t \in Posters : Post(t) \/ Send(t) \/ SendTimeout(t)
        \/ \E t \in Printers : Shprintf(t) \/ PrintRound(t) \/ PrintEnd(t)
        \/ \E key \in {"key", "enter"} : Type(key)

Spec == Init /\ [][Next]_vars

\* The tasks run and time passes; commands end.
FairSpec == Spec /\ WF_vars(Cli) /\ SF_vars(PrintRound("cli")) /\ WF_vars(Tick)
                 /\ SF_vars(CommandEnd)
                 /\ \A t \in Posters : WF_vars(Send(t)) /\ WF_vars(SendTimeout(t))
-----------------------------------------------------------------------------
Owners == {"message", "command", "print", "line", "prompt"} \X Nat
Chars  == [of : Owners, last : BOOLEAN]
UshType == [state : {"READ_CHAR", "WRITE_CHAR", "RESET"}, out : Seq(Chars),
            next : {"READ_CHAR", "RESET"}, in_pos : 0 .. MaxKeys]
CliPcs == {"peek", "print", "service", "command", "cmdprint", "post", "sleep"}

TypeOK ==
  /\ print_queue \in Seq(1 .. MaxMsg) /\ Len(print_queue) <= PRINT_QUEUE_DEPTH
  /\ ush \in UshType
  /\ input \in Seq({"key", "enter"}) /\ up \in BOOLEAN
  /\ cli \in CliPcs /\ sleep \in 0 .. DELAY_CLI
  /\ cur \in [Tasks -> {<<>>} \cup Owners]
  /\ post \in [Tasks -> 0 .. MaxMsg] /\ wait \in [Tasks -> 0 .. PRINT_TICKS]
  /\ held \in [Tasks -> BOOLEAN]
  /\ nmsg \in 0 .. MaxMsg /\ nkey \in 0 .. MaxKeys /\ nprint \in 0 .. MaxPrints
  /\ shared \in BOOLEAN
  /\ line \in 0 .. MaxKeys /\ screen \in Seq(Chars)

\* Until another task uses shell_print, a message, a command's output, a prompt and
\* a line that is typed appear in one piece
\* (cli_service.c:98, "so as not to interfere with user input").
InOnePiece ==
  \A i \in 1 .. Len(screen) - 1 : ~screen[i].last => screen[i + 1].of = screen[i].of
NotInterleaved == ~shared => InOnePiece

\* shell_print returns when the whole string has been written (shell.h:92).
Whole ==
  \A t \in Tasks : cur[t] # <<>> /\ cur'[t] = <<>> => Char(cur[t], TRUE) \in ToSet(screen)
PrintedWhole == [][Whole]_vars

\* It does so until another task uses it.
PrintedWholeAlone == [][~shared => Whole]_vars

\* What the queue has accepted is shown once and in order, until another task
\* uses shell_print.
isMessage(c) == c.last /\ c.of[1] = "message"
beingShown   == IF cli = "print" /\ Char(cur["cli"], TRUE) \notin ToSet(screen)
                THEN <<cur["cli"][2]>> ELSE <<>>
messagesOn(chars) ==
  LET numbers[i \in 0 .. Len(chars)] ==
        IF i = 0 THEN <<>>
        ELSE IF isMessage(chars[i]) THEN Append(numbers[i - 1], chars[i].of[2]) ELSE numbers[i - 1]
  IN  numbers[Len(chars)]
messagesShown == messagesOn(screen)
Queue == INSTANCE MessageQueue WITH Messages <- 1 .. MaxMsg,
           pending <- beingShown \o print_queue, shown <- messagesShown, broken <- shared
IsQueue == Queue!QueueSpec

\* A message is lost only if microshell was not at an empty line at some moment while
\* its sender waited (a line was being typed, a command ran, a message or the prompt
\* behind one was being written), if the output stalled, or if another task prints: a
\* console that shows its prompt takes the oldest message before one task that posts
\* gives up.  (Several tasks that post take the room from each other.)
LostOnlyIfHeld == [][\A t \in Tasks : SendTimeout(t) => held[t] \/ shared]_vars

\* If the user leaves an empty line and the host goes on reading, every message
\* that was accepted is shown.
AllShown == <>[](up /\ ush.in_pos = 0 /\ input = <<>>) => <>[](print_queue = <<>>)

\* A command that posts to the queue that only its own task empties ends all the
\* same, and the prompt is written to its end.
PromptReturns ==
  <>[]up => ((cli \in {"command", "cmdprint", "post"}) ~> (ush.state = "READ_CHAR"))
=============================================================================
