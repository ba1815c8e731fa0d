--------------------------- MODULE ConsoleProofs ---------------------------
(* Theorems about Console, for every value of its constants.               *)
EXTENDS Console, SequenceTheorems, WellFoundedInduction, TLAPS

-----------------------------------------------------------------------------
(* Type correctness.                                                       *)

\* Every key typed waits to be read, is in the line, or has ended one.
KeyInv == ush.in_pos + line + Len(input) <= nkey

\* Where the cli task is says what it prints and posts.
CliInv == /\ cur["cli"] # <<>> <=> cli \in {"print", "cmdprint"}
          /\ post["cli"] # 0 <=> cli = "post"

TypeInv == TypeOK /\ KeyInv /\ CliInv

LEMMA PairTypes ==
  ASSUME NEW S, NEW a \in S, NEW b \in S
  PROVE  /\ <<a, b>> \in Seq(S) /\ <<b>> \in Seq(S)
         /\ <<a, b>> # <<>> /\ Head(<<a, b>>) = a /\ Tail(<<a, b>>) = <<b>>
         /\ <<b>> # <<>> /\ Head(<<b>>) = b /\ Tail(<<b>>) = <<>>
  <1>1. /\ <<a, b>> \in Seq(S) /\ <<b>> \in Seq(S)
        /\ Len(<<a, b>>) = 2 /\ Len(<<b>>) = 1
        /\ <<a, b>>[1] = a /\ <<a, b>>[2] = b /\ <<b>>[1] = b
    OBVIOUS
  <1>2. <<a, b>> # <<>> /\ <<b>> # <<>>
    BY <1>1, EmptySeq
  <1>3. Head(<<a, b>>) = a /\ Head(<<b>>) = b
    BY <1>1
  <1>4. /\ Tail(<<a, b>>) \in Seq(S) /\ Len(Tail(<<a, b>>)) = 1
        /\ Tail(<<a, b>>)[1] = b
    BY <1>1, <1>2, HeadTailProperties
  <1>5. Tail(<<a, b>>) = <<b>>
    BY <1>1, <1>4, SeqEqual
  <1>6. Tail(<<b>>) \in Seq(S) /\ Len(Tail(<<b>>)) = 0
    BY <1>1, <1>2, HeadTailProperties
  <1>7. Tail(<<b>>) = <<>>
    BY <1>6, EmptySeq
  <1> QED
    BY <1>1, <1>2, <1>3, <1>5, <1>7

LEMMA TextTypes ==
  ASSUME NEW of \in Owners
  PROVE  /\ Text(of) \in Seq(Chars) /\ <<Char(of, TRUE)>> \in Seq(Chars)
         /\ Text(of) # <<>> /\ Head(Text(of)) = Char(of, FALSE)
         /\ Tail(Text(of)) = <<Char(of, TRUE)>>
         /\ Char(of, TRUE) \in Chars /\ Char(of, FALSE) \in Chars
  <1>1. Char(of, TRUE) \in Chars /\ Char(of, FALSE) \in Chars
    BY DEF Char, Chars
  <1> QED
    BY <1>1, PairTypes DEF Text

LEMMA OwnerTypes ==
  /\ \A n \in Nat : /\ Message(n) \in Owners /\ <<"command", n>> \in Owners
                    /\ <<"print", n>> \in Owners /\ <<"line", n>> \in Owners
  /\ Prompt \in Owners
  /\ \A o \in Owners : o # <<>>
  <1>1. \A n \in Nat : /\ Message(n) \in Owners /\ <<"command", n>> \in Owners
                       /\ <<"print", n>> \in Owners /\ <<"line", n>> \in Owners
    BY DEF Owners, Message
  <1>p. Prompt \in Owners
    BY DEF Owners, Prompt
  <1>2. ASSUME NEW o \in Owners PROVE o # <<>>
    <2>1. PICK a \in {"message", "command", "print", "line", "prompt"}, n \in Nat : o = <<a, n>>
      BY DEF Owners
    <2> QED
      BY <2>1
  <1> QED
    BY <1>1, <1>p, <1>2

LEMMA QueueTypes ==
  ASSUME NEW S, NEW q \in Seq(S)
  PROVE  /\ Len(q) \in Nat
         /\ q # <<>> => /\ Head(q) \in S /\ Tail(q) \in Seq(S)
                        /\ Len(Tail(q)) = Len(q) - 1 /\ Len(q) > 0
         /\ \A e \in S : /\ Append(q, e) \in Seq(S)
                         /\ Len(Append(q, e)) = Len(q) + 1
  OBVIOUS

LEMMA TypeInit == Init => TypeInv
  <1> SUFFICES ASSUME Init PROVE TypeInv
    OBVIOUS
  <1>1. cur \in [Tasks -> {<<>>} \cup Owners]
    BY DEF Init
  <1>2. ush \in UshType
    BY ConsoleConstants DEF Init, UshType
  <1>3. "cli" \in Tasks /\ MaxMsg \in Nat /\ MaxKeys \in Nat /\ MaxPrints \in Nat
    BY ConsoleConstants DEF Tasks
  <1>4. KeyInv /\ CliInv
    BY <1>3 DEF Init, KeyInv, CliInv
  <1>5. /\ <<>> \in Seq(1 .. MaxMsg) /\ <<>> \in Seq({"key", "enter"}) /\ <<>> \in Seq(Chars)
        /\ Len(<<>>) = 0
    OBVIOUS
  <1>6. /\ print_queue \in Seq(1 .. MaxMsg) /\ Len(print_queue) <= PRINT_QUEUE_DEPTH
        /\ input \in Seq({"key", "enter"}) /\ screen \in Seq(Chars)
    BY <1>5, ConsoleConstants DEF Init
  <1>7. /\ post \in [Tasks -> 0 .. MaxMsg] /\ wait \in [Tasks -> 0 .. PRINT_TICKS]
        /\ held \in [Tasks -> BOOLEAN]
    BY ConsoleConstants DEF Init
  <1>8. /\ up \in BOOLEAN /\ cli \in CliPcs /\ sleep \in 0 .. DELAY_CLI
        /\ nmsg \in 0 .. MaxMsg /\ nkey \in 0 .. MaxKeys /\ nprint \in 0 .. MaxPrints
        /\ shared \in BOOLEAN /\ line \in 0 .. MaxKeys
    <2>1. up \in BOOLEAN /\ shared \in BOOLEAN
      <3>1. up = TRUE /\ shared = FALSE
        BY Zenon DEF Init
      <3> QED
        BY Zenon, <3>1
    <2>2. cli \in CliPcs
      BY DEF Init, CliPcs
    <2>3. sleep = 0 /\ nmsg = 0 /\ nkey = 0 /\ nprint = 0 /\ line = 0
      BY DEF Init
    <2>4. /\ sleep \in 0 .. DELAY_CLI /\ nmsg \in 0 .. MaxMsg /\ nkey \in 0 .. MaxKeys
          /\ nprint \in 0 .. MaxPrints /\ line \in 0 .. MaxKeys
      BY <2>3, ConsoleConstants
    <2> QED
      BY <2>1, <2>2, <2>4
  <1>9. TypeOK
    BY <1>1, <1>2, <1>6, <1>7, <1>8 DEF TypeOK
  <1> QED
    BY <1>4, <1>9 DEF TypeInv

LEMMA SleepTypes == Sleep => cli' = "sleep" /\ sleep' \in 0 .. DELAY_CLI
  BY ConsoleConstants DEF Sleep

\* ush_print and ush_service keep microshell's types.
LEMMA StartPrintTypes ==
  ASSUME TypeInv, NEW t \in Tasks, NEW of \in Owners, StartPrint(t, of)
  PROVE  /\ cur' \in [Tasks -> {<<>>} \cup Owners]
         /\ ush' \in UshType
         /\ ush'.state = "WRITE_CHAR" /\ ush'.out = Text(of) /\ ush'.next = "RESET"
         /\ ush'.in_pos = ush.in_pos
  BY TextTypes DEF StartPrint, TypeInv, TypeOK, UshType

LEMMA WriteCharTypes ==
  ASSUME TypeInv, WriteChar
  PROVE  /\ ush' \in UshType
         /\ ush'.in_pos = ush.in_pos
         /\ screen' \in Seq(Chars)
  <1>1. ush.out \in Seq(Chars) /\ screen \in Seq(Chars)
    BY DEF TypeInv, TypeOK, UshType
  <1>2. ush.out # <<>> => /\ Tail(ush.out) \in Seq(Chars)
                          /\ Append(screen, Head(ush.out)) \in Seq(Chars)
    BY <1>1, QueueTypes
  <1> QED
    BY <1>1, <1>2 DEF WriteChar, TypeInv, TypeOK, UshType

\* shell_service with nothing to read: microshell writes a character, begins the prompt
\* or waits for a key.
LEMMA NoKeyCases ==
  ASSUME TypeInv, NoKey
  PROVE  \/ ush.state = "WRITE_CHAR" /\ WriteChar
         \/ /\ ush.state = "RESET" /\ UNCHANGED screen
            /\ ush' = [ush EXCEPT !.state = "WRITE_CHAR", !.out = Text(Prompt),
                                  !.next = "READ_CHAR"]
         \/ ush.state = "READ_CHAR" /\ UNCHANGED <<ush, screen>>
  <1>1. ush.state \in {"READ_CHAR", "WRITE_CHAR", "RESET"}
    BY DEF TypeInv, TypeOK, UshType
  <1>2. CASE ush.state = "WRITE_CHAR"
    BY <1>2 DEF NoKey
  <1>3. CASE ush.state = "RESET"
    BY <1>3 DEF NoKey
  <1>4. CASE ush.state = "READ_CHAR"
    BY <1>4 DEF NoKey
  <1> QED
    BY <1>1, <1>2, <1>3, <1>4

LEMMA NoKeyTypes ==
  ASSUME TypeInv, NoKey
  PROVE  ush' \in UshType /\ ush'.in_pos = ush.in_pos /\ screen' \in Seq(Chars)
  <1>1. ush \in UshType /\ screen \in Seq(Chars)
    BY DEF TypeInv, TypeOK, UshType
  <1>2. Text(Prompt) \in Seq(Chars)
    BY OwnerTypes, TextTypes
  <1>3. CASE ush.state = "WRITE_CHAR" /\ WriteChar
    BY <1>3, WriteCharTypes
  <1>4. CASE /\ UNCHANGED screen
             /\ ush' = [ush EXCEPT !.state = "WRITE_CHAR", !.out = Text(Prompt),
                                   !.next = "READ_CHAR"]
    BY <1>1, <1>2, <1>4 DEF UshType
  <1>5. CASE UNCHANGED <<ush, screen>>
    BY <1>1, <1>5
  <1> QED
    BY <1>3, <1>4, <1>5, NoKeyCases

LEMMA TypeStep == TypeInv /\ [Next]_vars => TypeOK' /\ KeyInv'
  <1> SUFFICES ASSUME TypeInv, [Next]_vars PROVE TypeOK' /\ KeyInv'
    OBVIOUS
  <1>t. /\ "cli" \in Tasks /\ Posters \subseteq Tasks /\ Printers \subseteq Tasks
        /\ MaxMsg \in Nat /\ MaxKeys \in Nat /\ MaxPrints \in Nat
        /\ PRINT_QUEUE_DEPTH \in Nat /\ PRINT_TICKS \in Nat /\ DELAY_CLI \in Nat
    BY ConsoleConstants DEF Tasks
  <1>q. /\ print_queue \in Seq(1 .. MaxMsg) /\ input \in Seq({"key", "enter"})
        /\ screen \in Seq(Chars)
    BY DEF TypeInv, TypeOK
  <1>1. ASSUME NEW t \in Tasks, PrintRound(t) PROVE TypeOK' /\ KeyInv'
    BY <1>1, WriteCharTypes DEF PrintRound, TypeInv, TypeOK, KeyInv
  <1>2. ASSUME NEW t \in Tasks, PrintEnd(t) PROVE TypeOK' /\ KeyInv'
    <2>1. cur' \in [Tasks -> {<<>>} \cup Owners]
      BY <1>2 DEF PrintEnd, TypeInv, TypeOK
    <2>2. cli' \in CliPcs
      BY <1>2 DEF PrintEnd, TypeInv, TypeOK, CliPcs
    <2> QED
      BY <1>2, <2>1, <2>2 DEF PrintEnd, TypeInv, TypeOK, KeyInv
  <1>3. ASSUME NEW t \in Tasks, Send(t) PROVE TypeOK' /\ KeyInv'
    <2>1. post[t] \in 1 .. MaxMsg
      BY <1>3, <1>t DEF Send, TypeInv, TypeOK
    <2>2. /\ print_queue' \in Seq(1 .. MaxMsg)
          /\ Len(print_queue') <= PRINT_QUEUE_DEPTH
      BY <1>3, <1>t, <1>q, <2>1, QueueTypes DEF Send
    <2>3. post' \in [Tasks -> 0 .. MaxMsg] /\ cli' \in CliPcs
      BY <1>3, <1>t DEF Send, EndPost, TypeInv, TypeOK, CliPcs
    <2> QED
      BY <1>3, <2>2, <2>3 DEF Send, EndPost, TypeInv, TypeOK, KeyInv
  <1>4. ASSUME NEW t \in Tasks, SendTimeout(t) PROVE TypeOK' /\ KeyInv'
    <2>1. post' \in [Tasks -> 0 .. MaxMsg] /\ cli' \in CliPcs
      BY <1>4, <1>t DEF SendTimeout, EndPost, TypeInv, TypeOK, CliPcs
    <2> QED
      BY <1>4, <2>1 DEF SendTimeout, EndPost, TypeInv, TypeOK, KeyInv
  <1>5. CASE Peek
    <2>1. CASE print_queue # <<>> /\ AtPrompt
      <3>1. /\ Head(print_queue) \in 1 .. MaxMsg
            /\ Tail(print_queue) \in Seq(1 .. MaxMsg)
            /\ Len(Tail(print_queue)) = Len(print_queue) - 1 /\ Len(print_queue) \in Nat
        BY <1>q, <2>1, QueueTypes
      <3>2. Message(Head(print_queue)) \in Owners
        <4>1. Head(print_queue) \in Nat
          BY <3>1, <1>t
        <4> QED
          BY <4>1, OwnerTypes
      <3>3. StartPrint("cli", Message(Head(print_queue)))
        BY <1>5, <2>1 DEF Peek
      <3>4. /\ cur' \in [Tasks -> {<<>>} \cup Owners] /\ ush'.in_pos = ush.in_pos
            /\ ush' \in UshType
        BY <3>2, <3>3, <1>t, StartPrintTypes
      <3>5. print_queue' = Tail(print_queue) /\ cli' = "print"
        BY <1>5, <2>1 DEF Peek
      <3>6. Len(print_queue') <= PRINT_QUEUE_DEPTH /\ cli' \in CliPcs
        BY <1>t, <3>1, <3>5 DEF TypeInv, TypeOK, CliPcs
      <3>7. UNCHANGED <<input, up, sleep, post, wait, held, nmsg, nkey, nprint, shared,
                        line, screen>>
        BY <1>5 DEF Peek
      <3> QED
        BY <3>1, <3>4, <3>5, <3>6, <3>7 DEF TypeInv, TypeOK, KeyInv
    <2>2. CASE ~(print_queue # <<>> /\ AtPrompt)
      BY <1>5, <2>2 DEF Peek, TypeInv, TypeOK, KeyInv, CliPcs
    <2> QED
      BY <2>1, <2>2
  <1>6. CASE ReadKey
    <2>1. /\ Tail(input) \in Seq({"key", "enter"}) /\ Len(Tail(input)) = Len(input) - 1
          /\ Len(input) \in Nat /\ Len(input) > 0
      BY <1>6, <1>q, QueueTypes DEF ReadKey
    <2>2. screen' \in Seq(Chars)
      <3>1. <<"line", line>> \in Owners
        <4>1. line \in Nat
          BY <1>t DEF TypeInv, TypeOK
        <4> QED
          BY <4>1, OwnerTypes
      <3>2. Char(<<"line", line>>, Head(input) = "enter") \in Chars
        BY <3>1 DEF Char, Chars
      <3> QED
        BY <1>6, <1>q, <3>2, QueueTypes DEF ReadKey
    <2>3. /\ ush.in_pos \in Nat /\ line \in Nat /\ nkey \in 0 .. MaxKeys /\ nkey' = nkey
          /\ ush.in_pos + line + Len(input) <= nkey
          /\ input' = Tail(input)
      BY <1>6, <1>t DEF ReadKey, TypeInv, TypeOK, UshType, KeyInv
    <2>4. /\ ush' \in [state : {"READ_CHAR", "WRITE_CHAR", "RESET"}, out : Seq(Chars),
                       next : {"READ_CHAR", "RESET"}, in_pos : Nat]
          /\ line' \in Nat
          /\ ush'.in_pos + line' <= ush.in_pos + line + 1
      <3>1. ush \in [state : {"READ_CHAR", "WRITE_CHAR", "RESET"}, out : Seq(Chars),
                     next : {"READ_CHAR", "RESET"}, in_pos : Nat]
        BY <2>3 DEF TypeInv, TypeOK, UshType
      <3>2. CASE Head(input) = "enter"
        <4>1. ush' = [ush EXCEPT !.state = "RESET", !.in_pos = 0] /\ line' = line + 1
          BY <1>6, <3>2 DEF ReadKey
        <4>2. /\ ush' \in [state : {"READ_CHAR", "WRITE_CHAR", "RESET"}, out : Seq(Chars),
                           next : {"READ_CHAR", "RESET"}, in_pos : Nat]
              /\ ush'.in_pos = 0
          BY <3>1, <4>1
        <4>3. line' \in Nat /\ 0 + line' <= ush.in_pos + line + 1
          BY <2>3, <4>1
        <4> QED
          BY <4>2, <4>3
      <3>3. CASE Head(input) # "enter"
        <4>1. ush' = [ush EXCEPT !.in_pos = ush.in_pos + 1] /\ line' = line
          BY <1>6, <3>3 DEF ReadKey
        <4>2. ush'.in_pos = ush.in_pos + 1
          BY <3>1, <4>1
        <4> QED
          BY <2>3, <3>1, <4>1, <4>2
      <3> QED
        BY <3>2, <3>3
    <2>5. /\ ush'.in_pos \in 0 .. MaxKeys /\ line' \in 0 .. MaxKeys
          /\ ush'.in_pos + line' + Len(input') <= nkey'
      BY <1>t, <2>1, <2>3, <2>4, SMTT(30)
    <2>6. cli' \in CliPcs /\ sleep' \in 0 .. DELAY_CLI
      BY <1>6, SleepTypes DEF ReadKey, CliPcs, TypeInv, TypeOK
    <2>7. ush' \in UshType
      BY <2>4, <2>5 DEF UshType
    <2> QED
      BY <1>6, <2>1, <2>2, <2>3, <2>5, <2>6, <2>7 DEF ReadKey, TypeInv, TypeOK, KeyInv
  <1>7. CASE NoKey
    <2>1. ush' \in UshType /\ ush'.in_pos = ush.in_pos /\ screen' \in Seq(Chars)
      BY <1>7, NoKeyTypes
    <2> QED
      BY <1>7, <2>1, SleepTypes DEF NoKey, TypeInv, TypeOK, UshType, KeyInv, CliPcs
  <1>8. CASE CommandPrint
    <2>1. nprint' \in 0 .. MaxPrints
      BY <1>8, <1>t DEF CommandPrint, TypeInv, TypeOK
    <2>2. <<"command", nprint'>> \in Owners /\ StartPrint("cli", <<"command", nprint'>>)
      <3>1. nprint' \in Nat
        BY <2>1, <1>t
      <3> QED
        BY <1>8, <3>1, OwnerTypes DEF CommandPrint
    <2>3. /\ cur' \in [Tasks -> {<<>>} \cup Owners] /\ ush'.in_pos = ush.in_pos
          /\ ush' \in UshType
      BY <2>2, <1>t, StartPrintTypes
    <2> QED
      BY <1>8, <2>1, <2>3 DEF CommandPrint, TypeInv, TypeOK, KeyInv, CliPcs
  <1>9. ASSUME NEW t \in Tasks, StartPost(t)
        PROVE  /\ nmsg' \in 0 .. MaxMsg /\ post' \in [Tasks -> 0 .. MaxMsg]
               /\ wait' \in [Tasks -> 0 .. PRINT_TICKS] /\ held' \in [Tasks -> BOOLEAN]
    <2>1. nmsg' \in 0 .. MaxMsg
      BY <1>9, <1>t DEF StartPost, TypeInv, TypeOK
    <2>2. (HeldUp \/ t = "cli") \in BOOLEAN
      BY DEF HeldUp
    <2> QED
      BY <1>9, <1>t, <2>1, <2>2 DEF StartPost, TypeInv, TypeOK
  <1>10. CASE CommandPost
    BY <1>10, <1>9, <1>t DEF CommandPost, TypeInv, TypeOK, KeyInv, CliPcs
  <1>11. CASE CommandEnd
    BY <1>11, SleepTypes DEF CommandEnd, TypeInv, TypeOK, KeyInv, CliPcs
  <1>12. CASE Wake
    BY <1>12 DEF Wake, TypeInv, TypeOK, KeyInv, CliPcs
  <1>13. ASSUME NEW t \in Tasks, Post(t) PROVE TypeOK' /\ KeyInv'
    BY <1>13, <1>9 DEF Post, TypeInv, TypeOK, KeyInv
  <1>14. ASSUME NEW t \in Tasks, Shprintf(t) PROVE TypeOK' /\ KeyInv'
    <2>1. nprint' \in 0 .. MaxPrints
      BY <1>14, <1>t DEF Shprintf, TypeInv, TypeOK
    <2>2. <<"print", nprint'>> \in Owners /\ StartPrint(t, <<"print", nprint'>>)
      <3>1. nprint' \in Nat
        BY <2>1, <1>t
      <3> QED
        BY <1>14, <3>1, OwnerTypes DEF Shprintf
    <2>3. /\ cur' \in [Tasks -> {<<>>} \cup Owners] /\ ush'.in_pos = ush.in_pos
          /\ ush' \in UshType
      BY <2>2, StartPrintTypes
    <2> QED
      BY <1>14, <2>1, <2>3 DEF Shprintf, TypeInv, TypeOK, KeyInv
  <1>15. ASSUME NEW key \in {"key", "enter"}, Type(key) PROVE TypeOK' /\ KeyInv'
    <2>1. /\ input' \in Seq({"key", "enter"}) /\ Len(input') = Len(input) + 1
          /\ Len(input) \in Nat
      BY <1>15, <1>q, QueueTypes DEF Type
    <2> QED
      <3>1. nkey' \in 0 .. MaxKeys /\ nkey' = nkey + 1
        BY <1>15, <1>t DEF Type, TypeInv, TypeOK
      <3>2. TypeOK'
        BY <1>15, <2>1, <3>1 DEF Type, TypeInv, TypeOK
      <3>3. ush.in_pos \in Nat /\ line \in Nat /\ nkey \in Nat
        BY <1>t DEF TypeInv, TypeOK, UshType
      <3>4. ush.in_pos + line + Len(input') <= nkey'
        BY <2>1, <3>1, <3>3 DEF TypeInv, KeyInv
      <3> QED
        BY <1>15, <3>2, <3>4 DEF Type, KeyInv
  <1>16. CASE Plug
    <2>1. held' \in [Tasks -> BOOLEAN]
      BY <1>16 DEF Plug, TypeInv, TypeOK
    <2> QED
      BY <1>16, <2>1 DEF Plug, TypeInv, TypeOK, KeyInv
  <1>17. CASE Tick
    <2>1. held' \in [Tasks -> BOOLEAN]
      BY <1>17 DEF Tick, TypeInv, TypeOK, HeldUp
    <2>2. wait' \in [Tasks -> 0 .. PRINT_TICKS]
      BY <1>17, <1>t, SMTT(30) DEF Tick, TypeInv, TypeOK
    <2>3. sleep' \in 0 .. DELAY_CLI
      BY <1>17, <1>t DEF Tick, TypeInv, TypeOK, CliInv
    <2> QED
      BY <1>17, <2>1, <2>2, <2>3 DEF Tick, TypeInv, TypeOK, KeyInv
  <1>18. CASE UNCHANGED vars
    BY <1>18 DEF vars, TypeInv, TypeOK, KeyInv
  <1> QED
    BY <1>t, <1>1, <1>2, <1>3, <1>4, <1>5, <1>6, <1>7, <1>8, <1>10, <1>11, <1>12,
       <1>13, <1>14, <1>15, <1>16, <1>17, <1>18 DEF Next, Cli

\* The cli task's program counter goes with what it prints and posts.
LEMMA CliStep == TypeInv /\ [Next]_vars => CliInv'
  <1> SUFFICES ASSUME TypeInv, [Next]_vars PROVE CliInv'
    OBVIOUS
  <1>t. /\ "cli" \in Tasks /\ Posters \subseteq Tasks /\ Printers \subseteq Tasks
        /\ "cli" \notin Posters /\ "cli" \notin Printers
        /\ CliInv /\ cli \in CliPcs
        /\ DOMAIN cur = Tasks /\ DOMAIN post = Tasks /\ nmsg \in Nat
    BY ConsoleConstants DEF Tasks, TypeInv, TypeOK
  <1>1. ASSUME NEW t \in Tasks, PrintRound(t) PROVE CliInv'
    BY <1>1, <1>t DEF PrintRound, CliInv
  <1>2. ASSUME NEW t \in Tasks, PrintEnd(t) PROVE CliInv'
    BY <1>2, <1>t DEF PrintEnd, CliInv
  <1>3. ASSUME NEW t \in Tasks, EndPost(t), post[t] # 0 PROVE CliInv'
    BY <1>3, <1>t DEF EndPost, CliInv
  <1>4. CASE Peek
    <2>1. CASE print_queue # <<>> /\ AtPrompt
      <3>1. /\ cli = "peek" /\ cli' = "print" /\ post' = post
            /\ cur' = [cur EXCEPT !["cli"] = <<"message", Head(print_queue)>>]
        BY <1>4, <2>1 DEF Peek, StartPrint, Message
      <3> QED
        BY <3>1, <1>t DEF CliInv
    <2>2. CASE ~(print_queue # <<>> /\ AtPrompt)
      BY <1>4, <1>t, <2>2 DEF Peek, CliInv
    <2> QED
      BY <2>1, <2>2
  <1>5. CASE ReadKey \/ NoKey \/ CommandEnd \/ Wake
    BY <1>5, <1>t DEF ReadKey, NoKey, CommandEnd, Wake, Sleep, CliInv
  <1>6. CASE CommandPrint
    BY <1>6, <1>t DEF CommandPrint, StartPrint, CliInv
  <1>7. CASE CommandPost
    BY <1>7, <1>t DEF CommandPost, StartPost, CliInv
  <1>8. ASSUME NEW t \in Posters, Post(t) PROVE CliInv'
    BY <1>8, <1>t DEF Post, StartPost, CliInv
  <1>9. ASSUME NEW t \in Printers, Shprintf(t) PROVE CliInv'
    BY <1>9, <1>t DEF Shprintf, StartPrint, CliInv
  <1>10. ASSUME NEW key \in {"key", "enter"}, Type(key) PROVE CliInv'
    BY <1>10, <1>t DEF Type, CliInv
  <1>11. CASE Plug \/ Tick \/ UNCHANGED vars
    BY <1>11, <1>t DEF Plug, Tick, vars, CliInv
  <1> QED
    BY <1>t, <1>1, <1>2, <1>3, <1>4, <1>5, <1>6, <1>7, <1>8, <1>9, <1>10, <1>11
       DEF Next, Cli, Send, SendTimeout

\* The types of Console, TypeOK: the print queue never holds more than its depth,
\* whatever the number of tasks that post and print.
THEOREM ConsoleTypes == Spec => []TypeOK
  <1>1. TypeInv => TypeOK
    BY DEF TypeInv
  <1> QED
    BY TypeInit, TypeStep, CliStep, <1>1, PTL DEF Spec, TypeInv
-----------------------------------------------------------------------------
(* What is printed and typed appears in one piece, until another task      *)
(* prints with shell_print.                                                *)

Ended   == screen = <<>> \/ screen[Len(screen)].last
IsAt(c) == screen # <<>> /\ screen[Len(screen)] = c

\* What the cli task writes: what it prints, or the prompt.
Owner == IF cur["cli"] # <<>> THEN cur["cli"] ELSE Prompt

\* A string that is being written follows something that has ended, up to the
\* character it has come to; so does a line that is being typed.
Writing ==
  \/ ush.out = Text(Owner) /\ Ended
  \/ ush.out = <<Char(Owner, TRUE)>> /\ IsAt(Char(Owner, FALSE))
  \/ ush.out = <<>> /\ IsAt(Char(Owner, TRUE))

\* Only the prompt leads to a line, and a command runs before it.
PieceInv ==
  /\ InOnePiece
  /\ \A t \in Tasks \ {"cli"} : cur[t] = <<>>
  /\ cli \in {"command", "post"} => ush.state = "RESET"
  /\ ush.state = "WRITE_CHAR" => Writing /\ (cur["cli"] # <<>> => ush.next = "RESET")
  /\ ush.state = "RESET" => Ended /\ (cur["cli"] # <<>> => IsAt(Char(cur["cli"], TRUE)))
  /\ ush.state = "READ_CHAR" => cur["cli"] = <<>> /\ (ush.in_pos = 0 => Ended)
  /\ ush.in_pos > 0 => ush.state = "READ_CHAR" /\ IsAt(Char(<<"line", line>>, FALSE))

\* A character shown after its own kind, or after an end, keeps everything in one
\* piece.
LEMMA OneMore ==
  ASSUME TypeOK, InOnePiece, NEW c \in Chars, screen' = Append(screen, c),
         Ended \/ screen[Len(screen)].of = c.of
  PROVE  InOnePiece' /\ IsAt(c)'
  <1>1. screen \in Seq(Chars)
    BY DEF TypeOK
  <1>2. /\ Len(screen) \in Nat /\ screen' \in Seq(Chars) /\ Len(screen') = Len(screen) + 1
        /\ screen'[Len(screen')] = c
        /\ \A i \in 1 .. Len(screen) : screen'[i] = screen[i]
    BY <1>1
  <1>3. IsAt(c)'
    BY <1>2, EmptySeq DEF IsAt
  <1>4. ASSUME NEW i \in 1 .. Len(screen') - 1, ~screen'[i].last
        PROVE  screen'[i + 1].of = screen'[i].of
    <2>1. CASE i < Len(screen)
      <3>1. i \in 1 .. Len(screen) - 1 /\ i + 1 \in 1 .. Len(screen)
        BY <1>2, <2>1
      <3> QED
        BY <1>2, <1>4, <3>1 DEF InOnePiece
    <2>2. CASE i = Len(screen)
      <3>1. screen'[i] = screen[Len(screen)] /\ screen'[i + 1] = c /\ screen # <<>>
        BY <1>2, <2>2, EmptySeq
      <3> QED
        BY <1>4, <3>1 DEF Ended
    <2> QED
      BY <1>2, <2>1, <2>2
  <1> QED
    BY <1>3, <1>4 DEF InOnePiece

\* A character of what is printed, or of the prompt.
LEMMA WritePiece ==
  ASSUME TypeInv, PieceInv, ush.state = "WRITE_CHAR", WriteChar, UNCHANGED <<cur, line>>,
         cli' \in {cli, "sleep"}
  PROVE  PieceInv'
  <1>1. /\ TypeOK /\ InOnePiece /\ Writing /\ ush \in UshType /\ screen \in Seq(Chars)
        /\ ush.in_pos = 0 /\ cli' \notin {"command", "post"}
        /\ (cur["cli"] # <<>> => ush.next = "RESET")
        /\ \A t \in Tasks \ {"cli"} : cur'[t] = <<>>
    <2>1. TypeOK /\ ush \in UshType /\ screen \in Seq(Chars)
      BY DEF TypeInv, TypeOK
    <2>2. ush.in_pos = 0
      BY <2>1 DEF PieceInv, UshType
    <2> QED
      BY <2>1, <2>2 DEF PieceInv
  <1>a. Owner \in Owners /\ Owner' = Owner
    <2>1. cur["cli"] \in {<<>>} \cup Owners
      BY <1>1 DEF TypeOK, Tasks
    <2> QED
      BY <1>1, <2>1, OwnerTypes DEF Owner
  <1>o. PICK o \in Owners : o = Owner /\ o = Owner'
    BY <1>a
  <1>2. /\ Char(o, TRUE) \in Chars /\ Char(o, FALSE) \in Chars
        /\ Char(o, TRUE).last /\ Char(o, TRUE).of = o /\ Char(o, FALSE).of = o
    BY <1>o DEF Char, Chars
  <1>3. \/ ush' = [ush EXCEPT !.state = ush.next]
        \/ ush' = [ush EXCEPT !.out = Tail(ush.out)]
        \/ ush' = ush
    BY DEF WriteChar
  <1>4. ush'.in_pos = 0 /\ ush'.next = ush.next
    BY <1>1, <1>3 DEF UshType
  <1>5. CASE ush.out = <<>>
    <2>1. ush'.state = ush.next /\ ush'.state \in {"READ_CHAR", "RESET"} /\ screen' = screen
      BY <1>1, <1>5 DEF WriteChar, UshType
    <2>2. IsAt(Char(o, TRUE))
      BY <1>1, <1>2, <1>5, <1>o, TextTypes, PairTypes DEF Writing
    <2>3. Ended' /\ InOnePiece'
      BY <1>1, <1>2, <2>1, <2>2 DEF IsAt, Ended, InOnePiece
    <2>4. cur["cli"] # <<>> => IsAt(Char(cur["cli"], TRUE))' /\ ush'.state = "RESET"
      <3>1. IsAt(Char(o, TRUE))'
        BY <2>1, <2>2 DEF IsAt
      <3> QED
        BY <1>1, <1>o, <2>1, <3>1 DEF Owner
    <2> QED
      BY <1>1, <1>4, <2>1, <2>3, <2>4 DEF PieceInv
  <1>6. CASE ush.out # <<>> /\ ~up
    <2>1. UNCHANGED <<ush, screen>>
      BY <1>6 DEF WriteChar
    <2>2. Writing' /\ InOnePiece'
      BY <1>1, <1>o, <2>1 DEF Writing, IsAt, Ended, InOnePiece
    <2> QED
      BY <1>1, <1>4, <2>1, <2>2 DEF PieceInv
  <1>7. CASE ush.out # <<>> /\ up
    <2>1. /\ ush'.state = "WRITE_CHAR" /\ ush'.out = Tail(ush.out)
          /\ screen' = Append(screen, Head(ush.out))
      BY <1>1, <1>7 DEF WriteChar, UshType
    <2>2. CASE ush.out = Text(o) /\ Ended
      <3>1. ush'.out = <<Char(o, TRUE)>> /\ Head(ush.out) = Char(o, FALSE)
        BY <1>o, <2>1, <2>2, TextTypes
      <3>2. InOnePiece' /\ IsAt(Char(o, FALSE))'
        BY <1>1, <1>2, <2>1, <2>2, <3>1, OneMore
      <3>3. Writing'
        BY <1>o, <3>1, <3>2 DEF Writing, IsAt
      <3> QED
        BY <1>1, <1>4, <2>1, <3>2, <3>3 DEF PieceInv
    <2>3. CASE ush.out = <<Char(o, TRUE)>> /\ IsAt(Char(o, FALSE))
      <3>1. ush'.out = <<>> /\ Head(ush.out) = Char(o, TRUE)
        BY <1>2, <2>1, <2>3, PairTypes
      <3>2. InOnePiece' /\ IsAt(Char(o, TRUE))'
        BY <1>1, <1>2, <2>1, <2>3, <3>1, OneMore DEF IsAt
      <3>3. Writing'
        BY <1>o, <3>1, <3>2 DEF Writing, IsAt
      <3> QED
        BY <1>1, <1>4, <2>1, <3>2, <3>3 DEF PieceInv
    <2> QED
      BY <1>1, <1>7, <1>o, <2>2, <2>3 DEF Writing
  <1> QED
    BY <1>5, <1>6, <1>7

\* shell_print is called where something has ended.
LEMMA StartPiece ==
  ASSUME TypeInv, PieceInv, NEW of \in Owners, StartPrint("cli", of), Ended,
         ush.state # "READ_CHAR" \/ ush.in_pos = 0, UNCHANGED <<screen, line>>,
         cli' \notin {"command", "post"}
  PROVE  PieceInv'
  <1>1. /\ "cli" \in Tasks /\ DOMAIN cur = Tasks
    BY DEF Tasks, TypeInv, TypeOK
  <1>2. /\ cur' = [cur EXCEPT !["cli"] = of] /\ cur'["cli"] = of
        /\ \A t \in Tasks \ {"cli"} : cur'[t] = cur[t]
    BY <1>1 DEF StartPrint
  <1>3. /\ ush'.state = "WRITE_CHAR" /\ ush'.out = Text(of) /\ ush'.next = "RESET"
        /\ ush'.in_pos = ush.in_pos
    BY <1>1, StartPrintTypes
  <1>4. of # <<>> /\ ush'.in_pos = 0
    <2>1. ush.in_pos \in Nat
      BY DEF TypeInv, TypeOK, UshType
    <2>2. ush.in_pos > 0 => ush.state = "READ_CHAR"
      BY DEF PieceInv
    <2> QED
      BY <1>3, <2>1, <2>2, OwnerTypes
  <1>5. Writing'
    BY <1>2, <1>3, <1>4 DEF Writing, Owner, Ended
  <1>6. InOnePiece'
    BY DEF PieceInv, InOnePiece
  <1> QED
    BY <1>2, <1>3, <1>4, <1>5, <1>6 DEF PieceInv

LEMMA PieceStep ==
  ASSUME TypeInv, PieceInv, [Next]_vars, ~shared'
  PROVE  PieceInv'
  <1>t. /\ "cli" \in Tasks /\ "cli" \notin Posters
        /\ TypeOK /\ CliInv /\ InOnePiece /\ DOMAIN cur = Tasks
        /\ print_queue \in Seq(1 .. MaxMsg) /\ line \in Nat
        /\ ush \in UshType /\ ush.in_pos \in Nat
        /\ ush.state \in {"READ_CHAR", "WRITE_CHAR", "RESET"}
    BY ConsoleConstants, SMTT(30) DEF Tasks, TypeInv, TypeOK, UshType, PieceInv
  <1>1. CASE Peek
    <2>1. CASE print_queue # <<>> /\ AtPrompt
      <3>1. Head(print_queue) \in Nat
        BY <1>t, <2>1, QueueTypes, ConsoleConstants
      <3>2. Message(Head(print_queue)) \in Owners
        BY <3>1, OwnerTypes
      <3>3. /\ StartPrint("cli", Message(Head(print_queue))) /\ UNCHANGED <<screen, line>>
            /\ cli' = "print"
        BY <1>1, <2>1 DEF Peek
      <3>4. Ended /\ ush.in_pos = 0
        BY <2>1 DEF PieceInv, AtPrompt
      <3> QED
        BY <3>2, <3>3, <3>4, StartPiece
    <2>2. CASE ~(print_queue # <<>> /\ AtPrompt)
      <3>1. UNCHANGED <<ush, cur, screen, line>> /\ cli' = "service"
        BY <1>1, <2>2 DEF Peek
      <3> QED
        BY <3>1 DEF PieceInv, Writing, Owner, IsAt, Ended, InOnePiece
    <2> QED
      BY <2>1, <2>2
  <1>2. CASE ReadKey
    <2>0. <<"line", line>> \in Owners
      BY <1>t, OwnerTypes
    <2>p. Char(<<"line", line>>, Head(input) = "enter") \in Chars
      BY <2>0 DEF Char, Chars
    <2>. PICK c \in Chars : c = Char(<<"line", line>>, Head(input) = "enter")
      BY <2>p
    <2>1. cli = "service" /\ ush.state = "READ_CHAR" /\ cur["cli"] = <<>>
      BY <1>2, <1>t DEF ReadKey, CliInv
    <2>2. c.of = <<"line", line>> /\ c.last = (Head(input) = "enter")
      BY DEF Char
    <2>3. Ended \/ screen[Len(screen)].of = c.of
      BY <1>t, <2>1, <2>2 DEF PieceInv, IsAt, Char
    <2>4. screen' = Append(screen, c) /\ cur' = cur /\ cli' \in {"command", "sleep"}
      BY <1>2 DEF ReadKey, Sleep
    <2>5. InOnePiece' /\ IsAt(c)'
      BY <1>t, <2>2, <2>3, <2>4, OneMore
    <2>6. CASE Head(input) = "enter"
      <3>1. ush'.state = "RESET" /\ ush'.in_pos = 0
        <4>1. ush' = [ush EXCEPT !.state = "RESET", !.in_pos = 0]
          BY <1>2, <2>6 DEF ReadKey
        <4> QED
          BY <1>t, <4>1 DEF UshType
      <3>2. Ended'
        BY <2>2, <2>4, <2>5, <2>6 DEF IsAt, Ended
      <3>3. \A t \in Tasks \ {"cli"} : cur'[t] = <<>>
        BY <2>4 DEF PieceInv
      <3>4. cur'["cli"] = <<>> /\ ~(ush'.in_pos > 0)
        BY <2>1, <2>4, <3>1
      <3> QED
        BY <2>5, <3>1, <3>2, <3>3, <3>4 DEF PieceInv
    <2>7. CASE Head(input) # "enter"
      <3>1. ush'.state = "READ_CHAR" /\ ush'.in_pos > 0 /\ line' = line /\ cli' = "sleep"
        BY <1>2, <1>t, <2>1, <2>7, SMTT(30) DEF ReadKey, Sleep, UshType
      <3>2. IsAt(Char(<<"line", line>>, FALSE))'
        BY <2>5, <2>7, <3>1 DEF Char, IsAt
      <3>3. \A t \in Tasks \ {"cli"} : cur'[t] = <<>>
        BY <2>4 DEF PieceInv
      <3>4. cur'["cli"] = <<>> /\ ~(ush'.in_pos = 0)
        BY <2>1, <2>4, <3>1
      <3> QED
        BY <2>5, <3>1, <3>2, <3>3, <3>4 DEF PieceInv
    <2> QED
      BY <2>6, <2>7
  <1>3. CASE NoKey
    <2>0. cli = "service" /\ cur["cli"] = <<>> /\ cli' = "sleep" /\ UNCHANGED <<cur, line>>
      BY <1>3, <1>t DEF NoKey, Sleep, CliInv
    <2>1. CASE ush.state = "WRITE_CHAR" /\ WriteChar
      BY <2>0, <2>1, WritePiece
    <2>2. CASE /\ ush.state = "RESET" /\ UNCHANGED screen
               /\ ush' = [ush EXCEPT !.state = "WRITE_CHAR", !.out = Text(Prompt),
                                     !.next = "READ_CHAR"]
      <3>1. ush'.state = "WRITE_CHAR" /\ ush'.out = Text(Prompt) /\ ush'.in_pos = ush.in_pos
        BY <1>t, <2>2 DEF UshType
      <3>2. Ended /\ ~(ush.in_pos > 0) /\ Ended' /\ InOnePiece'
        BY <2>2 DEF PieceInv, Ended, InOnePiece
      <3>3. Writing'
        BY <2>0, <3>1, <3>2 DEF Writing, Owner
      <3>4. \A t \in Tasks \ {"cli"} : cur'[t] = <<>>
        BY <2>0 DEF PieceInv
      <3> QED
        BY <2>0, <3>1, <3>2, <3>3, <3>4 DEF PieceInv
    <2>3. CASE ush.state = "READ_CHAR" /\ UNCHANGED <<ush, screen>>
      BY <2>0, <2>3 DEF PieceInv, IsAt, Ended, InOnePiece
    <2> QED
      BY <1>3, <2>1, <2>2, <2>3, NoKeyCases
  <1>4. CASE CommandPrint
    <2>1. <<"command", nprint'>> \in Owners
      <3>1. nprint' \in Nat
        BY <1>4, <1>t, ConsoleConstants DEF CommandPrint, TypeOK
      <3> QED
        BY <3>1, OwnerTypes
    <2>2. /\ StartPrint("cli", <<"command", nprint'>>) /\ UNCHANGED <<screen, line>>
          /\ cli' = "cmdprint"
      BY <1>4 DEF CommandPrint
    <2>3. Ended /\ ush.state # "READ_CHAR"
      BY <1>4 DEF CommandPrint, PieceInv
    <2> QED
      BY <2>1, <2>2, <2>3, StartPiece
  <1>5. CASE PrintRound("cli")
    <2>1. ush.state = "WRITE_CHAR" /\ WriteChar /\ UNCHANGED <<cur, line>> /\ cli' = cli
      BY <1>5 DEF PrintRound
    <2> QED
      BY <2>1, WritePiece
  <1>6. CASE PrintEnd("cli")
    <2>1. /\ cur' = [cur EXCEPT !["cli"] = <<>>] /\ UNCHANGED <<ush, screen, line>>
          /\ cur["cli"] # <<>> /\ ush.state # "WRITE_CHAR"
      BY <1>6 DEF PrintEnd
    <2>2. ush.state = "RESET"
      BY <1>t, <2>1 DEF PieceInv
    <2>3. /\ cur'["cli"] = <<>> /\ \A t \in Tasks \ {"cli"} : cur'[t] = cur[t]
      BY <1>t, <2>1
    <2>4. Ended' /\ InOnePiece' /\ ~(ush'.in_pos > 0)
      BY <2>1, <2>2 DEF PieceInv, Ended, InOnePiece
    <2> QED
      BY <2>1, <2>2, <2>3, <2>4 DEF PieceInv
  <1>7. CASE UNCHANGED <<ush, cur, screen, line>> /\ cli = "command" /\ cli' = "post"
    BY <1>7 DEF PieceInv, Writing, Owner, IsAt, Ended, InOnePiece
  <1>8. CASE UNCHANGED <<ush, cur, screen, line>> /\ cli' \in {cli, "sleep", "peek"}
    BY <1>8 DEF PieceInv, Writing, Owner, IsAt, Ended, InOnePiece
  <1>9. ASSUME NEW t \in Tasks, EndPost(t), post[t] # 0 PROVE PieceInv'
    <2>1. UNCHANGED <<ush, cur, screen, line>>
      BY <1>9 DEF EndPost
    <2>2. cli' = cli \/ (cli = "post" /\ cli' = "command")
      BY <1>9, <1>t DEF EndPost, CliInv
    <2> QED
      BY <2>1, <2>2 DEF PieceInv, Writing, Owner, IsAt, Ended, InOnePiece
  <1>10. CASE CommandPost
    BY <1>7, <1>10 DEF CommandPost
  <1>11. CASE CommandEnd \/ Wake \/ Plug \/ Tick \/ UNCHANGED vars
    BY <1>8, <1>11 DEF CommandEnd, Sleep, Wake, Plug, Tick, vars
  <1>12. ASSUME NEW t \in Posters, Post(t) PROVE PieceInv'
    BY <1>8, <1>12 DEF Post
  <1>13. ASSUME NEW key \in {"key", "enter"}, Type(key) PROVE PieceInv'
    BY <1>8, <1>13 DEF Type
  <1>14. Posters \subseteq Tasks
    BY DEF Tasks
  <1>15. ASSUME NEW t \in Printers PROVE ~(Shprintf(t) \/ PrintRound(t) \/ PrintEnd(t))
    <2>1. cur[t] = <<>>
      BY ConsoleConstants DEF PieceInv, Tasks
    <2> QED
      BY <2>1 DEF Shprintf, PrintRound, PrintEnd
  <1> QED
    BY <1>t, <1>1, <1>2, <1>3, <1>4, <1>5, <1>6, <1>9, <1>10, <1>11, <1>12, <1>13, <1>14,
       <1>15 DEF Next, Cli, Send, SendTimeout

LEMMA PieceInit == Init => PieceInv
  BY EmptySeq DEF Init, PieceInv, InOnePiece, Ended, Tasks

\* Once another task has used shell_print, it has for good.
LEMMA SharedStays == TypeInv /\ [Next]_vars /\ shared => shared'
  BY DEF TypeInv, TypeOK, Next, vars, Cli, Peek, ReadKey, NoKey, CommandPrint, CommandPost,
     CommandEnd, Wake, PrintRound, PrintEnd, Send, SendTimeout, EndPost, Post, Shprintf,
     Type, Plug, Tick

\* Until another task uses shell_print, on every console, with any number of tasks
\* that post, nothing that is printed or typed is cut in two.
THEOREM NothingIsCut == Spec => []NotInterleaved
  <1>1. (shared \/ PieceInv) => NotInterleaved
    BY DEF PieceInv, NotInterleaved
  <1>2. TypeInv /\ (shared \/ PieceInv) /\ [Next]_vars => (shared \/ PieceInv)'
    BY PieceStep, SharedStays
  <1>3. TypeInv /\ [Next]_vars => TypeInv'
    BY TypeStep, CliStep DEF TypeInv
  <1> QED
    BY TypeInit, PieceInit, <1>1, <1>2, <1>3, PTL DEF Spec

\* Until another task uses it, shell_print returns when the whole string has been
\* written.
THEOREM PrintsAreWhole == Spec => PrintedWholeAlone
  <1>1. ASSUME TypeInv, PieceInv, [Next]_vars, NEW t \in Tasks, cur[t] # <<>>, cur'[t] = <<>>
        PROVE  Char(cur[t], TRUE) \in ToSet(screen)
    <2>1. t = "cli"
      BY <1>1 DEF PieceInv
    <2>2. PrintEnd("cli")
      <3>1. cur["cli"] # <<>> /\ cur'["cli"] = <<>> /\ cur' # cur /\ "cli" \in Tasks
        BY <1>1, <2>1 DEF Tasks
      <3>2. cli \in {"print", "cmdprint"}
        BY <3>1, <1>1 DEF TypeInv, CliInv
      <3>3. ~(Peek \/ CommandPrint)
        BY <3>2 DEF Peek, CommandPrint
      <3>4. ~(ReadKey \/ NoKey \/ CommandPost \/ CommandEnd \/ Wake \/ Plug \/ Tick)
        BY <3>1 DEF ReadKey, NoKey, CommandPost, CommandEnd, Wake, Plug, Tick
      <3>5. \A u \in Tasks : ~(PrintRound(u) \/ Send(u) \/ SendTimeout(u) \/ Post(u))
        BY <3>1 DEF PrintRound, Send, SendTimeout, EndPost, Post
      <3>6. \A key : ~Type(key)
        BY <3>1 DEF Type
      <3>7. ~UNCHANGED vars /\ "cli" \in Tasks /\ Posters \subseteq Tasks
        BY <3>1 DEF vars, Tasks
      <3>8. ASSUME NEW u \in Printers PROVE ~(Shprintf(u) \/ PrintRound(u) \/ PrintEnd(u))
        <4>1. cur[u] = <<>>
          BY <1>1, ConsoleConstants DEF PieceInv, Tasks
        <4>2. u \in Tasks /\ u # "cli" /\ DOMAIN cur = Tasks
          BY <1>1, ConsoleConstants DEF Tasks, TypeInv, TypeOK
        <4>3. ~Shprintf(u)
          <5>1. SUFFICES ASSUME Shprintf(u) PROVE FALSE
            OBVIOUS
          <5>2. cur' = [cur EXCEPT ![u] = <<"print", nprint'>>]
            BY <5>1 DEF Shprintf, StartPrint
          <5>3. cur'["cli"] = cur["cli"]
            BY <4>2, <5>2
          <5> QED
            BY <3>1, <5>3
        <4> QED
          BY <4>1, <4>3 DEF PrintRound, PrintEnd
      <3> QED
        BY <1>1, <3>3, <3>4, <3>5, <3>6, <3>7, <3>8 DEF Next, Cli
    <2>3. IsAt(Char(cur["cli"], TRUE))
      <3>1. cur["cli"] # <<>> /\ ush.state # "WRITE_CHAR"
        BY <2>2 DEF PrintEnd
      <3>2. ush.state \in {"READ_CHAR", "WRITE_CHAR", "RESET"}
        BY <1>1 DEF TypeInv, TypeOK, UshType
      <3> QED
        BY <1>1, <3>1, <3>2 DEF PieceInv
    <2>4. screen \in Seq(Chars)
      BY <1>1 DEF TypeInv, TypeOK
    <2>5. Len(screen) \in DOMAIN screen
      BY <2>3, <2>4, EmptySeq, LenProperties DEF IsAt
    <2> QED
      BY <2>1, <2>3, <2>5 DEF IsAt, ToSet
  <1>2. TypeInv /\ (shared \/ PieceInv) /\ [Next]_vars => [~shared => Whole]_vars
    <2> SUFFICES ASSUME TypeInv, shared \/ PieceInv, [Next]_vars, ~shared PROVE Whole
      OBVIOUS
    <2> QED
      BY <1>1 DEF Whole
  <1>3. TypeInv /\ (shared \/ PieceInv) /\ [Next]_vars => (shared \/ PieceInv)'
    BY PieceStep, SharedStays
  <1>4. TypeInv /\ [Next]_vars => TypeInv'
    BY TypeStep, CliStep DEF TypeInv
  <1> QED
    BY TypeInit, PieceInit, <1>2, <1>3, <1>4, PTL DEF Spec, PrintedWholeAlone
-----------------------------------------------------------------------------
(* The messages among the characters of the screen.                        *)

\* Induction with a set in place of a predicate.
LEMMA SetInduction ==
  ASSUME NEW S, 0 \in S, \A n \in Nat : n \in S => n + 1 \in S
  PROVE  Nat \subseteq S
  <1> DEFINE T == {n \in Nat : n \notin S}
             R == OpToRel(<, Nat)
  <1> SUFFICES ASSUME T # {} PROVE FALSE
    OBVIOUS
  <1>1. IsWellFoundedOn(R, Nat)
    BY NatLessThanWellFounded
  <1>2. PICK x \in T : \A y \in T : <<y, x>> \notin R
    <2> HIDE DEF R
    <2> QED
      BY <1>1, WFMin
  <1>3. \A y \in T : ~ (y < x)
    BY <1>2 DEF OpToRel
  <1>4. x # 0 /\ x - 1 \in T
    OBVIOUS
  <1> QED
    BY <1>3, <1>4

\* What messagesOn computes with, and that there is such a function.
IsMessagesOn(f, s) ==
  f = [i \in 0 .. Len(s) |->
         IF i = 0 THEN <<>> ELSE IF isMessage(s[i]) THEN Append(f[i - 1], s[i].of[2]) ELSE f[i - 1]]

LEMMA MessagesExist ==
  ASSUME NEW s \in Seq(Chars)
  PROVE  \E f : IsMessagesOn(f, s)
  <1> DEFINE S == {n \in Nat : \A p \in Seq(Chars) : Len(p) = n => \E f : IsMessagesOn(f, p)}
  <1>1. 0 \in S
    <2> SUFFICES ASSUME NEW p \in Seq(Chars), Len(p) = 0 PROVE \E f : IsMessagesOn(f, p)
      OBVIOUS
    <2> DEFINE f == [i \in {0} |-> <<>>]
    <2>1. f = [i \in 0 .. 0 |-> IF i = 0 THEN <<>>
                                ELSE IF isMessage(p[i]) THEN Append(f[i - 1], p[i].of[2]) ELSE f[i - 1]]
      OBVIOUS
    <2> HIDE DEF f
    <2>2. IsMessagesOn(f, p)
      BY <2>1 DEF IsMessagesOn
    <2> QED
      BY <2>2
  <1>2. ASSUME NEW n \in Nat, n \in S PROVE n + 1 \in S
    <2> SUFFICES ASSUME NEW p \in Seq(Chars), Len(p) = n + 1 PROVE \E f : IsMessagesOn(f, p)
      OBVIOUS
    <2> DEFINE r == SubSeq(p, 1, n)
    <2>1. r \in Seq(Chars) /\ Len(r) = n /\ \A i \in 1 .. n : r[i] = p[i]
      OBVIOUS
    <2> HIDE DEF r
    <2>2. PICK g : IsMessagesOn(g, r)
      BY <1>2, <2>1
    <2> DEFINE next == IF isMessage(p[n + 1]) THEN Append(g[n], p[n + 1].of[2]) ELSE g[n]
               f == [i \in 0 .. n + 1 |-> IF i <= n THEN g[i] ELSE next]
    <2>3. \A i \in 0 .. n : g[i] = IF i = 0 THEN <<>>
                                   ELSE IF isMessage(p[i]) THEN Append(g[i - 1], p[i].of[2]) ELSE g[i - 1]
      <3>1. \A i \in 0 .. n : g[i] = IF i = 0 THEN <<>>
                                     ELSE IF isMessage(r[i]) THEN Append(g[i - 1], r[i].of[2]) ELSE g[i - 1]
        BY <2>1, <2>2 DEF IsMessagesOn
      <3>2. \A i \in 0 .. n : i # 0 => r[i] = p[i]
        BY <2>1
      <3> QED
        BY <3>1, <3>2
    <2>4. \A i \in 0 .. n + 1 : f[i] = IF i = 0 THEN <<>>
                                       ELSE IF isMessage(p[i]) THEN Append(f[i - 1], p[i].of[2]) ELSE f[i - 1]
      <3>1. \A i \in 0 .. n : f[i] = g[i]
        OBVIOUS
      <3>2. f[n + 1] = next
        OBVIOUS
      <3> HIDE DEF f, next
      <3>3. ASSUME NEW i \in 0 .. n
            PROVE  f[i] = IF i = 0 THEN <<>>
                          ELSE IF isMessage(p[i]) THEN Append(f[i - 1], p[i].of[2]) ELSE f[i - 1]
        <4>1. f[i] = g[i] /\ (i # 0 => f[i - 1] = g[i - 1])
          BY <3>1
        <4> QED
          BY <2>3, <4>1
      <3>4. f[n + 1] = IF isMessage(p[n + 1]) THEN Append(f[n], p[n + 1].of[2]) ELSE f[n]
        BY <3>1, <3>2 DEF next
      <3>5. \A i \in 0 .. n + 1 : i \in 0 .. n \/ (i = n + 1 /\ i - 1 = n /\ i # 0)
        OBVIOUS
      <3> QED
        BY <3>3, <3>4, <3>5
    <2>5. f = [i \in 0 .. n + 1 |-> f[i]]
      OBVIOUS
    <2> HIDE DEF f
    <2>6. IsMessagesOn(f, p)
      BY <2>4, <2>5 DEF IsMessagesOn
    <2> QED
      BY <2>6
  <1>3. Len(s) \in S
    <2> HIDE DEF S
    <2> QED
      BY <1>1, <1>2, SetInduction
  <1> QED
    BY <1>3

\* The messages among the first characters, for any number of them.
Picks(f, s) ==
  /\ f[0] = <<>>
  /\ \A n \in 0 .. Len(s) - 1 :
       f[n + 1] = IF isMessage(s[n + 1]) THEN Append(f[n], s[n + 1].of[2]) ELSE f[n]

LEMMA MessagesWith ==
  ASSUME NEW s \in Seq(Chars)
  PROVE  \E f : Picks(f, s) /\ messagesOn(s) = f[Len(s)]
  <1> DEFINE f == CHOOSE f : IsMessagesOn(f, s)
  <1>1. IsMessagesOn(f, s)
    BY MessagesExist
  <1>2. messagesOn(s) = f[Len(s)]
    BY DEF messagesOn, IsMessagesOn
  <1> HIDE DEF f
  <1>3. \A i \in 0 .. Len(s) :
          f[i] = IF i = 0 THEN <<>>
                 ELSE IF isMessage(s[i]) THEN Append(f[i - 1], s[i].of[2]) ELSE f[i - 1]
    BY <1>1 DEF IsMessagesOn
  <1>4. f[0] = <<>>
    BY <1>3
  <1>5. ASSUME NEW n \in 0 .. Len(s) - 1
        PROVE  f[n + 1] = IF isMessage(s[n + 1]) THEN Append(f[n], s[n + 1].of[2]) ELSE f[n]
    <2>1. n + 1 \in 0 .. Len(s) /\ n + 1 # 0 /\ (n + 1) - 1 = n
      OBVIOUS
    <2> QED
      BY <1>3, <2>1
  <1>6. Picks(f, s)
    BY <1>4, <1>5 DEF Picks
  <1> QED
    BY <1>2, <1>6

\* An empty screen shows no message; one more character shows its message, if it
\* ends one.
LEMMA NoMessages == messagesOn(<<>>) = <<>>
  <1>1. PICK f : Picks(f, <<>>) /\ messagesOn(<<>>) = f[Len(<<>>)]
    <2>1. <<>> \in Seq(Chars)
      OBVIOUS
    <2> QED
      BY <2>1, MessagesWith
  <1> QED
    BY <1>1 DEF Picks

LEMMA MessagesAppend ==
  ASSUME NEW s \in Seq(Chars), NEW b \in Chars
  PROVE  messagesOn(Append(s, b)) = IF isMessage(b) THEN Append(messagesOn(s), b.of[2]) ELSE messagesOn(s)
  <1> DEFINE t == Append(s, b)
  <1>1. /\ t \in Seq(Chars) /\ Len(t) = Len(s) + 1 /\ t[Len(s) + 1] = b /\ Len(s) \in Nat
        /\ \A i \in 1 .. Len(s) : t[i] = s[i]
    BY AppendProperties
  <1> HIDE DEF t
  <1>2. PICK f : Picks(f, s) /\ messagesOn(s) = f[Len(s)]
    BY MessagesWith
  <1>3. PICK g : Picks(g, t) /\ messagesOn(t) = g[Len(t)]
    BY <1>1, MessagesWith
  <1> DEFINE S == {n \in Nat : n <= Len(s) => g[n] = f[n]}
  <1>4. 0 \in S
    BY <1>2, <1>3 DEF Picks
  <1>5. ASSUME NEW n \in Nat, n \in S PROVE n + 1 \in S
    <2> SUFFICES ASSUME n + 1 <= Len(s) PROVE g[n + 1] = f[n + 1]
      OBVIOUS
    <2>1. n \in 0 .. Len(s) - 1 /\ n \in 0 .. Len(t) - 1 /\ n + 1 \in 1 .. Len(s) /\ n <= Len(s)
      BY <1>1
    <2>2. g[n] = f[n] /\ t[n + 1] = s[n + 1]
      BY <1>1, <1>5, <2>1
    <2>3. f[n + 1] = IF isMessage(s[n + 1]) THEN Append(f[n], s[n + 1].of[2]) ELSE f[n]
      BY <1>2, <2>1 DEF Picks
    <2>4. g[n + 1] = IF isMessage(t[n + 1]) THEN Append(g[n], t[n + 1].of[2]) ELSE g[n]
      BY <1>3, <2>1 DEF Picks
    <2> QED
      BY <2>2, <2>3, <2>4
  <1>6. g[Len(s)] = f[Len(s)]
    <2>1. Nat \subseteq S
      <3> HIDE DEF S
      <3> QED
        BY <1>4, <1>5, SetInduction
    <2> QED
      BY <1>1, <2>1
  <1>7. g[Len(s) + 1] = IF isMessage(b) THEN Append(g[Len(s)], b.of[2]) ELSE g[Len(s)]
    <2>1. Len(s) \in 0 .. Len(t) - 1
      BY <1>1
    <2> QED
      BY <1>1, <1>3, <2>1 DEF Picks
  <1> QED
    BY <1>1, <1>2, <1>3, <1>6, <1>7 DEF t

-----------------------------------------------------------------------------
(* The print queue.                                                        *)

\* A message that is neither being posted nor in the queue any more.
Spent(m) ==
  /\ m \in 1 .. nmsg
  /\ \A t \in Tasks : post[t] # m
  /\ \A i \in 1 .. Len(print_queue) : print_queue[i] # m

\* No message is in two places.
Unique ==
  /\ \A t \in Tasks : post[t] <= nmsg
  /\ \A t \in Tasks : \A u \in Tasks : post[t] = post[u] /\ post[t] # 0 => t = u
  /\ \A i \in 1 .. Len(print_queue) :
       print_queue[i] <= nmsg /\ \A t \in Tasks : post[t] # print_queue[i]
  /\ \A i \in 1 .. Len(print_queue) : \A j \in 1 .. Len(print_queue) :
       print_queue[i] = print_queue[j] => i = j

\* What is on the screen, or is being printed, is spent; it is on the screen once.
ShownInv ==
  /\ \A m \in Nat : Char(Message(m), TRUE) \in ToSet(screen) => Spent(m)
  /\ cli = "print" => \E m \in 1 .. MaxMsg : cur["cli"] = Message(m) /\ Spent(m)
  /\ cli = "cmdprint" => cur["cli"][1] = "command"
  /\ cli = "print" /\ ush.state = "WRITE_CHAR" /\ ush.out # <<>>
       => Char(cur["cli"], TRUE) \notin ToSet(screen)

Pulls == Peek /\ print_queue # <<>> /\ AtPrompt

\* A step that prints nothing, and does not begin or end to.
Quiet == UNCHANGED <<ush, cur, screen>> /\ (cli' \in {"print", "cmdprint"} \/
                                            cli \in {"print", "cmdprint"} => cli' = cli)

\* The steps, as long as the cli task alone uses shell_print.
LEMMA Kinds ==
  ASSUME TypeInv, PieceInv, [Next]_vars, ~shared'
  PROVE  \/ Pulls \/ ReadKey \/ NoKey \/ PrintRound("cli") \/ PrintEnd("cli") \/ CommandPrint
         \/ \E t \in Tasks : Send(t) /\ Quiet
         \/ \E t \in Tasks : SendTimeout(t) /\ Quiet
         \/ \E t \in Tasks : StartPost(t) /\ UNCHANGED print_queue /\ Quiet
         \/ UNCHANGED <<print_queue, post, nmsg>> /\ Quiet
  <1>t. /\ "cli" \in Tasks /\ Posters \subseteq Tasks /\ CliInv /\ "cli" \notin Posters
    BY ConsoleConstants DEF TypeInv, Tasks
  <1>1. ASSUME Peek PROVE Pulls \/ (UNCHANGED <<print_queue, post, nmsg>> /\ Quiet)
    BY <1>1 DEF Peek, Pulls, Quiet
  <1>3. ASSUME CommandEnd \/ Wake \/ Plug \/ Tick \/ UNCHANGED vars
        PROVE  UNCHANGED <<print_queue, post, nmsg>> /\ Quiet
    BY <1>3 DEF CommandEnd, Sleep, Wake, Plug, Tick, vars, Quiet
  <1>4. ASSUME NEW key \in {"key", "enter"}, Type(key)
        PROVE  UNCHANGED <<print_queue, post, nmsg>> /\ Quiet
    BY <1>4 DEF Type, Quiet
  <1>5. ASSUME NEW t \in Tasks, Send(t) \/ SendTimeout(t) PROVE Quiet
    BY <1>5, <1>t DEF Send, SendTimeout, EndPost, Quiet, CliInv
  <1>6. ASSUME NEW t \in Posters, Post(t) PROVE StartPost(t) /\ UNCHANGED print_queue /\ Quiet
    BY <1>6 DEF Post, Quiet
  <1>7. ASSUME CommandPost PROVE StartPost("cli") /\ UNCHANGED print_queue /\ Quiet
    BY <1>7 DEF CommandPost, Quiet
  <1>8. ASSUME NEW t \in Printers PROVE ~(Shprintf(t) \/ PrintRound(t) \/ PrintEnd(t))
    <2>1. cur[t] = <<>>
      BY ConsoleConstants DEF PieceInv, Tasks
    <2>2. ~Shprintf(t)
      BY DEF Shprintf
    <2> QED
      BY <2>1, <2>2 DEF PrintRound, PrintEnd
  <1> QED
    BY <1>t, <1>1, <1>3, <1>4, <1>5, <1>6, <1>7, <1>8 DEF Next, Cli

\* The types these proofs use.
LEMMA QueueFacts ==
  ASSUME TypeInv
  PROVE  /\ print_queue \in Seq(1 .. MaxMsg) /\ Len(print_queue) \in Nat /\ nmsg \in Nat
         /\ screen \in Seq(Chars) /\ Len(screen) \in Nat /\ MaxMsg \in Nat
         /\ post \in [Tasks -> 0 .. MaxMsg]
         /\ \A i \in 1 .. Len(print_queue) : print_queue[i] \in 1 .. MaxMsg
  BY ConsoleConstants DEF TypeInv, TypeOK

\* A message comes into being once, and moves from its task to the queue and out of it.
LEMMA UniqueStep ==
  ASSUME TypeInv, PieceInv, Unique, [Next]_vars, ~shared'
  PROVE  /\ Unique' /\ \A m : Spent(m) => Spent(m)'
         /\ Pulls => \E h \in 1 .. MaxMsg : h = Head(print_queue) /\ Spent(h)'
  <1>1. /\ print_queue \in Seq(1 .. MaxMsg) /\ Len(print_queue) \in Nat /\ nmsg \in Nat
        /\ MaxMsg \in Nat /\ post \in [Tasks -> 0 .. MaxMsg]
        /\ \A i \in 1 .. Len(print_queue) : print_queue[i] \in 1 .. MaxMsg
    BY QueueFacts
  <1>2. ASSUME UNCHANGED <<print_queue, post, nmsg>>
        PROVE  Unique' /\ \A m : Spent(m) => Spent(m)'
    BY <1>2 DEF Unique, Spent
  <1>3. CASE Pulls
    <2> DEFINE n == Len(print_queue)
    <2>1. /\ print_queue' = Tail(print_queue) /\ UNCHANGED <<post, nmsg>>
          /\ print_queue # <<>>
      BY <1>3 DEF Pulls, Peek
    <2>2. /\ n \in Nat \ {0} /\ Len(print_queue') = n - 1 /\ Head(print_queue) = print_queue[1]
          /\ \A i \in 1 .. n - 1 : print_queue'[i] = print_queue[i + 1]
      BY <1>1, <2>1, EmptySeq, HeadTailProperties
    <2>3. \A i \in 1 .. n - 1 : i + 1 \in 1 .. n /\ i + 1 # 1
      BY <2>2
    <2> HIDE DEF n
    <2>4. Unique'
      <3>1. \A t \in Tasks : post'[t] <= nmsg'
        BY <2>1 DEF Unique
      <3>2. \A t \in Tasks : \A u \in Tasks : post'[t] = post'[u] /\ post'[t] # 0 => t = u
        BY <2>1 DEF Unique
      <3>3. \A i \in 1 .. n - 1 :
              print_queue'[i] <= nmsg' /\ \A t \in Tasks : post'[t] # print_queue'[i]
        BY <2>1, <2>2, <2>3 DEF Unique, n
      <3>4. ASSUME NEW i \in 1 .. n - 1, NEW j \in 1 .. n - 1, print_queue'[i] = print_queue'[j]
            PROVE  i = j
        <4>1. print_queue[i + 1] = print_queue[j + 1] /\ i + 1 \in 1 .. n /\ j + 1 \in 1 .. n
          BY <2>2, <2>3, <3>4
        <4>2. i + 1 = j + 1
          BY <4>1 DEF Unique, n
        <4> QED
          BY <2>2, <4>2
      <3> QED
        BY <2>2, <3>1, <3>2, <3>3, <3>4 DEF Unique
    <2>5. ASSUME NEW m, Spent(m) PROVE Spent(m)'
      BY <2>1, <2>2, <2>3, <2>5 DEF Spent, n
    <2>6. ASSUME NEW h, h = print_queue[1] PROVE h \in 1 .. MaxMsg /\ Spent(h)'
      <3>1. 1 \in 1 .. n /\ h \in 1 .. MaxMsg
        BY <1>1, <2>2, <2>6 DEF n
      <3>2. h <= nmsg /\ \A t \in Tasks : post[t] # h
        BY <2>6, <3>1 DEF Unique, n
      <3>3. \A i \in 1 .. n - 1 : print_queue[i + 1] # h
        BY <2>2, <2>3, <2>6, <3>1 DEF Unique, n
      <3>4. h \in 1 .. nmsg
        BY <1>1, <3>1, <3>2
      <3> QED
        BY <2>1, <2>2, <3>1, <3>2, <3>3, <3>4 DEF Spent
    <2> QED
      BY <2>2, <2>4, <2>5, <2>6
  <1>4. ASSUME NEW t \in Tasks, Send(t) PROVE Unique' /\ \A m : Spent(m) => Spent(m)'
    <2> DEFINE n == Len(print_queue)
               p == post[t]
    <2>1. /\ print_queue' = Append(print_queue, p) /\ p # 0 /\ nmsg' = nmsg
          /\ post' = [post EXCEPT ![t] = 0]
      BY <1>4 DEF Send, EndPost
    <2>2. p \in 1 .. MaxMsg /\ p <= nmsg
      BY <1>1, <2>1 DEF Unique
    <2>3. /\ Len(print_queue') = n + 1 /\ print_queue'[n + 1] = p
          /\ \A i \in 1 .. n : print_queue'[i] = print_queue[i]
      BY <1>1, <2>1, <2>2, AppendProperties
    <2>4. \A u \in Tasks : post'[u] = IF u = t THEN 0 ELSE post[u]
      BY <1>1, <2>1
    <2>5. \A i \in 1 .. n + 1 : i \in 1 .. n \/ i = n + 1
      BY <1>1
    <2>6. \A u \in Tasks : u # t => post[u] # p
      BY <2>1 DEF Unique
    <2>7. \A i \in 1 .. n : print_queue[i] # p /\ print_queue[i] # 0 /\ print_queue[i] <= nmsg
      BY <1>1 DEF Unique
    <2> HIDE DEF n, p
    <2>8. \A i \in 1 .. n + 1 :
            print_queue'[i] <= nmsg' /\ \A u \in Tasks : post'[u] # print_queue'[i]
      <3>1. ASSUME NEW i \in 1 .. n
            PROVE  print_queue'[i] <= nmsg' /\ \A u \in Tasks : post'[u] # print_queue'[i]
        BY <2>1, <2>3, <2>4, <2>7 DEF Unique, n
      <3>2. print_queue'[n + 1] <= nmsg' /\ \A u \in Tasks : post'[u] # print_queue'[n + 1]
        BY <2>1, <2>2, <2>3, <2>4, <2>6
      <3> QED
        BY <2>5, <3>1, <3>2
    <2>9. \A i \in 1 .. n + 1 : \A j \in 1 .. n + 1 : print_queue'[i] = print_queue'[j] => i = j
      BY <2>3, <2>5, <2>7 DEF Unique, n
    <2>10. \A u \in Tasks : post'[u] <= nmsg'
      BY <1>1, <2>1, <2>4 DEF Unique
    <2>11. \A u \in Tasks : \A v \in Tasks : post'[u] = post'[v] /\ post'[u] # 0 => u = v
      BY <2>4 DEF Unique
    <2>12. Unique'
      BY <2>3, <2>8, <2>9, <2>10, <2>11 DEF Unique
    <2>13. ASSUME NEW m, Spent(m) PROVE Spent(m)'
      <3>1. m \in 1 .. nmsg' /\ m # 0
        BY <1>1, <2>1, <2>13 DEF Spent
      <3>2. m # p
        BY <2>13 DEF Spent, p
      <3>3. \A u \in Tasks : post'[u] # m
        BY <2>4, <2>13, <3>1 DEF Spent
      <3>4. \A i \in 1 .. n + 1 : print_queue'[i] # m
        BY <2>3, <2>5, <2>13, <3>2 DEF Spent, n
      <3> QED
        BY <2>3, <3>1, <3>3, <3>4 DEF Spent
    <2> QED
      BY <2>12, <2>13
  <1>5. ASSUME NEW t \in Tasks, SendTimeout(t) PROVE Unique' /\ \A m : Spent(m) => Spent(m)'
    <2>1. UNCHANGED <<print_queue, nmsg>> /\ post' = [post EXCEPT ![t] = 0]
      BY <1>5 DEF SendTimeout, EndPost
    <2>2. \A u \in Tasks : post'[u] = IF u = t THEN 0 ELSE post[u]
      BY <1>1, <2>1
    <2>3. \A i \in 1 .. Len(print_queue) : print_queue[i] # 0
      BY <1>1
    <2>4. Unique'
      BY <1>1, <2>1, <2>2, <2>3 DEF Unique
    <2>5. ASSUME NEW m, Spent(m) PROVE Spent(m)'
      <3>1. m # 0
        BY <1>1, <2>5 DEF Spent
      <3> QED
        BY <2>1, <2>2, <2>5, <3>1 DEF Spent
    <2> QED
      BY <2>4, <2>5
  <1>6. ASSUME NEW t \in Tasks, StartPost(t), UNCHANGED print_queue
        PROVE  Unique' /\ \A m : Spent(m) => Spent(m)'
    <2>1. nmsg' = nmsg + 1 /\ post' = [post EXCEPT ![t] = nmsg']
      BY <1>6 DEF StartPost
    <2>2. \A u \in Tasks : post'[u] = IF u = t THEN nmsg + 1 ELSE post[u]
      BY <1>1, <2>1
    <2>3. \A u \in Tasks : post[u] \in Nat /\ post[u] <= nmsg
      BY <1>1 DEF Unique
    <2>4. \A i \in 1 .. Len(print_queue) : print_queue[i] \in Nat /\ print_queue[i] <= nmsg
      BY <1>1 DEF Unique
    <2>5. \A u \in Tasks : post'[u] <= nmsg'
      BY <1>1, <2>1, <2>2, <2>3
    <2>6. \A u \in Tasks : \A v \in Tasks : post'[u] = post'[v] /\ post'[u] # 0 => u = v
      <3>1. \A u \in Tasks : post[u] # nmsg + 1
        BY <1>1, <2>3
      <3> QED
        BY <2>2, <3>1 DEF Unique
    <2>7. \A i \in 1 .. Len(print_queue) :
            print_queue[i] <= nmsg' /\ \A u \in Tasks : post'[u] # print_queue[i]
      <3>1. \A i \in 1 .. Len(print_queue) : print_queue[i] # nmsg + 1 /\ print_queue[i] <= nmsg + 1
        BY <1>1, <2>4
      <3> QED
        BY <2>1, <2>2, <3>1 DEF Unique
    <2>8. Unique'
      BY <1>6, <2>5, <2>6, <2>7 DEF Unique
    <2>9. ASSUME NEW m, Spent(m) PROVE Spent(m)'
      <3>1. m \in 1 .. nmsg' /\ m # nmsg + 1
        BY <1>1, <2>1, <2>9 DEF Spent
      <3> QED
        BY <1>6, <2>2, <2>9, <3>1 DEF Spent
    <2> QED
      BY <2>8, <2>9
  <1>7. ASSUME ReadKey \/ NoKey \/ PrintRound("cli") \/ PrintEnd("cli") \/ CommandPrint
        PROVE  UNCHANGED <<print_queue, post, nmsg>>
    BY <1>7 DEF ReadKey, NoKey, PrintRound, PrintEnd, CommandPrint
  <1>8. Pulls \/ ~ Pulls
    OBVIOUS
  <1>9. CASE ~ Pulls
    BY <1>2, <1>4, <1>5, <1>6, <1>7, <1>9, Kinds
  <1> QED
    BY <1>3, <1>9

\* A queue behind what has been taken from it, or behind nothing.
LEMMA Glue ==
  ASSUME NEW S, NEW q \in Seq(S), NEW m \in S
  PROVE  /\ <<>> \o q = q /\ <<m>> \o q # <<>> /\ Head(<<m>> \o q) = m /\ Tail(<<m>> \o q) = q
         /\ \A b \in Seq(S) : b \o Append(q, m) = Append(b \o q, m)
         /\ <<>> \in Seq(S) /\ <<m>> \in Seq(S)
  <1>1. /\ <<>> \in Seq(S) /\ <<m>> \in Seq(S) /\ Len(<<m>>) = 1 /\ <<m>>[1] = m
        /\ Len(<<>>) = 0
    OBVIOUS
  <1>2. <<>> \o q = q
    <2>1. /\ <<>> \o q \in Seq(S) /\ Len(<<>> \o q) = Len(q)
          /\ \A i \in 1 .. Len(q) : (<<>> \o q)[i] = q[i]
      BY <1>1, ConcatProperties
    <2> QED
      BY <2>1, SeqEqual
  <1> DEFINE s == <<m>> \o q
  <1>3. /\ s \in Seq(S) /\ Len(s) = 1 + Len(q) /\ Len(q) \in Nat
        /\ \A i \in 1 .. 1 + Len(q) : s[i] = IF i <= 1 THEN <<m>>[i] ELSE q[i - 1]
    BY <1>1, ConcatProperties
  <1> HIDE DEF s
  <1>4. s # <<>> /\ Head(s) = m
    <2>1. Len(s) # 0 /\ s[1] = m
      BY <1>1, <1>3
    <2> QED
      BY <1>3, <2>1, EmptySeq
  <1>5. Tail(s) = q
    <2>1. /\ Tail(s) \in Seq(S) /\ Len(Tail(s)) = Len(q)
          /\ \A i \in 1 .. Len(q) : Tail(s)[i] = s[i + 1]
      BY <1>3, <1>4, HeadTailProperties
    <2>2. \A i \in 1 .. Len(q) : s[i + 1] = q[i]
      BY <1>3
    <2> QED
      BY <2>1, <2>2, SeqEqual
  <1>6. ASSUME NEW b \in Seq(S) PROVE b \o Append(q, m) = Append(b \o q, m)
    <2> DEFINE w == Append(q, m)
               u == b \o w
               bq == b \o q
               v == Append(bq, m)
               x == Len(b)
               y == Len(q)
    <2>0. x \in Nat /\ y \in Nat
      OBVIOUS
    <2>1. w \in Seq(S) /\ Len(w) = y + 1 /\ (\A i \in 1 .. y : w[i] = q[i]) /\ w[y + 1] = m
      BY AppendProperties
    <2> HIDE DEF w
    <2>2. /\ u \in Seq(S) /\ Len(u) = x + Len(w)
          /\ \A i \in 1 .. x + Len(w) : u[i] = IF i <= x THEN b[i] ELSE w[i - x]
      BY <2>1, ConcatProperties
    <2>3. /\ bq \in Seq(S) /\ Len(bq) = x + y
          /\ \A i \in 1 .. x + y : bq[i] = IF i <= x THEN b[i] ELSE q[i - x]
      BY ConcatProperties
    <2> HIDE DEF bq
    <2>4. /\ v \in Seq(S) /\ Len(v) = (x + y) + 1 /\ v[(x + y) + 1] = m
          /\ \A i \in 1 .. x + y : v[i] = bq[i]
      BY <2>3, AppendProperties
    <2> HIDE DEF u, v, x, y
    <2>5. Len(u) = Len(v) /\ Len(u) = (x + y) + 1
      BY <2>0, <2>1, <2>2, <2>4
    <2>6. ASSUME NEW i \in 1 .. Len(u) PROVE u[i] = v[i]
      <3>0. i \in 1 .. x + Len(w) /\ i \in Nat /\ i >= 1 /\ i <= (x + y) + 1
        BY <2>0, <2>1, <2>2, <2>5
      <3>1. CASE i <= x + y
        <4>1. i \in 1 .. x + y /\ (i > x => i - x \in 1 .. y)
          BY <2>0, <3>0, <3>1
        <4>2. u[i] = bq[i]
          BY <2>0, <2>1, <2>2, <2>3, <3>0, <4>1
        <4> QED
          BY <2>4, <4>1, <4>2
      <3>2. CASE i = (x + y) + 1
        <4>1. ~ (i <= x) /\ i - x = y + 1
          BY <2>0, <3>2
        <4> QED
          BY <2>1, <2>2, <2>4, <3>0, <3>2, <4>1
      <3> QED
        BY <2>0, <3>0, <3>1, <3>2
    <2> QED
      BY <2>2, <2>4, <2>5, <2>6, SeqEqual DEF u, v, w, bq
  <1> QED
    BY <1>1, <1>2, <1>4, <1>5, <1>6 DEF s

\* What is taken from a queue, before the rest of it.
LEMMA PutBack ==
  ASSUME NEW S, NEW q \in Seq(S), q # <<>>
  PROVE  <<Head(q)>> \o Tail(q) = q
  <1> DEFINE h == Head(q)
             r == Tail(q)
  <1>1. /\ h \in S /\ h = q[1] /\ r \in Seq(S) /\ Len(q) = Len(r) + 1 /\ Len(r) \in Nat
        /\ \A i \in 1 .. Len(r) : r[i] = q[i + 1]
    <2>1. /\ h \in S /\ h = q[1] /\ r \in Seq(S) /\ Len(r) = Len(q) - 1
          /\ \A i \in 1 .. Len(r) : r[i] = q[i + 1]
      BY HeadTailProperties
    <2>2. Len(q) \in Nat /\ Len(q) # 0
      BY EmptySeq
    <2> QED
      BY <2>1, <2>2
  <1> HIDE DEF h, r
  <1>2. <<h>> \in Seq(S) /\ Len(<<h>>) = 1 /\ <<h>>[1] = h
    BY <1>1
  <1> DEFINE s == <<h>> \o r
  <1>3. /\ s \in Seq(S) /\ Len(s) = 1 + Len(r)
        /\ \A i \in 1 .. 1 + Len(r) : s[i] = IF i <= 1 THEN <<h>>[i] ELSE r[i - 1]
    BY <1>1, <1>2, ConcatProperties
  <1> HIDE DEF s
  <1>4. ASSUME NEW i \in 1 .. Len(q) PROVE s[i] = q[i]
    <2>1. CASE i = 1
      BY <1>1, <1>2, <1>3, <2>1
    <2>2. CASE i # 1
      <3>1. i - 1 \in 1 .. Len(r) /\ (i - 1) + 1 = i /\ ~ (i <= 1) /\ i \in 1 .. 1 + Len(r)
        BY <1>1, <2>2
      <3>2. r[i - 1] = q[(i - 1) + 1]
        BY <1>1, <3>1
      <3> QED
        BY <1>3, <3>1, <3>2
    <2> QED
      BY <2>1, <2>2
  <1> QED
    BY <1>1, <1>3, <1>4, SeqEqual DEF s, h, r

\* One character more on the screen.
LEMMA ScreenGrows ==
  ASSUME TypeInv, NEW c \in Chars, screen' = Append(screen, c)
  PROVE  /\ Len(screen') = Len(screen) + 1 /\ Len(screen) \in Nat
         /\ screen'[Len(screen) + 1] = c
         /\ \A i \in 1 .. Len(screen) : screen'[i] = screen[i]
         /\ ToSet(screen') = ToSet(screen) \cup {c}
         /\ messagesShown' = IF isMessage(c) THEN Append(messagesShown, c.of[2]) ELSE messagesShown
  <1>1. screen \in Seq(Chars)
    BY DEF TypeInv, TypeOK
  <1>2. /\ Len(screen') = Len(screen) + 1 /\ Len(screen) \in Nat /\ screen' \in Seq(Chars)
        /\ screen'[Len(screen) + 1] = c
        /\ \A i \in 1 .. Len(screen) : screen'[i] = screen[i]
    BY <1>1, AppendProperties
  <1>3. ToSet(screen') = ToSet(screen) \cup {c}
    <2>1. DOMAIN screen = 1 .. Len(screen) /\ DOMAIN screen' = 1 .. Len(screen) + 1
      BY <1>1, <1>2
    <2>2. \A i \in 1 .. Len(screen) + 1 : i \in 1 .. Len(screen) \/ i = Len(screen) + 1
      BY <1>2
    <2>3. 1 .. Len(screen) \subseteq 1 .. Len(screen) + 1 /\ Len(screen) + 1 \in 1 .. Len(screen) + 1
      BY <1>2
    <2> QED
      BY <1>2, <2>1, <2>2, <2>3 DEF ToSet
  <1>4. messagesOn(screen') = IF isMessage(c) THEN Append(messagesOn(screen), c.of[2])
                              ELSE messagesOn(screen)
    BY <1>1, MessagesAppend
  <1> QED
    BY <1>2, <1>3, <1>4 DEF messagesShown

\* The character that a round of shell_is_printing writes, if it writes one.
LEMMA Writes ==
  ASSUME TypeInv, PieceInv, PrintRound("cli")
  PROVE  /\ UNCHANGED <<print_queue, post, nmsg, cur, cli>>
         /\ cli \in {"print", "cmdprint"} /\ cur["cli"] \in Owners
         /\ \/ screen' = screen /\ (ush' = ush \/ ush'.state # "WRITE_CHAR")
            \/ /\ screen' = Append(screen, Char(cur["cli"], FALSE)) /\ ush.out # <<>>
               /\ ush.state = "WRITE_CHAR"
            \/ /\ screen' = Append(screen, Char(cur["cli"], TRUE)) /\ ush.out # <<>>
               /\ ush.state = "WRITE_CHAR" /\ ush'.out = <<>>
  <1> DEFINE o == cur["cli"]
  <1>1. /\ UNCHANGED <<print_queue, post, nmsg, cur, cli>> /\ o # <<>>
        /\ ush.state = "WRITE_CHAR" /\ WriteChar
    BY DEF PrintRound
  <1>2. cli \in {"print", "cmdprint"} /\ o \in Owners
    BY <1>1, ConsoleConstants DEF TypeInv, TypeOK, CliInv, Tasks
  <1>3. Writing /\ Owner = o
    BY <1>1 DEF PieceInv, Owner
  <1>4. ush \in UshType
    BY DEF TypeInv, TypeOK
  <1>5. CASE ush.out = <<>>
    <2>1. screen' = screen /\ ush'.state # "WRITE_CHAR"
      BY <1>1, <1>4, <1>5 DEF WriteChar, UshType
    <2> QED
      BY <1>1, <1>2, <2>1
  <1>6. CASE ush.out # <<>> /\ ~up
    <2>1. screen' = screen /\ ush' = ush
      BY <1>1, <1>6 DEF WriteChar
    <2> QED
      BY <1>1, <1>2, <2>1
  <1>7. CASE ush.out # <<>> /\ up
    <2>1. screen' = Append(screen, Head(ush.out)) /\ ush'.out = Tail(ush.out)
      BY <1>1, <1>4, <1>7 DEF WriteChar, UshType
    <2>2. CASE ush.out = Text(o)
      <3>1. Head(ush.out) = Char(o, FALSE)
        BY <1>2, <2>2, TextTypes
      <3> QED
        BY <1>1, <1>2, <1>7, <2>1, <3>1
    <2>3. CASE ush.out = <<Char(o, TRUE)>>
      <3>1. Char(o, TRUE) \in Chars
        BY <1>2, TextTypes
      <3>2. Head(ush.out) = Char(o, TRUE) /\ Tail(ush.out) = <<>>
        BY <2>3, <3>1, PairTypes
      <3> QED
        BY <1>1, <1>2, <1>7, <2>1, <3>2
    <2> QED
      BY <1>3, <1>7, <2>2, <2>3 DEF Writing
  <1> QED
    BY <1>5, <1>6, <1>7

\* What shell_service writes when there is nothing to read, if it writes: a character
\* of the prompt.
LEMMA PromptWrites ==
  ASSUME TypeInv, PieceInv, NoKey
  PROVE  /\ UNCHANGED <<print_queue, post, nmsg, cur>> /\ cli = "service" /\ cli' = "sleep"
         /\ \/ screen' = screen
            \/ \E c \in Chars : screen' = Append(screen, c) /\ c.of = Prompt
  <1>1. /\ UNCHANGED <<print_queue, post, nmsg, cur>> /\ cli = "service" /\ cli' = "sleep"
    BY DEF NoKey, Sleep
  <1>2. cur["cli"] = <<>>
    BY <1>1 DEF TypeInv, CliInv
  <1>3. CASE ush.state = "WRITE_CHAR" /\ WriteChar
    <2>1. Writing /\ Owner = Prompt /\ Prompt \in Owners
      BY <1>2, <1>3, OwnerTypes DEF PieceInv, Owner
    <2>2. CASE ush.out = <<>> \/ ~up
      BY <1>1, <1>3, <2>2 DEF WriteChar
    <2>3. CASE ush.out # <<>> /\ up
      <3>1. screen' = Append(screen, Head(ush.out))
        BY <1>3, <2>3 DEF WriteChar
      <3>2. /\ Char(Prompt, TRUE) \in Chars /\ Char(Prompt, FALSE) \in Chars
            /\ Char(Prompt, TRUE).of = Prompt /\ Char(Prompt, FALSE).of = Prompt
        BY <2>1, TextTypes DEF Char
      <3>3. Head(ush.out) \in {Char(Prompt, FALSE), Char(Prompt, TRUE)}
        BY <2>1, <2>3, <3>2, TextTypes, PairTypes DEF Writing
      <3> QED
        BY <1>1, <3>1, <3>2, <3>3
    <2> QED
      BY <2>2, <2>3
  <1>4. CASE screen' = screen
    BY <1>1, <1>4
  <1> QED
    BY <1>3, <1>4, NoKeyCases

\* What a character belongs to is known from it.
LEMMA CharFacts ==
  /\ \A o, p, a, b : Char(o, a) = Char(p, b) => o = p /\ a = b
  /\ \A m, n : Message(m) = Message(n) => m = n
  /\ \A o, m : (o[1] # "message" => o # Message(m)) /\ Message(m)[1] = "message"
  /\ \A o : ~isMessage(Char(o, FALSE)) /\ (isMessage(Char(o, TRUE)) <=> o[1] = "message")
  /\ \A o, a : Char(o, a).of = o /\ Message(a)[2] = a
  <1>1. ASSUME NEW o, NEW p, NEW a, NEW b, Char(o, a) = Char(p, b) PROVE o = p /\ a = b
    <2>1. Char(o, a).of = o /\ Char(p, b).of = p /\ Char(o, a).last = a /\ Char(p, b).last = b
      BY DEF Char
    <2> QED
      BY <1>1, <2>1
  <1>2. \A m : Message(m)[1] = "message" /\ Message(m)[2] = m
    BY DEF Message
  <1>3. \A o : ~isMessage(Char(o, FALSE)) /\ (isMessage(Char(o, TRUE)) <=> o[1] = "message")
    BY DEF Char, isMessage
  <1>4. \A o, a : Char(o, a).of = o
    BY DEF Char
  <1>5. \A m, n : Message(m) = Message(n) => m = n
    <2> SUFFICES ASSUME NEW m, NEW n, Message(m) = Message(n) PROVE m = n
      OBVIOUS
    <2>1. Message(m)[2] = m /\ Message(n)[2] = n
      BY <1>2
    <2> QED
      BY <2>1
  <1>6. \A o, m : (o[1] # "message" => o # Message(m)) /\ Message(m)[1] = "message"
    <2> SUFFICES ASSUME NEW o, NEW m
                 PROVE  (o[1] # "message" => o # Message(m)) /\ Message(m)[1] = "message"
      OBVIOUS
    <2>1. Message(m)[1] = "message"
      BY <1>2
    <2> QED
      BY <2>1
  <1>7. \A o, a : Char(o, a).of = o /\ Message(a)[2] = a
    BY <1>2, <1>4
  <1> QED
    BY Zenon, <1>1, <1>3, <1>5, <1>6, <1>7

\* What is pulled has not been shown.
LEMMA PullStep ==
  ASSUME TypeInv, PieceInv, Unique, ShownInv, [Next]_vars, ~shared', Pulls
  PROVE  \E h \in 1 .. MaxMsg :
           /\ h = Head(print_queue) /\ Spent(h)' /\ cur'["cli"] = Message(h)
           /\ Char(Message(h), TRUE) \notin ToSet(screen)
  <1>t. /\ "cli" \in Tasks /\ cur \in [Tasks -> {<<>>} \cup Owners] /\ MaxMsg \in Nat
    BY ConsoleConstants DEF TypeInv, TypeOK, Tasks
  <1>1. PICK h \in 1 .. MaxMsg : h = Head(print_queue) /\ Spent(h)'
    BY UniqueStep
  <1>2. print_queue # <<>> /\ cur' = [cur EXCEPT !["cli"] = Message(h)]
    BY <1>1 DEF Pulls, Peek, StartPrint
  <1>3. cur'["cli"] = Message(h)
    BY <1>t, <1>2
  <1>4. ~Spent(h)
    <2>1. print_queue \in Seq(1 .. MaxMsg)
      BY QueueFacts
    <2>2. 1 \in 1 .. Len(print_queue) /\ print_queue[1] = h
      BY <1>1, <1>2, <2>1, EmptySeq
    <2> QED
      BY <2>2 DEF Spent
  <1>5. Char(Message(h), TRUE) \notin ToSet(screen)
    <2>1. h \in Nat
      BY <1>t
    <2> QED
      BY <1>4, <2>1 DEF ShownInv
  <1> QED
    BY <1>1, <1>3, <1>5

\* A step keeps what is on the screen spent.
LEMMA ShownStep ==
  ASSUME TypeInv, PieceInv, Unique, ShownInv, [Next]_vars, ~shared'
  PROVE  ShownInv'
  <1>t. /\ screen \in Seq(Chars) /\ "cli" \in Tasks /\ cur \in [Tasks -> {<<>>} \cup Owners]
        /\ MaxMsg \in Nat
    BY ConsoleConstants DEF TypeInv, TypeOK, Tasks
  <1>s. \A m : Spent(m) => Spent(m)'
    BY UniqueStep
  <1>1. CASE UNCHANGED <<ush, cur, screen>> /\ (cli' \in {"print", "cmdprint"} => cli' = cli)
    BY <1>s, <1>1 DEF ShownInv
  <1>2. CASE Pulls
    <2>1. PICK h \in 1 .. MaxMsg :
            /\ Spent(h)' /\ cur'["cli"] = Message(h) /\ Char(Message(h), TRUE) \notin ToSet(screen)
      BY <1>2, PullStep
    <2>2. cli' = "print" /\ screen' = screen
      BY <1>2 DEF Pulls, Peek
    <2>6. \A m \in Nat : Char(Message(m), TRUE) \in ToSet(screen') => Spent(m)'
      BY <1>s, <2>2 DEF ShownInv
    <2> QED
      BY <2>1, <2>2, <2>6 DEF ShownInv
  <1>3. CASE ReadKey
    <2> DEFINE c == Char(<<"line", line>>, Head(input) = "enter")
    <2>1. screen' = Append(screen, c) /\ cli' \in {"command", "sleep"}
      BY <1>3 DEF ReadKey, Sleep
    <2>2. c \in Chars
      <3>1. <<"line", line>> \in Owners
        <4>1. line \in Nat
          BY ConsoleConstants DEF TypeInv, TypeOK
        <4> QED
          BY <4>1, OwnerTypes
      <3> QED
        BY <3>1 DEF Char, Chars
    <2>3. \A m : Char(Message(m), TRUE) # c
      <3>1. \A m : <<"line", line>> # Message(m)
        BY DEF Message
      <3> QED
        BY <3>1, CharFacts
    <2> HIDE DEF c
    <2>4. ToSet(screen') = ToSet(screen) \cup {c}
      BY <2>1, <2>2, ScreenGrows
    <2>5. \A m \in Nat : Char(Message(m), TRUE) \in ToSet(screen') => Spent(m)'
      BY <1>s, <2>3, <2>4 DEF ShownInv
    <2> QED
      BY <2>1, <2>5 DEF ShownInv
  <1>n. CASE NoKey
    <2>1. cli' = "sleep"
      BY <1>n, PromptWrites
    <2>2. CASE screen' = screen
      BY <1>s, <2>1, <2>2 DEF ShownInv
    <2>3. CASE screen' # screen
      <3>1. PICK c \in Chars : screen' = Append(screen, c) /\ c.of = Prompt
        BY <1>n, <2>3, PromptWrites
      <3>2. ToSet(screen') = ToSet(screen) \cup {c}
        BY <3>1, ScreenGrows
      <3>3. \A m : Char(Message(m), TRUE) # c
        <4>1. \A m : Message(m) # Prompt
          BY DEF Message, Prompt
        <4>2. \A m : Char(Message(m), TRUE).of = Message(m)
          BY CharFacts
        <4> QED
          BY <3>1, <4>1, <4>2
      <3>4. \A m \in Nat : Char(Message(m), TRUE) \in ToSet(screen') => Spent(m)'
        BY <1>s, <3>2, <3>3 DEF ShownInv
      <3> QED
        BY <2>1, <3>4 DEF ShownInv
    <2> QED
      BY <2>2, <2>3
  <1>4. CASE PrintRound("cli")
    <2> DEFINE o == cur["cli"]
    <2>1. /\ UNCHANGED <<print_queue, post, nmsg, cur, cli>>
          /\ cli \in {"print", "cmdprint"} /\ o \in Owners
      BY <1>4, Writes
    <2>2. \A m : o = Message(m) => Spent(m)
      <3>1. CASE cli = "print"
        BY <3>1, CharFacts DEF ShownInv
      <3>2. CASE cli = "cmdprint"
        BY <3>2, CharFacts DEF ShownInv
      <3> QED
        BY <2>1, <3>1, <3>2
    <2>3. \A b \in BOOLEAN : Char(o, b) \in Chars
      BY <2>1 DEF Char, Chars
    <2>4. /\ cli' = "print" => \E m \in 1 .. MaxMsg : cur'["cli"] = Message(m) /\ Spent(m)'
          /\ cli' = "cmdprint" => cur'["cli"][1] = "command"
      BY <1>s, <2>1 DEF ShownInv
    <2> HIDE DEF o
    <2>5. CASE screen' = screen /\ (ush' = ush \/ ush'.state # "WRITE_CHAR")
      <3>1. \A m \in Nat : Char(Message(m), TRUE) \in ToSet(screen') => Spent(m)'
        BY <1>s, <2>5 DEF ShownInv
      <3> QED
        BY <2>1, <2>4, <2>5, <3>1 DEF ShownInv
    <2>6. CASE screen' = Append(screen, Char(o, FALSE)) /\ ush.out # <<>> /\ ush.state = "WRITE_CHAR"
      <3>1. ToSet(screen') = ToSet(screen) \cup {Char(o, FALSE)}
        BY <2>3, <2>6, ScreenGrows
      <3>2. \A m \in Nat : Char(Message(m), TRUE) \in ToSet(screen') => Spent(m)'
        BY <1>s, <3>1, CharFacts DEF ShownInv
      <3>3. cli' = "print" => Char(cur'["cli"], TRUE) \notin ToSet(screen')
        BY <2>1, <2>6, <3>1, CharFacts DEF ShownInv, o
      <3> QED
        BY <2>4, <3>2, <3>3 DEF ShownInv
    <2>7. CASE screen' = Append(screen, Char(o, TRUE)) /\ ush'.out = <<>>
      <3>1. ToSet(screen') = ToSet(screen) \cup {Char(o, TRUE)}
        BY <2>3, <2>7, ScreenGrows
      <3>2. \A m \in Nat : Char(Message(m), TRUE) \in ToSet(screen') => Spent(m)'
        BY <1>s, <2>2, <3>1, CharFacts DEF ShownInv
      <3> QED
        BY <2>4, <2>7, <3>2 DEF ShownInv
    <2> QED
      BY <1>4, <2>5, <2>6, <2>7, Writes DEF o
  <1>5. CASE PrintEnd("cli")
    <2>1. cli' \notin {"print", "cmdprint"} /\ screen' = screen
      <3>1. cli \in {"print", "cmdprint"}
        BY <1>5 DEF PrintEnd, TypeInv, CliInv
      <3> QED
        BY <1>5, <3>1 DEF PrintEnd
    <2>2. \A m \in Nat : Char(Message(m), TRUE) \in ToSet(screen') => Spent(m)'
      BY <1>s, <2>1 DEF ShownInv
    <2> QED
      BY <2>1, <2>2 DEF ShownInv
  <1>6. CASE CommandPrint
    <2>1. cli' = "cmdprint" /\ screen' = screen /\ cur' = [cur EXCEPT !["cli"] = <<"command", nprint'>>]
      BY <1>6 DEF CommandPrint, StartPrint
    <2>2. cur'["cli"] = <<"command", nprint'>>
      BY <1>t, <2>1
    <2>3. cur'["cli"][1] = "command"
      BY <2>2
    <2>4. \A m \in Nat : Char(Message(m), TRUE) \in ToSet(screen') => Spent(m)'
      BY <1>s, <2>1 DEF ShownInv
    <2> QED
      BY <2>1, <2>3, <2>4 DEF ShownInv
  <1> QED
    BY <1>1, <1>2, <1>3, <1>n, <1>4, <1>5, <1>6, Kinds DEF Quiet

\* While the cli task does not print a message, nothing is being shown.
LEMMA BeingShown ==
  /\ cli # "print" => beingShown = <<>>
  /\ \A m : cli = "print" /\ cur["cli"] = Message(m) =>
       beingShown = IF Char(Message(m), TRUE) \in ToSet(screen) THEN <<>> ELSE <<m>>
  BY CharFacts DEF beingShown

\* What a step does to the messages that are pending and to those that are shown.
Stutters == UNCHANGED <<beingShown \o print_queue, messagesShown>>

\* A step shows a message, accepts one, or does neither.
LEMMA QueueStep ==
  ASSUME TypeInv, PieceInv, Unique, ShownInv, [Next]_vars, ~shared'
  PROVE  Queue!Show \/ (\E m \in 1 .. MaxMsg : Queue!Accept(m)) \/ Stutters
  <1>t. /\ screen \in Seq(Chars) /\ "cli" \in Tasks /\ MaxMsg \in Nat
        /\ print_queue \in Seq(1 .. MaxMsg) /\ post \in [Tasks -> 0 .. MaxMsg]
    BY ConsoleConstants DEF TypeInv, TypeOK, Tasks
  <1>s. ASSUME beingShown' = beingShown, print_queue' = print_queue, messagesShown' = messagesShown
        PROVE  Stutters
    BY <1>s DEF Stutters
  <1>q. screen' = screen => messagesShown' = messagesShown
    BY DEF messagesShown
  <1>b. /\ cli' # "print" => beingShown' = <<>>
        /\ \A m : cli' = "print" /\ cur'["cli"] = Message(m) =>
             beingShown' = IF Char(Message(m), TRUE) \in ToSet(screen') THEN <<>> ELSE <<m>>
    BY CharFacts DEF beingShown
  <1>e. beingShown \in Seq(1 .. MaxMsg)
    <2>1. CASE cli # "print"
      BY <2>1, BeingShown
    <2>2. CASE cli = "print"
      <3>1. PICK m \in 1 .. MaxMsg : cur["cli"] = Message(m)
        BY <2>2 DEF ShownInv
      <3>2. <<m>> \in Seq(1 .. MaxMsg) /\ <<>> \in Seq(1 .. MaxMsg)
        OBVIOUS
      <3> QED
        BY <2>2, <3>1, <3>2, BeingShown
    <2> QED
      BY <2>1, <2>2
  <1>1. ASSUME Quiet PROVE beingShown' = beingShown /\ messagesShown' = messagesShown
    <2>1. cur' = cur /\ screen' = screen /\ (cli' = "print" <=> cli = "print")
      BY <1>1 DEF Quiet
    <2> QED
      BY <1>q, <2>1 DEF beingShown
  <1>2. ASSUME NEW t \in Tasks, Send(t), Quiet PROVE \E m \in 1 .. MaxMsg : Queue!Accept(m)
    <2>1. /\ post[t] \in 1 .. MaxMsg /\ print_queue' = Append(print_queue, post[t])
      BY <1>t, <1>2 DEF Send
    <2>2. beingShown \o Append(print_queue, post[t]) = Append(beingShown \o print_queue, post[t])
      BY SMTT(30), <1>t, <1>e, <2>1, Glue
    <2>3. Queue!Accept(post[t])
      BY <1>1, <1>2, <2>1, <2>2 DEF Queue!Accept
    <2> QED
      BY <2>1, <2>3
  <1>3. ASSUME UNCHANGED print_queue, Quiet PROVE Stutters
    BY <1>1, <1>3, <1>s
  <1>4. ASSUME NEW t \in Tasks, SendTimeout(t), Quiet PROVE Stutters
    BY <1>3, <1>4 DEF SendTimeout
  <1>5. CASE Pulls
    <2>1. PICK h \in 1 .. MaxMsg :
            /\ h = Head(print_queue) /\ cur'["cli"] = Message(h)
            /\ Char(Message(h), TRUE) \notin ToSet(screen)
      BY <1>5, PullStep
    <2>2. /\ cli = "peek" /\ cli' = "print" /\ screen' = screen /\ print_queue # <<>>
          /\ print_queue' = Tail(print_queue)
      BY <1>5 DEF Pulls, Peek
    <2>3. beingShown = <<>> /\ beingShown' = <<h>>
      BY <1>b, <2>1, <2>2, BeingShown
    <2> DEFINE q == Tail(print_queue)
    <2>4. q \in Seq(1 .. MaxMsg) /\ <<h>> \o q = print_queue /\ <<>> \o print_queue = print_queue
      <3>1. q \in Seq(1 .. MaxMsg)
        BY <1>t, <2>2, HeadTailProperties
      <3>2. <<h>> \o q = print_queue
        BY <1>t, <2>1, <2>2, PutBack
      <3> QED
        BY <1>t, <2>1, <3>1, <3>2, Glue
    <2> QED
      BY <1>q, <2>2, <2>3, <2>4 DEF Stutters
  <1>6. CASE ReadKey
    <2> DEFINE c == Char(<<"line", line>>, Head(input) = "enter")
    <2>1. /\ screen' = Append(screen, c) /\ cli = "service" /\ cli' \in {"command", "sleep"}
          /\ print_queue' = print_queue
      BY <1>6 DEF ReadKey, Sleep
    <2>2. c \in Chars /\ ~isMessage(c)
      <3>1. line \in Nat
        BY ConsoleConstants DEF TypeInv, TypeOK
      <3>2. <<"line", line>> \in Owners /\ <<"line", line>>[1] = "line"
        BY <3>1, OwnerTypes
      <3> QED
        BY <3>2 DEF Char, Chars, isMessage
    <2> HIDE DEF c
    <2>3. messagesShown' = messagesShown
      BY <2>1, <2>2, ScreenGrows
    <2> QED
      BY <1>b, <1>s, <2>1, <2>3, BeingShown
  <1>n. CASE NoKey
    <2>1. cli = "service" /\ cli' = "sleep" /\ print_queue' = print_queue
      BY <1>n, PromptWrites
    <2>2. CASE screen' = screen
      BY <1>b, <1>q, <1>s, <2>1, <2>2, BeingShown
    <2>3. CASE screen' # screen
      <3>1. PICK c \in Chars : screen' = Append(screen, c) /\ c.of = Prompt
        BY <1>n, <2>3, PromptWrites
      <3>2. ~isMessage(c)
        BY <3>1 DEF isMessage, Prompt
      <3>3. messagesShown' = messagesShown
        BY <3>1, <3>2, ScreenGrows
      <3> QED
        BY <1>b, <1>s, <2>1, <3>3, BeingShown
    <2> QED
      BY <2>2, <2>3
  <1>7. CASE PrintRound("cli")
    <2> DEFINE o == cur["cli"]
    <2>1. /\ print_queue' = print_queue /\ cur' = cur /\ cli' = cli
          /\ cli \in {"print", "cmdprint"} /\ o \in Owners
      BY <1>7, Writes
    <2>2. \A b \in BOOLEAN : Char(o, b) \in Chars
      BY <2>1 DEF Char, Chars
    <2>3. ASSUME screen' = screen PROVE Stutters
      <3>1. beingShown' = beingShown
        BY <2>1, <2>3 DEF beingShown
      <3> QED
        BY <1>q, <1>s, <2>1, <2>3, <3>1
    <2>4. ASSUME screen' = Append(screen, Char(o, FALSE)) PROVE Stutters
      <3> DEFINE c == Char(o, FALSE)
      <3>1. c \in Chars /\ ~isMessage(c) /\ c # Char(o, TRUE)
        <4>1. c # Char(o, TRUE)
          BY CharFacts
        <4> QED
          BY <2>2, <4>1, CharFacts
      <3> HIDE DEF c
      <3>2. messagesShown' = messagesShown /\ ToSet(screen') = ToSet(screen) \cup {c}
        BY <2>4, <3>1, ScreenGrows DEF c
      <3>3. beingShown' = beingShown
        BY <2>1, <3>1, <3>2 DEF beingShown
      <3> QED
        BY <1>s, <2>1, <3>2, <3>3
    <2>5. ASSUME screen' = Append(screen, Char(o, TRUE)), ush.state = "WRITE_CHAR", ush.out # <<>>
          PROVE  Queue!Show \/ Stutters
      <3> DEFINE c == Char(o, TRUE)
      <3>0. c \in Chars
        BY <2>2
      <3>1. CASE cli = "cmdprint"
        <4>1. ~isMessage(c)
          BY <3>1, CharFacts DEF ShownInv
        <4>2. messagesShown' = messagesShown
          <5> HIDE DEF c
          <5> QED
            BY <2>5, <3>0, <4>1, ScreenGrows DEF c
        <4>3. beingShown' = beingShown
          BY <1>b, <2>1, <3>1, BeingShown
        <4> QED
          BY <1>s, <2>1, <4>2, <4>3
      <3>2. CASE cli = "print"
        <4>1. PICK m \in 1 .. MaxMsg : o = Message(m)
          BY <3>2 DEF ShownInv
        <4>2. isMessage(c) /\ c.of[2] = m
          <5>1. o[1] = "message" /\ o[2] = m
            BY <4>1 DEF Message
          <5>2. isMessage(c) /\ c.of = o
            BY <5>1 DEF Char, isMessage
          <5> QED
            BY <5>1, <5>2
        <4>3. c \notin ToSet(screen)
          BY <2>5, <3>2 DEF ShownInv
        <4>4. screen' = Append(screen, c) /\ c = Char(Message(m), TRUE)
          BY <2>5, <4>1
        <4> HIDE DEF c
        <4>5. messagesShown' = Append(messagesShown, m) /\ c \in ToSet(screen')
          BY <3>0, <4>2, <4>4, ScreenGrows
        <4>6. beingShown = <<m>> /\ beingShown' = <<>>
          BY <1>b, <2>1, <3>2, <4>1, <4>3, <4>4, <4>5, BeingShown
        <4>7. /\ <<m>> \o print_queue # <<>> /\ Head(<<m>> \o print_queue) = m
              /\ Tail(<<m>> \o print_queue) = print_queue /\ <<>> \o print_queue = print_queue
          BY <1>t, Glue
        <4>8. Queue!Show
          BY <2>1, <4>5, <4>6, <4>7 DEF Queue!Show
        <4> QED
          BY <4>8
      <3> QED
        BY <2>1, <3>1, <3>2
    <2> HIDE DEF o
    <2> QED
      BY <1>7, <2>3, <2>4, <2>5, Writes DEF o
  <1>8. CASE PrintEnd("cli")
    <2>1. /\ cli \in {"print", "cmdprint"} /\ cli' \notin {"print", "cmdprint"} /\ screen' = screen
          /\ print_queue' = print_queue
      <3>1. cli \in {"print", "cmdprint"}
        BY <1>8 DEF PrintEnd, TypeInv, CliInv
      <3> QED
        BY <1>8, <3>1 DEF PrintEnd
    <2>2. IsAt(Char(cur["cli"], TRUE))
      <3>1. cur["cli"] # <<>> /\ ush.state # "WRITE_CHAR"
        BY <1>8 DEF PrintEnd
      <3>2. ush.state \in {"READ_CHAR", "WRITE_CHAR", "RESET"}
        BY DEF TypeInv, TypeOK, UshType
      <3> QED
        BY <3>1, <3>2 DEF PieceInv
    <2>3. Len(screen) \in DOMAIN screen
      BY <1>t, <2>2, EmptySeq, LenProperties DEF IsAt
    <2>4. Char(cur["cli"], TRUE) \in ToSet(screen)
      BY <2>2, <2>3 DEF IsAt, ToSet
    <2>5. beingShown = <<>>
      BY <2>4 DEF beingShown
    <2> QED
      BY <1>b, <1>q, <1>s, <2>1, <2>5
  <1>9. CASE CommandPrint
    <2>1. /\ cli = "command" /\ cli' = "cmdprint" /\ screen' = screen
          /\ print_queue' = print_queue
      BY <1>9 DEF CommandPrint
    <2> QED
      BY <1>b, <1>q, <1>s, <2>1, BeingShown
  <1> QED
    BY <1>2, <1>3, <1>4, <1>5, <1>6, <1>n, <1>7, <1>8, <1>9, Kinds

\* At first nothing is posted, pending or shown.
LEMMA QueueInit == Init => Unique /\ ShownInv /\ beingShown \o print_queue = <<>> /\ messagesShown = <<>>
  <1> SUFFICES ASSUME Init
               PROVE  Unique /\ ShownInv /\ beingShown \o print_queue = <<>> /\ messagesShown = <<>>
    OBVIOUS
  <1>1. /\ print_queue = <<>> /\ screen = <<>> /\ nmsg = 0 /\ cli = "peek"
        /\ post = [t \in Tasks |-> 0]
    BY DEF Init
  <1>2. Len(<<>>) = 0 /\ ToSet(<<>>) = {} /\ <<>> \in Seq({0})
    BY DEF ToSet
  <1>3. Unique
    BY <1>1, <1>2 DEF Unique
  <1>4. ShownInv
    BY <1>1, <1>2 DEF ShownInv
  <1>5. beingShown \o print_queue = <<>>
    BY <1>1, <1>2, BeingShown, Glue
  <1> QED
    BY <1>1, <1>3, <1>4, <1>5, NoMessages DEF messagesShown

\* What the queue has accepted is shown once and in order, until another task
\* uses shell_print (cli_print_raw, cli_service's loop and shell_print).
THEOREM QueueIsKept == Spec => IsQueue
  <1> DEFINE OneInv == PieceInv /\ Unique /\ ShownInv
  <1>1. TypeInv /\ OneInv /\ [Next]_vars => (shared \/ OneInv)'
    <2> SUFFICES ASSUME TypeInv, OneInv, [Next]_vars, ~shared' PROVE OneInv'
      OBVIOUS
    <2> QED
      BY PieceStep, UniqueStep, ShownStep
  <1>2. TypeInv /\ [Next]_vars /\ shared => shared'
    BY SharedStays
  <1>3. TypeInv /\ [Next]_vars => TypeInv'
    BY TypeStep, CliStep DEF TypeInv
  <1>4. /\ TypeInv /\ (shared \/ OneInv) /\ [Next]_vars
        => [shared' \/ Queue!Show \/ \E m \in 1 .. MaxMsg : Queue!Accept(m)]_<<beingShown \o print_queue, messagesShown>>
    <2> SUFFICES ASSUME TypeInv, shared \/ OneInv, [Next]_vars, ~shared'
                 PROVE  Queue!Show \/ (\E m \in 1 .. MaxMsg : Queue!Accept(m)) \/ Stutters
      BY DEF Stutters
    <2> QED
      BY <1>2, QueueStep
  <1>5. Init => OneInv /\ beingShown \o print_queue = <<>> /\ messagesShown = <<>>
    BY PieceInit, QueueInit
  <1> HIDE DEF OneInv
  <1> QED
    BY TypeInit, <1>1, <1>2, <1>3, <1>4, <1>5, PTL DEF Spec, IsQueue, Queue!QueueSpec
-----------------------------------------------------------------------------
(* One task posts.                                                         *)

Room == Len(print_queue) < PRINT_QUEUE_DEPTH

\* The cli task makes room before the message that task t posts gives up: microshell is
\* at an empty line, or the cli task has made room already or will sleep with the task
\* held up; and what is left of the wait covers what is left of the cli task's pass.
Soon(t) ==
  /\ up /\ cli \in {"sleep", "peek", "print", "service"}
  /\ ush.in_pos > 0 => cli = "sleep"
  /\ AtPrompt \/ (cli = "sleep" /\ sleep > 0) \/ (cli \in {"print", "service"} /\ Room)
  /\ \/ Room
     \/ cli = "sleep" /\ sleep < wait[t]
     \/ cli = "peek" /\ wait[t] > 0
     \/ cli = "service" /\ wait[t] = PRINT_TICKS

\* Who waits without having been held up is answered soon; a command is always
\* held up.
WaitInv ==
  /\ \A t \in Posters : post[t] # 0 /\ ~held[t] => Soon(t)
  /\ \A t \in Tasks \ Posters : post[t] # 0 => t = "cli" /\ held[t]

\* One task posts, and waits longer for room than the cli task sleeps.
OneTaskPosts == (\A t, u \in Posters : t = u) /\ DELAY_CLI < PRINT_TICKS

\* The types these proofs use.
LEMMA WaitTypes ==
  ASSUME TypeInv
  PROVE  /\ Len(print_queue) \in Nat /\ Len(print_queue) <= PRINT_QUEUE_DEPTH
         /\ PRINT_QUEUE_DEPTH \in Nat \ {0} /\ PRINT_TICKS \in Nat \ {0}
         /\ DELAY_CLI \in Nat \ {0} /\ sleep \in 0 .. DELAY_CLI /\ ush.in_pos \in Nat
         /\ post \in [Tasks -> 0 .. MaxMsg] /\ held \in [Tasks -> BOOLEAN]
         /\ wait \in [Tasks -> 0 .. PRINT_TICKS] /\ \A t \in Tasks : wait[t] \in Nat
         /\ "cli" \in Tasks /\ "cli" \notin Posters /\ Posters \subseteq Tasks
         /\ MaxMsg \in Nat /\ up \in BOOLEAN /\ CliInv /\ ush \in UshType /\ cli \in CliPcs
  BY ConsoleConstants DEF TypeInv, TypeOK, UshType, Tasks

\* A pass of the cli task makes room.
LEMMA PeekMakesRoom ==
  ASSUME TypeInv, Peek, AtPrompt
  PROVE  Room' /\ cli' \in {"print", "service"} /\ ush'.in_pos = 0
  <1>1. print_queue \in Seq(1 .. MaxMsg)
    BY QueueFacts
  <1>2. ush.in_pos = 0
    BY DEF AtPrompt
  <1>3. CASE print_queue = <<>>
    <2>1. UNCHANGED <<print_queue, ush>> /\ cli' = "service"
      BY <1>3 DEF Peek
    <2>2. Len(print_queue) = 0
      BY <1>3
    <2> QED
      BY <1>2, <2>1, <2>2, WaitTypes DEF Room
  <1>4. CASE print_queue # <<>>
    <2>1. /\ cli' = "print" /\ print_queue' = Tail(print_queue)
          /\ ush' = [ush EXCEPT !.state = "WRITE_CHAR", !.out = Text(Message(Head(print_queue))),
                                !.next = "RESET"]
      BY <1>4 DEF Peek, StartPrint
    <2>2. Len(print_queue') < Len(print_queue) /\ Len(print_queue') \in Nat
      BY <1>1, <1>4, <2>1, QueueTypes
    <2>3. ush'.in_pos = ush.in_pos
      BY <2>1, WaitTypes DEF UshType
    <2> QED
      BY <1>2, <2>1, <2>2, <2>3, WaitTypes DEF Room
  <1> QED
    BY <1>3, <1>4

\* A step keeps the wait long enough.
LEMMA WaitStep ==
  ASSUME OneTaskPosts, TypeInv, PieceInv, WaitInv, [Next]_vars, ~shared'
  PROVE  WaitInv'
  <1>t. /\ Len(print_queue) \in Nat /\ Len(print_queue) <= PRINT_QUEUE_DEPTH
        /\ PRINT_QUEUE_DEPTH \in Nat \ {0} /\ PRINT_TICKS \in Nat \ {0}
        /\ DELAY_CLI \in Nat \ {0} /\ sleep \in 0 .. DELAY_CLI /\ ush.in_pos \in Nat
        /\ post \in [Tasks -> 0 .. MaxMsg] /\ held \in [Tasks -> BOOLEAN]
        /\ wait \in [Tasks -> 0 .. PRINT_TICKS] /\ (\A t \in Tasks : wait[t] \in Nat)
        /\ "cli" \in Tasks /\ "cli" \notin Posters /\ Posters \subseteq Tasks
        /\ MaxMsg \in Nat /\ up \in BOOLEAN
    BY WaitTypes
  <1>r. DELAY_CLI < PRINT_TICKS
    BY DEF OneTaskPosts
  <1>k. ASSUME UNCHANGED <<post, wait, held>>, \A t \in Posters : Soon(t) => Soon(t)'
        PROVE  WaitInv'
    BY <1>k DEF WaitInv
  <1>1. CASE Peek
    <2>1. UNCHANGED <<post, wait, held, up, sleep>> /\ cli = "peek"
      BY <1>1 DEF Peek
    <2>2. ASSUME NEW t \in Posters, Soon(t) PROVE Soon(t)'
      <3>1. AtPrompt /\ up
        BY <2>1, <2>2 DEF Soon
      <3>2. Room' /\ cli' \in {"print", "service"} /\ ush'.in_pos = 0
        BY <1>1, <3>1, PeekMakesRoom
      <3> QED
        BY <2>1, <3>1, <3>2 DEF Soon
    <2> QED
      BY <1>k, <2>1, <2>2
  <1>s. ASSUME NEW t \in Posters, Soon(t), cli = "service", cli' = "sleep", sleep' = DELAY_CLI,
               UNCHANGED <<wait, up, print_queue>>
        PROVE  Soon(t)'
    <2>1. up /\ (Room \/ wait[t] = PRINT_TICKS)
      BY <1>s DEF Soon
    <2>2. Room' = Room /\ sleep' > 0
      BY <1>t, <1>s DEF Room
    <2>3. Room' \/ sleep' < wait'[t]
      BY <1>r, <1>s, <2>1, <2>2
    <2> QED
      BY <1>s, <2>1, <2>2, <2>3 DEF Soon
  <1>2. CASE ReadKey
    <2>1. UNCHANGED <<post, wait, held, up, print_queue>> /\ cli = "service"
      BY <1>2 DEF ReadKey
    <2>2. ASSUME NEW t \in Posters, Soon(t) PROVE Soon(t)'
      <3>1. ~(ush.in_pos > 0)
        BY <2>1, <2>2 DEF Soon
      <3>2. cli' = "sleep" /\ sleep' = DELAY_CLI
        BY <1>2, <3>1 DEF ReadKey, Sleep
      <3> QED
        BY <1>s, <2>1, <2>2, <3>2
    <2> QED
      BY <1>k, <2>1, <2>2
  <1>3. CASE NoKey
    <2>1. UNCHANGED <<post, wait, held, up, print_queue>> /\ cli = "service"
      BY <1>3 DEF NoKey
    <2>2. cli' = "sleep" /\ sleep' = DELAY_CLI
      BY <1>3 DEF NoKey, Sleep
    <2>3. ASSUME NEW t \in Posters, Soon(t) PROVE Soon(t)'
      BY <1>s, <2>1, <2>2, <2>3
    <2> QED
      BY <1>k, <2>1, <2>3
  <1>4. CASE CommandPrint
    <2>1. UNCHANGED <<post, wait, held>> /\ cli = "command"
      BY <1>4 DEF CommandPrint
    <2> QED
      BY <1>k, <2>1 DEF Soon
  <1>5. CASE CommandEnd
    <2>1. UNCHANGED <<post, wait, held>> /\ cli = "command"
      BY <1>5 DEF CommandEnd
    <2> QED
      BY <1>k, <2>1 DEF Soon
  <1>6. CASE Wake
    <2>1. /\ UNCHANGED <<post, wait, held, up, print_queue, ush, sleep>>
          /\ cli = "sleep" /\ cli' = "peek" /\ sleep = 0
      BY <1>6 DEF Wake
    <2>2. ASSUME NEW t \in Posters, Soon(t) PROVE Soon(t)'
      <3>1. AtPrompt /\ (Room \/ wait[t] > 0) /\ up
        BY <2>1, <2>2 DEF Soon
      <3>2. ~(ush.in_pos > 0)
        BY <3>1 DEF AtPrompt
      <3>3. Room' = Room /\ AtPrompt'
        BY <2>1, <3>1 DEF Room, AtPrompt
      <3> QED
        BY <2>1, <3>1, <3>2, <3>3 DEF Soon
    <2> QED
      BY <1>k, <2>1, <2>2
  <1>7. CASE PrintRound("cli")
    <2>1. /\ UNCHANGED <<post, wait, held, up, print_queue, cli, sleep>>
          /\ cli \in {"print", "cmdprint"}
      BY <1>7, WaitTypes DEF PrintRound, CliInv
    <2>2. ush'.in_pos = ush.in_pos
      BY <1>7, WriteCharTypes DEF PrintRound
    <2>3. ASSUME NEW t \in Posters, Soon(t) PROVE Soon(t)'
      <3>1. up /\ cli = "print" /\ ~(ush.in_pos > 0) /\ Room
        BY <2>1, <2>3 DEF Soon
      <3>2. Room'
        BY <2>1, <3>1 DEF Room
      <3> QED
        BY <2>1, <2>2, <3>1, <3>2 DEF Soon
    <2> QED
      BY <1>k, <2>1, <2>3
  <1>8. CASE PrintEnd("cli")
    <2>1. /\ UNCHANGED <<post, wait, held, up, print_queue, ush, sleep>>
          /\ (cli = "print" /\ cli' = "service") \/ cli = "cmdprint"
      <3>1. cli \in {"print", "cmdprint"}
        BY <1>8, WaitTypes DEF PrintEnd, CliInv
      <3> QED
        BY <1>8, <3>1 DEF PrintEnd
    <2>2. ASSUME NEW t \in Posters, Soon(t) PROVE Soon(t)'
      <3>1. up /\ cli = "print" /\ ~(ush.in_pos > 0) /\ Room
        BY <2>1, <2>2 DEF Soon
      <3>2. Room'
        BY <2>1, <3>1 DEF Room
      <3> QED
        BY <2>1, <3>1, <3>2 DEF Soon
    <2> QED
      BY <1>k, <2>1, <2>2
  <1>9. CASE CommandPost
    <2>1. /\ UNCHANGED <<up, print_queue, ush, sleep>> /\ cli = "command" /\ cli' = "post"
          /\ wait' = [wait EXCEPT !["cli"] = PRINT_TICKS]
          /\ held' = [held EXCEPT !["cli"] = TRUE]
      BY <1>9 DEF CommandPost, StartPost
    <2>2. post' = [post EXCEPT !["cli"] = nmsg']
      BY <1>9 DEF CommandPost, StartPost
    <2>3. ASSUME NEW t \in Posters
          PROVE  post'[t] = post[t] /\ wait'[t] = wait[t] /\ held'[t] = held[t]
      BY <1>t, <2>1, <2>2
    <2>4. \A t : ~Soon(t)
      BY <2>1 DEF Soon
    <2>5. ASSUME NEW t \in Tasks \ Posters, post'[t] # 0 PROVE t = "cli" /\ held'[t]
      BY <1>t, <2>1, <2>2, <2>5 DEF WaitInv
    <2> QED
      BY <2>3, <2>4, <2>5 DEF WaitInv
  <1>10. ASSUME NEW u \in Tasks, u = "cli" \/ u \in Posters, Send(u) \/ SendTimeout(u) PROVE WaitInv'
    <2>1. /\ UNCHANGED <<up, wait, held, ush, sleep>> /\ post' = [post EXCEPT ![u] = 0]
          /\ cli' = IF u = "cli" THEN "command" ELSE cli
      BY <1>10 DEF Send, SendTimeout, EndPost
    <2>2. \A t \in Tasks : post'[t] = IF t = u THEN 0 ELSE post[t]
      BY <1>t, <2>1
    <2>3. ASSUME NEW t \in Posters, t # u, Soon(t) PROVE Soon(t)'
      <3>1. u = "cli"
        BY <1>10, <2>3 DEF OneTaskPosts
      <3>2. cli = "post"
        <4>1. post["cli"] # 0
          BY <1>10, <3>1 DEF Send, SendTimeout
        <4> QED
          BY <4>1, WaitTypes DEF CliInv
      <3> QED
        BY <2>3, <3>2 DEF Soon
    <2>4. ASSUME NEW t \in Tasks \ Posters, post'[t] # 0 PROVE t = "cli" /\ held'[t]
      BY <2>1, <2>2, <2>4 DEF WaitInv
    <2> QED
      BY <1>t, <2>1, <2>2, <2>3, <2>4 DEF WaitInv
  <1>11. ASSUME NEW u \in Posters, Post(u) PROVE WaitInv'
    <2>1. /\ UNCHANGED <<up, print_queue, ush, cli, sleep>>
          /\ post' = [post EXCEPT ![u] = nmsg']
          /\ wait' = [wait EXCEPT ![u] = PRINT_TICKS]
          /\ held' = [held EXCEPT ![u] = HeldUp \/ u = "cli"]
      BY <1>11 DEF Post, StartPost
    <2>2. /\ wait'[u] = PRINT_TICKS
          /\ \A t \in Tasks : t # u => post'[t] = post[t] /\ held'[t] = held[t]
      BY <1>t, <1>11, <2>1
    <2>3. held'[u] = (HeldUp \/ u = "cli")
      BY <1>t, <1>11, <2>1
    <2>4. ~held'[u] => Soon(u)'
      <3>1. SUFFICES ASSUME ~held'[u] PROVE Soon(u)'
        OBVIOUS
      <3>2. up /\ AtPrompt
        BY <2>3, <3>1 DEF HeldUp
      <3>3. ~(ush.in_pos > 0) /\ AtPrompt'
        BY <2>1, <3>2 DEF AtPrompt
      <3>4. cli \in {"sleep", "peek", "service"}
        <4>1. cli \notin {"command", "post"} /\ cur["cli"] = <<>>
          BY <3>2 DEF AtPrompt, PieceInv
        <4> QED
          BY <4>1, WaitTypes DEF CliInv, CliPcs
      <3>5. sleep' < wait'[u] /\ wait'[u] > 0
        BY <1>r, <1>t, <2>1, <2>2
      <3> QED
        BY <2>1, <2>2, <3>2, <3>3, <3>4, <3>5 DEF Soon
    <2>5. \A t \in Posters : t = u
      BY <1>11 DEF OneTaskPosts
    <2>6. ASSUME NEW t \in Tasks \ Posters, post'[t] # 0 PROVE t = "cli" /\ held'[t]
      BY <1>11, <2>2, <2>6 DEF WaitInv
    <2> QED
      BY <2>4, <2>5, <2>6 DEF WaitInv
  <1>12. ASSUME NEW key, Type(key) PROVE WaitInv'
    <2>1. UNCHANGED <<post, wait, held, up, cli, sleep, ush, print_queue>>
      BY <1>12 DEF Type
    <2> QED
      BY <1>k, <2>1 DEF Soon, Room, AtPrompt
  <1>13. CASE Plug
    <2>1. /\ UNCHANGED <<post, wait, cli, sleep, ush, print_queue>> /\ up' = ~up
          /\ held' = [t \in Tasks |-> held[t] \/ (post[t] # 0 /\ ~up')]
      BY <1>13 DEF Plug
    <2>2. ASSUME NEW t \in Tasks PROVE held'[t] = (held[t] \/ (post[t] # 0 /\ ~up'))
      BY <2>1
    <2>3. ASSUME NEW t \in Posters, post'[t] # 0, ~held'[t] PROVE FALSE
      <3>1. t \in Tasks
        BY <1>t
      <3>2. ~held[t] /\ up'
        BY <2>1, <2>2, <2>3, <3>1
      <3>3. Soon(t)
        BY <2>1, <2>3, <3>2 DEF WaitInv
      <3> QED
        BY <2>1, <3>2, <3>3 DEF Soon
    <2>4. ASSUME NEW t \in Tasks \ Posters, post'[t] # 0 PROVE t = "cli" /\ held'[t]
      <3>1. t = "cli" /\ held[t]
        BY <2>1, <2>4 DEF WaitInv
      <3> QED
        BY <2>2, <3>1
    <2> QED
      BY <2>3, <2>4 DEF WaitInv
  <1>14. CASE Tick
    <2>1. /\ UNCHANGED <<post, up, cli, ush, print_queue>>
          /\ sleep' = IF cli = "sleep" THEN sleep - 1 ELSE sleep
          /\ wait' = [t \in Tasks |-> IF post[t] # 0 THEN wait[t] - 1 ELSE wait[t]]
          /\ held' = [t \in Tasks |-> held[t] \/ (post[t] # 0 /\ HeldUp)]
          /\ \A t \in Tasks : post[t] # 0 => wait[t] > 0 /\ Len(print_queue) = PRINT_QUEUE_DEPTH
      BY <1>14 DEF Tick
    <2>2. \/ cli = "sleep" /\ sleep > 0
          \/ cli \in {"command", "post"}
          \/ ~up
      BY <1>14 DEF Tick
    <2>3. ASSUME NEW t \in Tasks PROVE held'[t] = (held[t] \/ (post[t] # 0 /\ HeldUp))
      BY <2>1
    <2>4. ASSUME NEW t \in Posters, post'[t] # 0, ~held'[t] PROVE Soon(t)'
      <3>1. t \in Tasks /\ post[t] # 0
        BY <1>t, <2>1, <2>4
      <3>2. ~held[t] /\ ~HeldUp
        BY <2>3, <2>4, <3>1
      <3>3. Soon(t) /\ ~Room
        BY <1>t, <2>1, <3>1, <3>2 DEF WaitInv, Room
      <3>4. cli = "sleep" /\ sleep > 0 /\ AtPrompt /\ up
        BY <2>2, <3>2, <3>3 DEF HeldUp, Soon
      <3>5. sleep < wait[t]
        BY <3>3, <3>4 DEF Soon
      <3>6. wait'[t] = wait[t] - 1 /\ sleep' = sleep - 1
        BY <2>1, <3>1, <3>4
      <3>7. sleep' < wait'[t]
        BY <1>t, <3>1, <3>5, <3>6
      <3>8. cli' = "sleep" /\ up' /\ ~(ush'.in_pos > 0) /\ AtPrompt'
        BY <2>1, <3>4 DEF AtPrompt
      <3> QED
        BY <3>7, <3>8 DEF Soon
    <2>5. ASSUME NEW t \in Tasks \ Posters, post'[t] # 0 PROVE t = "cli" /\ held'[t]
      <3>1. t = "cli" /\ held[t]
        BY <2>1, <2>5 DEF WaitInv
      <3> QED
        BY <2>3, <3>1
    <2> QED
      BY <2>4, <2>5 DEF WaitInv
  <1>15. CASE UNCHANGED vars
    BY <1>15, <1>k DEF vars, Soon, Room, AtPrompt
  <1>16. ASSUME NEW t \in Printers PROVE ~(Shprintf(t) \/ PrintRound(t) \/ PrintEnd(t))
    <2>1. cur[t] = <<>>
      BY ConsoleConstants DEF PieceInv, Tasks
    <2>2. ~Shprintf(t)
      BY DEF Shprintf
    <2> QED
      BY <2>1, <2>2 DEF PrintRound, PrintEnd
  <1> QED
    BY <1>t, <1>1, <1>2, <1>3, <1>4, <1>5, <1>6, <1>7, <1>8, <1>9, <1>10, <1>11, <1>12, <1>13,
       <1>14, <1>15, <1>16 DEF Next, Cli

\* Where one task posts, and the wait for room is longer than the sleep of the cli
\* task (10 ticks and 1 in the code), a message is lost only if, at some moment while its
\* sender waited, microshell was not at an empty line (it wrote a prompt, a message or a
\* line's echo, or ran a command) or the output had stalled: the burst behind which the
\* prompt is written again is the sender's risk, a console that shows its prompt is not.
THEOREM IdleConsoleLosesNothing == OneTaskPosts => (Spec => LostOnlyIfHeld)
  <1> SUFFICES ASSUME OneTaskPosts PROVE Spec => LostOnlyIfHeld
    OBVIOUS
  <1> DEFINE OneInv == PieceInv /\ WaitInv
  <1>1. TypeInv /\ OneInv /\ [Next]_vars => (shared \/ OneInv)'
    <2> SUFFICES ASSUME TypeInv, OneInv, [Next]_vars, ~shared' PROVE OneInv'
      OBVIOUS
    <2> QED
      BY PieceStep, WaitStep
  <1>2. TypeInv /\ [Next]_vars /\ shared => shared'
    BY SharedStays
  <1>3. TypeInv /\ [Next]_vars => TypeInv'
    BY TypeStep, CliStep DEF TypeInv
  <1>4. ASSUME TypeInv, WaitInv, NEW t \in Tasks, SendTimeout(t) PROVE held[t]
    <2>1. post[t] # 0 /\ wait[t] = 0 /\ ~Room
      BY <1>4 DEF SendTimeout, Room
    <2>2. CASE t \notin Posters
      BY <2>1, <2>2, <1>4 DEF WaitInv
    <2>3. CASE t \in Posters
      <3>1. /\ PRINT_TICKS # 0 /\ sleep \in Nat /\ cli \in CliPcs
        BY <1>4, ConsoleConstants DEF TypeInv, TypeOK
      <3>2. ~Soon(t)
        BY <2>1, <3>1 DEF Soon, CliPcs
      <3> QED
        BY <1>4, <2>1, <2>3, <3>2 DEF WaitInv
    <2> QED
      BY <2>2, <2>3
  <1>5. TypeInv /\ (shared \/ OneInv) => \A t \in Tasks : SendTimeout(t) => held[t] \/ shared
    BY <1>4
  <1>6. Init => OneInv
    <2>1. Init => WaitInv
      BY ConsoleConstants DEF Init, WaitInv, Tasks
    <2> QED
      BY <2>1, PieceInit
  <1> HIDE DEF OneInv
  <1> QED
    BY TypeInit, <1>1, <1>2, <1>3, <1>5, <1>6, PTL DEF Spec, LostOnlyIfHeld
=============================================================================
