-------------------------------- MODULE Shell -------------------------------
(***************************************************************************)
(* The console of the firmware without interrupts: uart_read (sw/uart.c)   *)
(* on the receive FIFO, the tokenizer (sw/shell.c) and the state machine of*)
(* main() (sw/main.c).  Board code (exec_cmd) is any result it may return; *)
(* echo, prompt and messages are output only and left out.                 *)
(*                                                                         *)
(* Characters are what the tokenizer tells apart: "a" stands for every     *)
(* printable one, "sp" for blank and tab.                                  *)
(***************************************************************************)
EXTENDS Integers, Sequences

CONSTANTS
  FifoDepth,  \* bytes of the receive FIFO
  WordSize,   \* sizeof(g_shell.word)
  MaxArgs,    \* bound: words, the size of argv
  MaxLine,    \* bound: characters typed at a prompt, but for CR
  TornLine    \* the same bound once a read has failed

ASSUME ShellAssumption ==
  /\ FifoDepth \in Nat \ {0}
  /\ WordSize \in Nat \ {0, 1}
  /\ MaxArgs \in Nat \ {0}
  /\ MaxLine \in Nat /\ TornLine \in Nat

VARIABLES
  queue, rxovr,  \* the receive FIFO and its error (FifoBuffer)
  c,             \* characters uart_read has taken and not returned: at most one
  tc,            \* the tokenizer: its state and the word so far
  state,         \* of main()
  argv,          \* the words of the command so far (argc of them)
  line,          \* history: the characters read since the last prompt
  torn,          \* history: a read has failed since the last command
  carried        \* history: what main() and the tokenizer held when the last
                 \*   read failed, less a word dropped since, until a
                 \*   command is executed

uartvars == <<queue, rxovr>>
shellvars == <<queue, rxovr, c, tc, state, argv, line, torn, carried>>

Char == {"a", "sp", "quote", "esc", "cr"}
Word == Seq(Char)
MainState == {"S_IDLE", "S_INPUT", "S_CMD", "S_INTERACTIVE", "S_ERROR"}

Tokenizer == [state : {"S_UNINITIALIZED", "S_NEUTRAL", "S_INQUOTE", "S_INWORD"},
              word : Word]

tokenizer_begin == [state |-> "S_NEUTRAL", word |-> <<>>]

Nothing == [argv |-> <<>>, tc |-> tokenizer_begin]

ShellTypeOK ==
  /\ queue \in Seq(Char) /\ Len(queue) <= FifoDepth
  /\ rxovr \in BOOLEAN
  /\ c \in {{}} \cup {{x} : x \in Char}
  /\ tc \in Tokenizer
  /\ Len(tc.word) < WordSize
  /\ state \in MainState
  /\ argv \in Seq(Word) /\ Len(argv) <= MaxArgs
  /\ line \in Seq(Char)
  /\ torn \in BOOLEAN
  /\ carried \in [argv : Seq(Word), tc : Tokenizer]

ShellInit ==
  /\ queue = <<>> /\ rxovr = FALSE
  /\ c = {}
  /\ tc = [state |-> "S_UNINITIALIZED", word |-> <<>>]
  /\ state = "S_IDLE"
  /\ argv = <<>>
  /\ line = <<>> /\ torn = FALSE
  /\ carried = Nothing

-----------------------------------------------------------------------------
(* The terminal, and the receive FIFO, which an overrun empties.  As a     *)
(* bound, only plain words are typed after a failed read.                  *)

Typed(x) ==
  /\ ~rxovr
  /\ torn => x \in {"a", "sp", "cr"}
  /\ \/ x = "cr"
     \/ x = "esc" /\ state = "S_INTERACTIVE"
     \/ Len(line) + Len(queue) < IF torn THEN TornLine ELSE MaxLine
  /\ IF Len(queue) < FifoDepth
       THEN queue' = Append(queue, x) /\ UNCHANGED rxovr
       ELSE queue' = <<>> /\ rxovr' = TRUE
  /\ UNCHANGED <<c, tc, state, argv, line, torn, carried>>

(* Nothing in the firmware resets the UART after its start; the debugger   *)
(* can.                                                                    *)
uart_reset ==
  /\ queue' = <<>> /\ rxovr' = FALSE
  /\ UNCHANGED <<c, tc, state, argv, line, torn, carried>>

-----------------------------------------------------------------------------
Polls == state \in {"S_INPUT", "S_CMD", "S_INTERACTIVE"}

(* uart_read for one byte: it is taken before the error is looked at.      *)
Take ==
  /\ Polls /\ tc.state # "S_UNINITIALIZED"
  /\ c = {} /\ queue # <<>>
  /\ c' = {Head(queue)}
  /\ queue' = Tail(queue)
  /\ UNCHANGED <<rxovr, tc, state, argv, line, torn, carried>>

Full_Early == Len(tc.word) = WordSize - 2     \* no room for the character and a zero

Full == Len(tc.word) = WordSize - 1

Token_NoEof(x) ==     \* ESC in a word goes on with the word
  IF Full THEN "T_EOL"
  ELSE IF tc.state = "S_NEUTRAL" /\ x = "esc" THEN "T_ESC"
  ELSE IF tc.state = "S_NEUTRAL" /\ x = "cr" THEN "T_NL"
  ELSE IF tc.state = "S_INQUOTE" /\ x = "quote" THEN "T_WORD"
  ELSE IF tc.state = "S_INWORD" /\ x = "sp" THEN "T_WORD"
  ELSE IF tc.state = "S_INWORD" /\ x = "cr" THEN "T_WORD_LAST"
  ELSE "T_CHAR"

(* What parse() returns for character x.                                   *)
Token(x) ==
  IF Full THEN "T_EOL"
  ELSE IF tc.state = "S_NEUTRAL" /\ x = "esc" THEN "T_ESC"
  ELSE IF tc.state = "S_NEUTRAL" /\ x = "cr" THEN "T_NL"
  ELSE IF tc.state = "S_INQUOTE" /\ x = "quote" THEN "T_WORD"
  ELSE IF tc.state = "S_INWORD" /\ x = "sp" THEN "T_WORD"
  ELSE IF tc.state = "S_INWORD" /\ x = "cr" THEN "T_WORD_LAST"
  ELSE IF x = "esc" THEN "T_EOF"
  ELSE "T_CHAR"

(* What it leaves: gettoken restarts the tokenizer at every token that is  *)
(* not a character.                                                        *)
parse(x) ==
  IF Token(x) # "T_CHAR" THEN tokenizer_begin
  ELSE IF tc.state = "S_NEUTRAL" /\ x = "quote" THEN [tc EXCEPT !.state = "S_INQUOTE"]
  ELSE [state |-> IF tc.state = "S_NEUTRAL" THEN "S_INWORD" ELSE tc.state,
        word  |-> Append(tc.word, x)]

(* The first call only sets up the tokenizer.                              *)
gettoken_First ==
  /\ state = "S_INPUT" /\ tc.state = "S_UNINITIALIZED"
  /\ tc' = tokenizer_begin
  /\ UNCHANGED <<uartvars, c, state, argv, line, torn, carried>>

(* gettoken with a character.                                              *)
gettoken(x) ==
  /\ Polls /\ c = {x} /\ ~rxovr
  /\ c' = {}
  /\ tc' = parse(x)
  /\ line' = IF state = "S_INTERACTIVE" THEN <<>> ELSE Append(line, x)
  /\ UNCHANGED uartvars

ReadError_Interactive ==     \* a failed read does not end interactive mode
  /\ Polls /\ tc.state # "S_UNINITIALIZED"
  /\ rxovr
  /\ c' = {}
  /\ state' = IF state = "S_INTERACTIVE" THEN state ELSE "S_ERROR"
  /\ torn' = TRUE /\ line' = <<>> /\ carried' = [argv |-> argv, tc |-> tc]
  /\ UNCHANGED <<uartvars, tc, argv>>

ReadError_Begins ==     \* a failed read drops the word begun, but no words before it
  /\ Polls /\ tc.state # "S_UNINITIALIZED"
  /\ rxovr
  /\ c' = {} /\ tc' = tokenizer_begin
  /\ state' = "S_ERROR"
  /\ torn' = TRUE /\ line' = <<>> /\ carried' = [argv |-> argv, tc |-> tc]
  /\ UNCHANGED <<uartvars, argv>>

(* gettoken after an overrun: ERR_READ, the byte is dropped and neither    *)
(* the tokenizer nor the words so far are reset.                           *)
ReadError ==
  /\ Polls /\ tc.state # "S_UNINITIALIZED"
  /\ rxovr
  /\ c' = {}
  /\ state' = "S_ERROR"
  /\ torn' = TRUE /\ line' = <<>> /\ carried' = [argv |-> argv, tc |-> tc]
  /\ UNCHANGED <<uartvars, tc, argv>>

-----------------------------------------------------------------------------
(* The cases of main().  A word that ends at the prompt itself is an error,*)
(* and dropped.                                                            *)

Idle ==
  /\ state = "S_IDLE"
  /\ state' = "S_INPUT"
  /\ line' = <<>>
  /\ UNCHANGED <<uartvars, c, tc, argv, torn, carried>>

Input(x) ==
  /\ state = "S_INPUT"
  /\ gettoken(x)
  /\ state' = IF Token(x) = "T_NL" THEN "S_IDLE"
              ELSE IF Token(x) = "T_CHAR" THEN "S_CMD" ELSE "S_ERROR"
  /\ carried' = IF Token(x) = "T_CHAR" THEN carried ELSE [carried EXCEPT !.tc = tokenizer_begin]
  /\ UNCHANGED <<argv, torn>>

exec_cmd_KeepsArgs(args) ==     \* argc is not reset after a command
  /\ argv' = args
  /\ torn' = FALSE /\ carried' = Nothing
  /\ state' \in {"S_ERROR", "S_IDLE", "S_INTERACTIVE"}

(* default_exec_cmd: an error, done, or the state the board asks for.  With*)
(* no words, argv[0] still points to the first word of an earlier command. *)
exec_cmd(args) ==
  /\ argv' = <<>>
  /\ torn' = FALSE /\ carried' = Nothing
  /\ state' \in {"S_ERROR", "S_IDLE", "S_INTERACTIVE"}

(* The words a command is executed with if x ends it.                      *)
Args(x) == IF Token(x) = "T_NL" THEN argv ELSE Append(argv, tc.word)

Command(x) ==
  /\ state = "S_CMD"
  /\ Token(x) \in {"T_WORD", "T_WORD_LAST"} => Len(argv) < MaxArgs
  /\ gettoken(x)
  /\ \/ /\ Token(x) \in {"T_NL", "T_WORD_LAST"}
        /\ exec_cmd(Args(x))
     \/ /\ Token(x) = "T_WORD"
        /\ argv' = Args(x)
        /\ UNCHANGED <<state, torn, carried>>
     \/ /\ Token(x) \in {"T_CHAR", "T_EOL", "T_EOF", "T_ESC"}
        /\ UNCHANGED <<argv, state, torn, carried>>

Interactive(x) ==
  /\ state = "S_INTERACTIVE"
  /\ gettoken(x)
  /\ state' = IF Token(x) = "T_ESC" THEN "S_IDLE" ELSE state
  /\ UNCHANGED <<argv, torn, carried>>

Error_ReadOnly ==     \* only a failed read is reported, other errors stay
  /\ state = "S_ERROR" /\ torn
  /\ state' = "S_IDLE"
  /\ UNCHANGED <<uartvars, c, tc, argv, line, torn, carried>>

Error ==
  /\ state = "S_ERROR"
  /\ state' = "S_IDLE"
  /\ UNCHANGED <<uartvars, c, tc, argv, line, torn, carried>>

-----------------------------------------------------------------------------
Main ==
  \/ Take \/ gettoken_First \/ ReadError \/ Idle \/ Error
  \/ \E x \in Char : Input(x) \/ Command(x) \/ Interactive(x)

ShellNext == Main \/ uart_reset \/ \E x \in Char : Typed(x)

ShellSafe == ShellInit /\ [][ShellNext]_shellvars

(* main() never waits: it polls.                                           *)
ShellSpec == ShellSafe /\ WF_shellvars(Main)

-----------------------------------------------------------------------------
(* Character x ends a command, which main() then executes.                 *)
Executes(x) ==
  state = "S_CMD" /\ c = {x} /\ ~rxovr /\ Token(x) \in {"T_NL", "T_WORD_LAST"}

(* A command without words of its own, which main() executes with the name *)
(* of an earlier one, takes an ESC within the line or a line longer than a *)
(* word: everything else typed is executed as a command of its own words.  *)
NoStaleCommand ==
  \A x \in Char : Executes(x) /\ ~torn /\ Args(x) = <<>> =>
    \/ \E i \in 1 .. Len(line) : line[i] = "esc"
    \/ Len(line) >= WordSize

(* Whatever was typed before, ESC leaves the tokenizer at the start of a   *)
(* word: a second ESC is a token of its own and ends interactive mode.     *)
EscFresh ==
  [][state = "S_INTERACTIVE" /\ c = {"esc"} /\ ~rxovr /\ c' = {}
       => tc' = tokenizer_begin]_shellvars

(* main() never stops reading: a full FIFO is emptied, be it by its        *)
(* overrun, as long as argv has room.                                      *)
LoopLives ==
  Len(queue) = FifoDepth ~> (Len(queue) < FifoDepth \/ Len(argv) = MaxArgs)

(* An overrun is reported, in whatever state it meets the shell, and again *)
(* and again until the debugger resets the UART.                           *)
OverrunTold == []<>(~rxovr \/ state = "S_ERROR")
=============================================================================
