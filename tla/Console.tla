------------------------------- MODULE Console ------------------------------
(***************************************************************************)
(* The console input of the firmware in its two builds (#ifdef             *)
(* USE_UART_INTERRUPT in sw/uart.c and sw/driver.h): the shell polling the *)
(* receive FIFO, or the receive ring filled by the interrupt handler.      *)
(***************************************************************************)
EXTENDS Shell, RxRing, SequencesExt

VARIABLE build

consolevars == <<shellvars, ringvars, build>>

Init ==
  /\ build \in {"polled", "interrupt"}
  /\ ShellInit /\ RingInit

Next ==
  /\ UNCHANGED build
  /\ \/ build = "polled" /\ ShellNext /\ UNCHANGED ringvars
     \/ build = "interrupt" /\ RingNext /\ UNCHANGED shellvars

Spec ==
  /\ Init /\ [][Next]_consolevars
  /\ WF_consolevars(build = "polled" /\ Main /\ UNCHANGED <<ringvars, build>>)
  /\ \A A \in {"latch", "handler", "program"} :
       WF_consolevars(/\ build = "interrupt" /\ UNCHANGED <<shellvars, build>>
                      /\ \/ A = "latch" /\ Latch
                         \/ A = "handler" /\ Handler
                         \/ A = "program" /\ Program)

-----------------------------------------------------------------------------
(* The commands a user can type: words without blanks, the last of them    *)
(* possibly in quotes and then with blanks, none as long as the buffer.    *)
Fits == 0 .. WordSize - 2
Plain == UNION {[1 .. n -> {"a"}] : n \in Fits \ {0}}
InQuotes == UNION {[1 .. n -> {"a", "sp"}] : n \in Fits}

Command_Typed == [words : UNION {[1 .. n -> Plain] : n \in 0 .. MaxArgs},
                  quoted : {{}} \cup {{w} : w \in InQuotes}]

Words(cmd) == cmd.words \o SetToSeq(cmd.quoted)

(* The characters of a command, and the blank between two words.           *)
Keys(cmd) ==
  LET quotes == [i \in 1 .. Len(SetToSeq(cmd.quoted)) |->
                   <<"quote">> \o SetToSeq(cmd.quoted)[i] \o <<"quote">>]
      parts == cmd.words \o quotes
  IN  FlattenSeq([i \in 1 .. Len(parts) |->
                    IF i = 1 THEN parts[i] ELSE <<"sp">> \o parts[i]])

Typable == {cmd \in Command_Typed : Len(Words(cmd)) \in 1 .. MaxArgs
                                    /\ Len(Keys(cmd)) <= MaxLine}

(* Every such line, typed after whatever lines before it, is executed as   *)
(* the words it shows, unless a read has failed since the last command.    *)
ExecutesTyped ==
  \A x \in Char : Executes(x) /\ ~torn =>
    \A cmd \in Typable : line = Keys(cmd) => Args(x) = Words(cmd)

(* After a failed read main() goes on with the words it had and with a word*)
(* begun: the next command typed is executed with them in front, complete  *)
(* and in their order, with the word begun joined to its first one, and    *)
(* with nothing else.                                                      *)
CarriesOn ==
  \A x \in Char : Executes(x) /\ torn =>
    \A cmd \in Typable :
      /\ line = Keys(cmd)
      /\ carried.tc.state # "S_INQUOTE"
      /\ carried.tc.word # <<>> =>
           cmd.words # <<>> /\ Len(carried.tc.word \o cmd.words[1]) \in Fits
      => Args(x) = carried.argv \o
           (IF carried.tc.word = <<>> THEN Words(cmd)
            ELSE [Words(cmd) EXCEPT ![1] = carried.tc.word \o @])

(* In either build what arrives is read or its loss reported: a full FIFO  *)
(* is emptied, an overrun told, a byte in the receiver fetched, with the   *)
(* exceptions named in those parts.                                        *)
InputGoesOn == LoopLives /\ OverrunTold /\ ByteFetched
=============================================================================
