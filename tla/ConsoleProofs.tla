---------------------------- MODULE ConsoleProofs ---------------------------
(***************************************************************************)
(* The console input, for every size of its buffers.  The shell keeps its  *)
(* types, executes every line that can be typed as the words it shows and  *)
(* no command it was not given words for, and starts afresh after ESC; the *)
(* receive ring keeps its types and implements the lossy queue; and either *)
(* build of the firmware does one or the other.                            *)
(***************************************************************************)
EXTENDS Console, SequenceTheorems, FiniteSetTheorems, WellFoundedInduction, TLAPS

-----------------------------------------------------------------------------
(* The shell.                                                              *)

(* Nothing fits everywhere: the empty buffers of a start or a reset.       *)
LEMMA EmptyTyped ==
  /\ <<>> \in Seq(Char) /\ <<>> \in Seq(Word) /\ <<>> \in Word /\ Len(<<>>) = 0
  /\ Len(<<>>) <= FifoDepth /\ Len(<<>>) < WordSize /\ Len(<<>>) <= MaxArgs
BY ShellAssumption DEF Word

LEMMA NothingTyped == Nothing \in [argv : Seq(Word), tc : Tokenizer]
BY EmptyTyped DEF Nothing, tokenizer_begin, Tokenizer

(* parse() keeps the word within its buffer.                               *)
LEMMA ParseTyped ==
  ASSUME ShellTypeOK, NEW x \in Char
  PROVE  /\ parse(x) \in Tokenizer
         /\ Len(parse(x).word) < WordSize
<1> USE ShellAssumption DEF ShellTypeOK, Tokenizer, Word
<1>1. tokenizer_begin.word = <<>> /\ Len(<<>>) < WordSize /\ <<>> \in Seq(Char)
  BY DEF tokenizer_begin
<1>2. CASE Token(x) # "T_CHAR"
  BY <1>1, <1>2 DEF parse, tokenizer_begin
<1>3. CASE Token(x) = "T_CHAR"
  <2>1. Len(tc.word) < WordSize - 1
    BY <1>3 DEF Token, Full
  <2>2. Append(tc.word, x) \in Seq(Char) /\ Len(Append(tc.word, x)) < WordSize
    BY <2>1
  <2>. QED BY <1>3, <2>1, <2>2 DEF parse
<1>. QED BY <1>2, <1>3

(* No word outgrows its buffer and argv does not outgrow its bound.        *)
THEOREM ShellTypeCorrect == ShellSafe => []ShellTypeOK
<1> USE ShellAssumption
<1>1. ShellInit => ShellTypeOK
  <2> SUFFICES ASSUME ShellInit PROVE ShellTypeOK
    OBVIOUS
  <2>1. queue \in Seq(Char) /\ Len(queue) <= FifoDepth
    BY EmptyTyped, Zenon DEF ShellInit
  <2>2. argv \in Seq(Word) /\ Len(argv) <= MaxArgs /\ line \in Seq(Char)
    BY EmptyTyped, Zenon DEF ShellInit
  <2>3. tc \in Tokenizer /\ Len(tc.word) < WordSize
    BY EmptyTyped DEF ShellInit, Tokenizer
  <2>4. carried \in [argv : Seq(Word), tc : Tokenizer]
    BY NothingTyped DEF ShellInit
  <2>. QED BY <2>1, <2>2, <2>3, <2>4 DEF ShellInit, ShellTypeOK, MainState
<1>2. ShellTypeOK /\ [ShellNext]_shellvars => ShellTypeOK'
  <2> SUFFICES ASSUME ShellTypeOK, [ShellNext]_shellvars PROVE ShellTypeOK'
    OBVIOUS
  <2>1. CASE Take
    <3>1. queue \in Seq(Char) /\ queue # <<>> /\ queue' = Tail(queue) /\ c' = {Head(queue)}
      BY <2>1 DEF Take, ShellTypeOK
    <3>2. queue' \in Seq(Char) /\ Len(queue') <= FifoDepth /\ Head(queue) \in Char
      BY <3>1 DEF ShellTypeOK
    <3>3. c' \in {{}} \cup {{x} : x \in Char}
      BY <3>1, <3>2
    <3>. QED BY <2>1, <3>2, <3>3 DEF Take, ShellTypeOK
  <2>2. CASE gettoken_First
    BY <2>2 DEF gettoken_First, ShellTypeOK, uartvars, tokenizer_begin, Tokenizer, Word
  <2>3. CASE ReadError
    <3>1. carried' \in [argv : Seq(Word), tc : Tokenizer]
      <4>1. argv \in Seq(Word) /\ tc \in Tokenizer
        BY DEF ShellTypeOK
      <4>. QED BY <2>3, <4>1 DEF ReadError
    <3>. QED BY <2>3, <3>1, EmptyTyped DEF ReadError, ShellTypeOK, uartvars, MainState
  <2>4. CASE Idle \/ Error
    BY <2>4, EmptyTyped DEF Idle, Error, ShellTypeOK, uartvars, MainState
  <2>5. ASSUME NEW x \in Char, gettoken(x)
        PROVE  /\ queue' \in Seq(Char) /\ Len(queue') <= FifoDepth /\ rxovr' \in BOOLEAN
               /\ c' = {} /\ tc' = parse(x) /\ line' \in Seq(Char)
    BY <2>5 DEF gettoken, uartvars, ShellTypeOK
  <2>6. ASSUME NEW x \in Char, gettoken(x), argv' \in Seq(Word), Len(argv') <= MaxArgs,
               state' \in MainState, torn' \in BOOLEAN,
               carried' \in [argv : Seq(Word), tc : Tokenizer]
        PROVE  ShellTypeOK'
    BY <2>5, <2>6, ParseTyped DEF ShellTypeOK
  <2>7. ASSUME NEW x \in Char, Input(x) PROVE ShellTypeOK'
    <3>1. carried' \in [argv : Seq(Word), tc : Tokenizer]
      <4>1. carried \in [argv : Seq(Word), tc : Tokenizer] /\ tokenizer_begin \in Tokenizer
        BY NothingTyped DEF ShellTypeOK, Nothing
      <4>. QED BY <2>7, <4>1 DEF Input
    <3>. QED BY <2>6, <2>7, <3>1 DEF Input, ShellTypeOK, MainState
  <2>8. ASSUME NEW x \in Char, Command(x) PROVE ShellTypeOK'
    <3>1. gettoken(x) /\ tc.word \in Word /\ argv \in Seq(Word) /\ Len(argv) <= MaxArgs
      BY <2>8 DEF Command, ShellTypeOK, Tokenizer
    <3>2. CASE exec_cmd(Args(x))
      <4>1. argv' \in Seq(Word) /\ Len(argv') <= MaxArgs
        BY <3>2, EmptyTyped, Zenon DEF exec_cmd
      <4>. QED BY <3>1, <3>2, <4>1, <2>6, NothingTyped DEF exec_cmd, MainState
    <3>3. CASE Token(x) = "T_WORD" /\ argv' = Args(x) /\ UNCHANGED <<state, torn, carried>>
      <4>1. argv' = Append(argv, tc.word) /\ Len(argv) < MaxArgs
        BY <2>8, <3>3 DEF Command, Args
      <4>2. argv' \in Seq(Word) /\ Len(argv') <= MaxArgs
        BY <3>1, <4>1
      <4>. QED BY <3>1, <3>3, <4>2, <2>6 DEF ShellTypeOK
    <3>4. CASE UNCHANGED <<argv, state, torn, carried>>
      BY <3>1, <3>4, <2>6 DEF ShellTypeOK
    <3>. QED BY <2>8, <3>2, <3>3, <3>4 DEF Command
  <2>9. ASSUME NEW x \in Char, Interactive(x) PROVE ShellTypeOK'
    BY <2>6, <2>9 DEF Interactive, ShellTypeOK, MainState
  <2>10. CASE uart_reset
    <3>1. queue' \in Seq(Char) /\ Len(queue') <= FifoDepth
      BY <2>10, EmptyTyped, Zenon DEF uart_reset
    <3>. QED BY <2>10, <3>1 DEF uart_reset, ShellTypeOK
  <2>11. ASSUME NEW x \in Char, Typed(x) PROVE ShellTypeOK'
    <3>1. queue' \in Seq(Char) /\ Len(queue') <= FifoDepth /\ rxovr' \in BOOLEAN
      <4>1. CASE Len(queue) < FifoDepth
        <5>1. queue \in Seq(Char) /\ queue' = Append(queue, x) /\ rxovr' = rxovr
          BY <2>11, <4>1 DEF Typed, ShellTypeOK
        <5>. QED BY <4>1, <5>1 DEF ShellTypeOK
      <4>2. CASE queue' = <<>> /\ rxovr' = TRUE
        BY <4>2, EmptyTyped, Zenon
      <4>. QED BY <2>11, <4>1, <4>2 DEF Typed
    <3>. QED BY <2>11, <3>1 DEF Typed, ShellTypeOK
  <2>12. CASE UNCHANGED shellvars
    BY <2>12 DEF shellvars, uartvars, ShellTypeOK
  <2>. QED
    BY <2>1, <2>2, <2>3, <2>4, <2>7, <2>8, <2>9, <2>10, <2>11, <2>12 DEF ShellNext, Main
<1>. QED BY <1>1, <1>2, PTL DEF ShellSafe

-----------------------------------------------------------------------------
(* A line without ESC, and a tokenizer at the start of a word.             *)
NoEsc == ~ \E i \in 1 .. Len(line) : line[i] = "esc"

Fresh == tc.word = <<>> /\ tc.state \in {"S_UNINITIALIZED", "S_NEUTRAL"}

(* The tokenizer is set up before a character is taken.                    *)
Begun == c # {} => tc.state # "S_UNINITIALIZED"

(* Between commands the tokenizer is at the start of a word, and during one*)
(* the line explains what it holds, unless a read has failed.              *)
Explained ==
  ~torn =>
    /\ state \in {"S_IDLE", "S_ERROR"} => Fresh
    /\ state = "S_INPUT" => Fresh /\ line = <<>>
    /\ state = "S_CMD" => /\ Len(tc.word) <= Len(line)
                          /\ \/ argv # <<>> \/ tc.state \in {"S_INWORD", "S_INQUOTE"}
                             \/ ~NoEsc \/ Len(line) >= WordSize

(* A token leaves the tokenizer as at the start of a word.                 *)
LEMMA FreshAfterToken ==
  ASSUME NEW x \in Char, Token(x) # "T_CHAR", tc' = parse(x)
  PROVE  Fresh'
BY DEF parse, tokenizer_begin, Fresh

(* No byte is in hand before the tokenizer is set up.                      *)
LEMMA BegunCorrect == ShellSafe => []Begun
<1>1. ShellInit => Begun
  BY DEF ShellInit, Begun
<1>2. Begun /\ [ShellNext]_shellvars => Begun'
  BY DEF ShellNext, Main, Take, gettoken_First, ReadError, Idle, Error, Input, Command,
         Interactive, gettoken, uart_reset, Typed, shellvars, Begun
<1>. QED BY <1>1, <1>2, PTL DEF ShellSafe

(* The line explains what the tokenizer holds, unless a read has failed.   *)
LEMMA ExplainedCorrect == ShellSafe => []Explained
<1> USE ShellAssumption
<1>1. ShellInit => Explained
  BY DEF ShellInit, Explained, Fresh
<1>2. ShellTypeOK /\ Begun /\ Explained /\ [ShellNext]_shellvars => Explained'
  <2> SUFFICES ASSUME ShellTypeOK, Begun, Explained, [ShellNext]_shellvars PROVE Explained'
    OBVIOUS
  <2>1. CASE UNCHANGED <<tc, state, argv, line, torn>>
    BY <2>1 DEF Explained, Fresh, NoEsc
  <2>2. CASE gettoken_First
    BY <2>2 DEF gettoken_First, uartvars, tokenizer_begin, Explained, Fresh
  <2>3. CASE ReadError
    BY <2>3 DEF ReadError, Explained
  <2>4. CASE Idle
    BY <2>4 DEF Idle, uartvars, Explained, Fresh
  <2>5. CASE Error
    BY <2>5 DEF Error, uartvars, Explained, Fresh
  <2>6. ASSUME NEW x \in Char, Input(x) PROVE Explained'
    <3>1. tc' = parse(x) /\ torn' = torn /\ argv' = argv
      BY <2>6 DEF Input, gettoken
    <3>2. CASE Token(x) # "T_CHAR"
      <4>1. Fresh' /\ state' \in {"S_IDLE", "S_ERROR"}
        BY <2>6, <3>1, <3>2, FreshAfterToken DEF Input
      <4>. QED BY <4>1 DEF Explained
    <3>3. CASE Token(x) = "T_CHAR" /\ ~torn
      <4>1. state' = "S_CMD" /\ line' = Append(line, x) /\ line = <<>> /\ Fresh
        BY <2>6, <3>3 DEF Input, gettoken, Explained
      <4>2. Len(line') = 1
        BY <4>1
      <4>3. tc'.state \in {"S_INWORD", "S_INQUOTE"} /\ Len(tc'.word) <= 1
        <5>1. CASE tc.state = "S_NEUTRAL" /\ x = "quote"
          BY <3>1, <3>3, <4>1, <5>1, EmptyTyped DEF parse, Fresh, ShellTypeOK
        <5>2. CASE tc.state = "S_NEUTRAL" /\ x # "quote"
          BY <3>1, <3>3, <4>1, <5>2 DEF parse, Fresh, ShellTypeOK
        <5>. QED BY <2>6, <4>1, <5>1, <5>2 DEF Fresh, Begun, Input, gettoken
      <4>. QED BY <4>1, <4>2, <4>3 DEF Explained
    <3>. QED BY <3>1, <3>2, <3>3 DEF Explained
  <2>7. ASSUME NEW x \in Char, Command(x) PROVE Explained'
    <3>1. tc' = parse(x) /\ state = "S_CMD" /\ (~torn => line' = Append(line, x))
      BY <2>7 DEF Command, gettoken
    <3>2. CASE Token(x) \in {"T_NL", "T_WORD_LAST"}
      <4>1. Fresh' /\ state' \in {"S_ERROR", "S_IDLE", "S_INTERACTIVE"}
        BY <2>7, <3>1, <3>2, FreshAfterToken DEF Command, exec_cmd
      <4>. QED BY <4>1 DEF Explained
    <3>3. CASE Token(x) \notin {"T_NL", "T_WORD_LAST"} /\ ~torn
      <4>1. /\ Len(tc.word) <= Len(line) /\ line' = Append(line, x) /\ Len(line') = Len(line) + 1
            /\ state' = "S_CMD" /\ line \in Seq(Char)
        BY <2>7, <3>1, <3>3 DEF Command, Explained, ShellTypeOK
      <4>2. /\ \A i \in 1 .. Len(line) : line'[i] = line[i]
            /\ line'[Len(line')] = x
        BY <4>1
      <4>3. NoEsc' => NoEsc /\ x # "esc"
        BY <4>1, <4>2 DEF NoEsc
      <4>4. CASE Token(x) = "T_CHAR"
        <5>1. /\ Len(tc'.word) <= Len(line')
              /\ tc.state \in {"S_INWORD", "S_INQUOTE"} => tc'.state \in {"S_INWORD", "S_INQUOTE"}
          BY <3>1, <4>1, <4>4 DEF parse, ShellTypeOK, Word
        <5>2. argv' = argv
          BY <2>7, <4>4 DEF Command
        <5>. QED BY <3>1, <3>3, <4>1, <4>3, <5>1, <5>2 DEF Explained
      <4>5. CASE Token(x) = "T_WORD"
        <5>1. tc'.word = <<>> /\ argv' # <<>>
          BY <2>7, <3>1, <4>5, FreshAfterToken DEF Command, Args, Fresh, ShellTypeOK
        <5>. QED BY <4>1, <5>1, EmptyTyped DEF Explained
      <4>6. CASE Token(x) = "T_EOL"
        <5>1. tc'.word = <<>> /\ Len(line') >= WordSize
          BY <3>1, <4>1, <4>6, FreshAfterToken DEF Token, Full, Fresh, ShellTypeOK
        <5>. QED BY <4>1, <5>1, EmptyTyped DEF Explained
      <4>7. CASE Token(x) \in {"T_EOF", "T_ESC"}
        <5>1. tc'.word = <<>> /\ x = "esc"
          BY <3>1, <4>7, FreshAfterToken DEF Token, Fresh
        <5>. QED BY <4>1, <4>3, <5>1, EmptyTyped DEF Explained
      <4>. QED BY <3>3, <4>4, <4>5, <4>6, <4>7 DEF Token
    <3>4. CASE Token(x) \notin {"T_NL", "T_WORD_LAST"} /\ torn
      <4>1. torn'
        BY <2>7, <3>4 DEF Command
      <4>. QED BY <4>1 DEF Explained
    <3>. QED BY <3>2, <3>3, <3>4
  <2>8. ASSUME NEW x \in Char, Interactive(x) PROVE Explained'
    <3>1. state' = "S_INTERACTIVE" \/ (state' = "S_IDLE" /\ Fresh')
      BY <2>8, FreshAfterToken DEF Interactive, gettoken
    <3>. QED BY <3>1 DEF Explained
  <2>9. CASE Take \/ uart_reset \/ (\E x \in Char : Typed(x)) \/ UNCHANGED shellvars
    BY <2>1, <2>9 DEF Take, uart_reset, Typed, shellvars
  <2>. QED BY <2>2, <2>3, <2>4, <2>5, <2>6, <2>7, <2>8, <2>9 DEF ShellNext, Main
<1>. QED BY <1>1, <1>2, ShellTypeCorrect, BegunCorrect, PTL DEF ShellSafe

(* A command line that holds no ESC and is shorter than a word buffer is   *)
(* executed as a command with a word of its own.                           *)
THEOREM NoStaleCommandCorrect == ShellSafe => []NoStaleCommand
<1>1. ShellTypeOK /\ Explained => NoStaleCommand
  <2> SUFFICES ASSUME ShellTypeOK, Explained, NEW x \in Char,
                      Executes(x), ~torn, Args(x) = <<>>
               PROVE  \/ \E i \in 1 .. Len(line) : line[i] = "esc"
                      \/ Len(line) >= WordSize
    BY DEF NoStaleCommand
  <2>1. argv \in Seq(Word) /\ tc.word \in Word
    BY DEF Tokenizer, ShellTypeOK
  <2>2. Append(argv, tc.word) # <<>>
    BY <2>1
  <2>3. Token(x) = "T_NL" /\ argv = <<>> /\ state = "S_CMD"
    BY <2>2 DEF Executes, Args
  <2>4. tc.state = "S_NEUTRAL"
    BY <2>3 DEF Token
  <2>. QED BY <2>3, <2>4 DEF Explained, NoEsc
<1>. QED BY <1>1, ShellTypeCorrect, ExplainedCorrect, PTL

(* Wherever in a word ESC comes, the tokenizer then begins a new one.      *)
THEOREM EscFreshCorrect == ShellSafe => EscFresh
<1>1. [ShellNext]_shellvars
        => [state = "S_INTERACTIVE" /\ c = {"esc"} /\ ~rxovr /\ c' = {}
              => tc' = tokenizer_begin]_shellvars
  <2> SUFFICES ASSUME ShellNext, state = "S_INTERACTIVE", c = {"esc"}, ~rxovr, c' = {}
               PROVE  tc' = tokenizer_begin
    BY DEF shellvars
  <2>1. PICK x \in Char : Interactive(x)
    BY DEF ShellNext, Main, Take, gettoken_First, ReadError, Idle, Error, Input, Command,
           uart_reset, Typed
  <2>2. x = "esc" /\ tc' = parse(x)
    BY <2>1 DEF Interactive, gettoken
  <2>3. Token("esc") # "T_CHAR"
    BY DEF Token
  <2>. QED BY <2>2, <2>3 DEF parse
<1>. QED BY <1>1, PTL DEF ShellSafe, EscFresh

-----------------------------------------------------------------------------
(* What is typed is executed.                                              *)

(* What holds of a number if it does of the one before holds of all.       *)
LEMMA Upwards ==
  ASSUME NEW T \in SUBSET Nat, 0 \in T, \A n \in T : n + 1 \in T
  PROVE  T = Nat
<1>1. SUFFICES ASSUME Nat \ T # {} PROVE FALSE
  OBVIOUS
<1>2. PICK x \in Nat \ T : \A y \in Nat \ T : x <= y
  <2> DEFINE R == {p \in Nat \X Nat : p[1] < p[2]}
  <2>1. IsWellFoundedOn(R, Nat)
    <3>1. R = OpToRel(<, Nat)
      BY DEF OpToRel
    <3>. QED BY <3>1, NatLessThanWellFounded
  <2>2. PICK x \in Nat \ T : \A y \in Nat \ T : <<y, x>> \notin R
    <3> HIDE DEF R
    <3>. QED BY <1>1, <2>1, WFMin
  <2>3. ASSUME NEW y \in Nat \ T PROVE ~(y < x)
    <3>1. <<y, x>> \in Nat \X Nat /\ <<y, x>>[1] = y /\ <<y, x>>[2] = x
      OBVIOUS
    <3>2. <<y, x>> \notin R
      BY <2>2
    <3>. QED BY <3>1, <3>2
  <2>. QED BY <2>3
<1>3. x # 0 /\ x - 1 \in Nat /\ x - 1 \in T
  BY <1>2
<1>. QED BY <1>2, <1>3

(* g[k] joins the first k of the sequences s.                              *)
Joins(g, s, n) == g = [i \in 1 .. n |-> IF i = 1 THEN s[i] ELSE g[i - 1] \o s[i]]

(* There is one that joins them all.                                       *)
LEMMA JoinsExist ==
  ASSUME NEW s, NEW n \in Nat
  PROVE  \E g : Joins(g, s, n)
<1> DEFINE T == {m \in Nat : \E g : Joins(g, s, m)}
<1>1. 0 \in T
  <2>1. Joins([i \in 1 .. 0 |-> s], s, 0)
    BY DEF Joins
  <2>. QED BY <2>1
<1>2. ASSUME NEW m \in T PROVE m + 1 \in T
  <2>1. PICK g : Joins(g, s, m)
    OBVIOUS
  <2> DEFINE h == [i \in 1 .. m + 1 |-> IF i <= m THEN g[i]
                                          ELSE IF i = 1 THEN s[1] ELSE g[m] \o s[i]]
  <2>2. \A i \in 1 .. m : g[i] = IF i = 1 THEN s[i] ELSE g[i - 1] \o s[i]
    BY <2>1 DEF Joins
  <2>3. ASSUME NEW i \in 1 .. m + 1 PROVE h[i] = IF i = 1 THEN s[i] ELSE h[i - 1] \o s[i]
    <3>1. CASE i <= m
      BY <2>2, <3>1
    <3>2. CASE i = m + 1 /\ i # 1
      <4>1. i - 1 = m /\ m \in 1 .. m + 1 /\ m <= m /\ ~(i <= m)
        BY <3>2
      <4>2. h[i - 1] = g[m] /\ h[i] = g[m] \o s[i]
        BY <3>2, <4>1
      <4>. QED BY <3>2, <4>2
    <3>3. CASE i = m + 1 /\ i = 1
      BY <3>3
    <3>. QED BY <3>1, <3>2, <3>3
  <2>4. Joins(h, s, m + 1)
    BY <2>3 DEF Joins
  <2>. QED BY <2>4
<1>3. T = Nat
  <2> HIDE DEF T
  <2>1. T \in SUBSET Nat
    BY DEF T
  <2>. QED BY <1>1, <1>2, <2>1, Upwards
<1>. QED BY <1>3

(* So FlattenSeq joins n sequences s of elements of X.                     *)
Sequences(s, n, X) == Len(s) = n /\ \A i \in 1 .. n : s[i] \in Seq(X)

Joining(f, s, n, X) ==
  /\ f \in [1 .. n -> Seq(X)] /\ f[1] = s[1]
  /\ \A i \in 2 .. n : f[i] = f[i - 1] \o s[i]

(* The last of what is joined is FlattenSeq.                               *)
LEMMA FlattenJoins ==
  ASSUME NEW X, NEW n \in Nat \ {0}, NEW s, Sequences(s, n, X)
  PROVE  \E f : Joining(f, s, n, X) /\ FlattenSeq(s) = f[n]
<1>0. Len(s) = n
  BY DEF Sequences
<1>1. \A i \in 1 .. n : s[i] \in Seq(X)
  BY DEF Sequences
<1>2. PICK f : Joins(f, s, n) /\ FlattenSeq(s) = f[n]
  <2> DEFINE f == CHOOSE f : f = [i \in 1 .. Len(s) |-> IF i = 1 THEN s[i] ELSE f[i - 1] \o s[i]]
  <2>1. FlattenSeq(s) = f[Len(s)]
    BY <1>0 DEF FlattenSeq
  <2>2. \E g : g = [i \in 1 .. Len(s) |-> IF i = 1 THEN s[i] ELSE g[i - 1] \o s[i]]
    BY <1>0, JoinsExist DEF Joins
  <2>3. f = [i \in 1 .. Len(s) |-> IF i = 1 THEN s[i] ELSE f[i - 1] \o s[i]]
    BY <2>2
  <2>. QED BY <1>0, <2>1, <2>3 DEF Joins
<1>3. \A i \in 1 .. n : f[i] = IF i = 1 THEN s[i] ELSE f[i - 1] \o s[i]
  BY <1>2 DEF Joins
<1>4. ASSUME NEW k \in 1 .. n, k = 1 \/ f[k - 1] \in Seq(X) PROVE f[k] \in Seq(X)
  <2>1. CASE k = 1
    BY <1>0, <1>1, <1>3, <2>1
  <2>2. CASE k # 1
    <3>1. f[k] = f[k - 1] \o s[k] /\ s[k] \in Seq(X)
      BY <1>1, <1>3, <2>2
    <3>. QED BY <1>4, <2>2, <3>1, ConcatProperties
  <2>. QED BY <2>1, <2>2
<1>5. \A k \in 1 .. n : f[k] \in Seq(X)
  <2> DEFINE T == {k \in Nat : k \in 1 .. n => f[k] \in Seq(X)}
  <2>1. 0 \in T
    OBVIOUS
  <2>2. ASSUME NEW k \in T PROVE k + 1 \in T
    <3>1. k \in Nat /\ (k \in 1 .. n => f[k] \in Seq(X))
      OBVIOUS
    <3>2. CASE k + 1 \in 1 .. n
      <4>1. PICK m \in 1 .. n : m = k + 1
        BY <3>2
      <4>2. m = 1 \/ f[m - 1] \in Seq(X)
        BY <1>0, <3>1, <4>1
      <4>3. f[m] \in Seq(X)
        BY <1>4, <4>2
      <4>. QED BY <3>1, <4>1, <4>3
    <3>3. CASE k + 1 \notin 1 .. n
      BY <3>1, <3>3
    <3>. QED BY <3>2, <3>3
  <2>3. T \in SUBSET Nat
    OBVIOUS
  <2>4. T = Nat
    <3> HIDE DEF T
    <3>. QED BY <2>1, <2>2, <2>3, Upwards
  <2>. QED BY <1>0, <2>4
<1>6. f \in [1 .. n -> Seq(X)]
  <2>1. f = [i \in 1 .. n |-> f[i]]
    BY <1>2 DEF Joins
  <2>. QED BY <1>5, <2>1
<1>7. f[1] = s[1]
  <2>1. 1 \in 1 .. n
    OBVIOUS
  <2>. QED BY <1>3, <2>1
<1>8. ASSUME NEW i \in 2 .. n PROVE f[i] = f[i - 1] \o s[i]
  <2>1. i \in 1 .. n /\ i # 1
    OBVIOUS
  <2>. QED BY <1>3, <2>1
<1>. QED BY <1>2, <1>6, <1>7, <1>8 DEF Joining

(* A sequence joined to another keeps its places, and shifts its.          *)
LEMMA Joined ==
  ASSUME NEW X, NEW x \in Seq(X), NEW y \in Seq(X)
  PROVE  /\ x \o y \in Seq(X) /\ Len(x) \in Nat /\ Len(y) \in Nat
         /\ Len(x \o y) = Len(x) + Len(y) /\ Len(x) <= Len(x \o y)
         /\ \A j \in 1 .. Len(x) : (x \o y)[j] = x[j]
         /\ \A j \in 1 .. Len(y) : (x \o y)[Len(x) + j] = y[j]
<1>1. /\ Len(x) \in Nat /\ Len(y) \in Nat /\ Len(x \o y) = Len(x) + Len(y)
      /\ x \o y \in Seq(X)
  BY LenProperties, ConcatProperties
<1>2. \A k \in 1 .. Len(x) + Len(y) : (x \o y)[k] = IF k <= Len(x) THEN x[k] ELSE y[k - Len(x)]
  BY ConcatProperties
<1>3. ASSUME NEW j \in 1 .. Len(y) PROVE (x \o y)[Len(x) + j] = y[j]
  <2>1. PICK k \in 1 .. Len(x) + Len(y) : k = Len(x) + j /\ ~(k <= Len(x)) /\ k - Len(x) = j
    BY <1>1
  <2>. QED BY <1>2, <2>1
<1>. QED BY <1>1, <1>2, <1>3

(* Each of the sequences has its place in the whole: after b[i] elements.  *)
Lies(b, K, s, n) ==
  /\ b \in [1 .. n + 1 -> Nat] /\ b[1] = 0 /\ b[n + 1] = Len(K)
  /\ \A i \in 1 .. n : /\ b[i + 1] = b[i] + Len(s[i]) /\ b[i + 1] <= Len(K)
                       /\ \A j \in 1 .. Len(s[i]) : K[b[i] + j] = s[i][j]

(* There is such a b for every sequence of sequences.                      *)
LEMMA FlattenPlaces ==
  ASSUME NEW X, NEW n \in Nat \ {0}, NEW s, Sequences(s, n, X)
  PROVE  FlattenSeq(s) \in Seq(X) /\ \E b : Lies(b, FlattenSeq(s), s, n)
<1>0. \A i \in 1 .. n : s[i] \in Seq(X)
  BY DEF Sequences
<1>1. PICK f : Joining(f, s, n, X) /\ FlattenSeq(s) = f[n]
  BY FlattenJoins
<1>2. /\ f \in [1 .. n -> Seq(X)] /\ FlattenSeq(s) = f[n] /\ f[1] = s[1]
      /\ \A i \in 2 .. n : f[i] = f[i - 1] \o s[i]
  BY <1>1 DEF Joining
<1>3. \A i \in 1 .. n : f[i] \in Seq(X) /\ Len(f[i]) \in Nat /\ Len(s[i]) \in Nat
  <2>1. ASSUME NEW i \in 1 .. n PROVE f[i] \in Seq(X) /\ Len(f[i]) \in Nat /\ Len(s[i]) \in Nat
    <3>1. f[i] \in Seq(X) /\ s[i] \in Seq(X)
      BY <1>0, <1>2
    <3>. QED BY <3>1, LenProperties
  <2>. QED BY <2>1
<1>4. PICK b \in [1 .. n + 1 -> Nat] :
         b = [i \in 1 .. n + 1 |-> IF i = 1 THEN 0 ELSE Len(f[i - 1])]
  <2> DEFINE b == [i \in 1 .. n + 1 |-> IF i = 1 THEN 0 ELSE Len(f[i - 1])]
  <2>1. \A i \in 1 .. n + 1 : b[i] \in Nat
    BY <1>3
  <2>2. b \in [1 .. n + 1 -> Nat]
    BY <2>1
  <2>. QED BY <2>2
<1>5. b[1] = 0 /\ \A i \in 1 .. n : b[i + 1] = Len(f[i])
  BY <1>4
<1>6. ASSUME NEW i \in 1 .. n
      PROVE  /\ Len(f[i]) = b[i] + Len(s[i])
             /\ \A j \in 1 .. Len(s[i]) : f[i][b[i] + j] = s[i][j]
  <2>1. CASE i = 1
    <3>1. f[i] = s[i] /\ b[i] = 0 /\ Len(s[i]) \in Nat
      BY <1>2, <1>3, <1>5, <2>1
    <3>. QED BY <3>1
  <2>2. CASE i # 1
    <3>0. i \in 2 .. n /\ i - 1 \in 1 .. n /\ (i - 1) + 1 = i
      BY <2>2
    <3>1. b[i] = Len(f[i - 1])
      BY <1>5, <3>0
    <3>2. f[i] = f[i - 1] \o s[i] /\ f[i - 1] \in Seq(X) /\ s[i] \in Seq(X)
      BY <1>0, <1>2, <1>3, <3>0
    <3>3. PICK x \in Seq(X), y \in Seq(X) : x = f[i - 1] /\ y = s[i]
      BY <3>2
    <3>4. Len(x \o y) = Len(x) + Len(y) /\ \A j \in 1 .. Len(y) : (x \o y)[Len(x) + j] = y[j]
      BY Joined
    <3>. QED BY <3>1, <3>2, <3>3, <3>4
  <2>. QED BY <2>1, <2>2
<1>7. ASSUME NEW i \in 1 .. n
      PROVE  Len(f[i]) <= Len(f[n]) /\ \A j \in 1 .. Len(f[i]) : f[n][j] = f[i][j]
  <2> DEFINE Prolongs(k) == i + k <= n =>
               Len(f[i]) <= Len(f[i + k]) /\ \A j \in 1 .. Len(f[i]) : f[i + k][j] = f[i][j]
             T == {k \in Nat : Prolongs(k)}
  <2>1. 0 \in T
    BY <1>3
  <2>2. ASSUME NEW k \in T PROVE k + 1 \in T
    <3>0. k \in Nat /\ Prolongs(k)
      OBVIOUS
    <3>a. SUFFICES Prolongs(k + 1)
      <4> HIDE DEF Prolongs
      <4>. QED BY <3>0
    <3>1. SUFFICES ASSUME i + (k + 1) <= n
                   PROVE  /\ Len(f[i]) <= Len(f[i + (k + 1)])
                          /\ \A j \in 1 .. Len(f[i]) : f[i + (k + 1)][j] = f[i][j]
      OBVIOUS
    <3>2. PICK m \in 2 .. n : m = i + (k + 1) /\ m - 1 = i + k
      BY <3>0, <3>1
    <3>3. Len(f[i]) <= Len(f[m - 1]) /\ \A j \in 1 .. Len(f[i]) : f[m - 1][j] = f[i][j]
      <4>1. i + k <= n /\ m - 1 = i + k
        BY <3>1, <3>2
      <4>2. /\ Len(f[i]) <= Len(f[i + k])
            /\ \A j \in 1 .. Len(f[i]) : f[i + k][j] = f[i][j]
        BY <3>0, <4>1
      <4>. QED BY <4>1, <4>2
    <3>4. PICK x \in Seq(X), y \in Seq(X) : x = f[m - 1] /\ f[m] = x \o y
      <4>1. m \in 1 .. n /\ m - 1 \in 1 .. n
        OBVIOUS
      <4>. QED BY <1>0, <1>2, <1>3, <4>1
    <3>5. /\ Len(x) \in Nat /\ Len(x) <= Len(x \o y)
          /\ \A j \in 1 .. Len(x) : (x \o y)[j] = x[j]
      BY Joined
    <3>6. Len(f[i]) \in Nat /\ Len(f[i]) <= Len(x) /\ \A j \in 1 .. Len(f[i]) : x[j] = f[i][j]
      BY <1>3, <3>3, <3>4
    <3>7. Len(f[i]) <= Len(f[m]) /\ \A j \in 1 .. Len(f[i]) : f[m][j] = f[i][j]
      <4>1. ASSUME NEW j \in 1 .. Len(f[i]) PROVE f[m][j] = f[i][j]
        <5>1. j \in 1 .. Len(x)
          BY <3>5, <3>6
        <5>. QED BY <3>4, <3>5, <3>6, <5>1
      <4>2. Len(x) <= Len(f[m]) /\ Len(f[m]) \in Nat
        BY <1>3, <3>4, <3>5
      <4>3. Len(f[i]) <= Len(f[m])
        <5>1. Len(f[i]) \in Nat /\ Len(f[i]) <= Len(x) /\ Len(x) \in Nat
          BY <3>5, <3>6
        <5>. QED BY <4>2, <5>1
      <4>. QED BY <4>1, <4>3
    <3>. QED BY <3>2, <3>7
  <2>3. T = Nat
    <3>1. T \in SUBSET Nat
      OBVIOUS
    <3> HIDE DEF T
    <3>. QED BY <2>1, <2>2, <3>1, Upwards
  <2>4. PICK k \in Nat : k = n - i /\ i + k = n
    OBVIOUS
  <2>5. k \in T
    BY <2>3
  <2>. QED BY <2>4, <2>5
<1>8. ASSUME NEW i \in 1 .. n, NEW j \in 1 .. Len(s[i]) PROVE f[n][b[i] + j] = s[i][j]
  <2>1. b[i] + j \in 1 .. Len(f[i])
    BY <1>3, <1>6
  <2>. QED BY <1>6, <1>7, <2>1
<1>9. \A i \in 1 .. n : b[i + 1] = b[i] + Len(s[i]) /\ b[i + 1] <= Len(f[n])
  BY <1>5, <1>6, <1>7
<1>10. b[n + 1] = Len(f[n]) /\ f[n] \in Seq(X)
  BY <1>3, <1>5
<1>11. Lies(b, f[n], s, n)
  BY <1>5, <1>8, <1>9, <1>10 DEF Lies
<1>. QED BY <1>2, <1>10, <1>11

(* Where the words W of a command are in the n of its parts that the       *)
(* characters K spell: word i after the first a[i] characters, the last one*)
(* in quotes if q.                                                         *)
PlainAt(K, w, p) ==
  /\ Len(w) >= 1 /\ Len(w) <= WordSize - 2
  /\ \A j \in 1 .. Len(w) : w[j] = "a" /\ K[p + j] = "a"

QuotedAt(K, w, p) ==
  /\ Len(w) <= WordSize - 2
  /\ K[p + 1] = "quote" /\ K[p + Len(w) + 2] = "quote"
  /\ \A j \in 1 .. Len(w) : w[j] \in {"a", "sp"} /\ K[p + 1 + j] = w[j]

Layout(K, W, n, q, a) ==
  /\ n \in Nat \ {0} /\ q \in BOOLEAN /\ Len(K) \in Nat
  /\ W \in Seq(Word) /\ Len(W) = n
  /\ a \in [1 .. n -> Nat] /\ a[1] = 0
  /\ \A i \in 1 .. n - 1 : /\ PlainAt(K, W[i], a[i])
                           /\ a[i + 1] = a[i] + Len(W[i]) + 1
                           /\ K[a[i + 1]] = "sp"
  /\ \A i \in 1 .. n : a[i] + Len(W[i]) <= Len(K)
  /\ ~q => PlainAt(K, W[n], a[n]) /\ Len(K) = a[n] + Len(W[n])
  /\ q => QuotedAt(K, W[n], a[n]) /\ Len(K) = a[n] + Len(W[n]) + 2

(* The tokenizer has the first j characters of w, and argv the first k     *)
(* words of W.                                                             *)
WordIs(w, j) == Len(tc.word) = j /\ \A h \in 1 .. j : tc.word[h] = w[h]

ArgvIs(W, k) == Len(argv) = k /\ \A h \in 1 .. k : argv[h] = W[h]

(* What the shell holds after the first m characters: it is at a word, in  *)
(* a plain one, in quotes or behind them.                                  *)
AtWord(W, n, a, m, i) ==
  i \in 2 .. n /\ m = a[i] /\ tc = tokenizer_begin /\ ArgvIs(W, i - 1)

InWord(W, n, q, a, m, i, j) ==
  /\ i \in 1 .. n /\ (i < n \/ ~q) /\ j \in 1 .. Len(W[i]) /\ m = a[i] + j
  /\ tc.state = "S_INWORD" /\ WordIs(W[i], j) /\ ArgvIs(W, i - 1)

InQuote(W, n, q, a, m, j) ==
  /\ q /\ j \in 0 .. Len(W[n]) /\ m = a[n] + 1 + j
  /\ tc.state = "S_INQUOTE" /\ WordIs(W[n], j) /\ ArgvIs(W, n - 1)

Quoted(W, n, q, a, m) ==
  q /\ m = a[n] + Len(W[n]) + 2 /\ tc = tokenizer_begin /\ ArgvIs(W, n)

Placed(W, n, q, a, m) ==
  \/ \E i \in 2 .. n : AtWord(W, n, a, m, i)
  \/ \E i \in 1 .. n : \E j \in 1 .. Len(W[i]) : InWord(W, n, q, a, m, i, j)
  \/ \E j \in 0 .. Len(W[n]) : InQuote(W, n, q, a, m, j)
  \/ Quoted(W, n, q, a, m)

(* The m characters of the line are the first of K.                        *)
Begins(K, m) == m = Len(line) /\ m <= Len(K) /\ \A k \in 1 .. m : line[k] = K[k]

(* Between commands there are no words, and during one the shell is where  *)
(* the line is in every command that begins so, unless a read has failed.  *)
PlacedInAll ==
  \A K, W, n, q, a, m : Layout(K, W, n, q, a) /\ Begins(K, m) => Placed(W, n, q, a, m)

Placing == ~torn => IF state = "S_CMD" THEN PlacedInAll ELSE argv = <<>>

(* What a command that x does not end does with the tokenizer and argv.    *)
Reads(x) ==
  /\ x \in Char /\ tc' = parse(x)
  /\ argv' = IF Token(x) = "T_WORD" THEN Append(argv, tc.word) ELSE argv

(* The next character of a line that begins as K does.                     *)
ReadsAt(K, m, x) == m \in Nat /\ m < Len(K) /\ x = K[m + 1] /\ Reads(x)

(* Words that agree in every place are one, and so are lists of them.      *)
LEMMA SameWord ==
  ASSUME ShellTypeOK, NEW w \in Word, WordIs(w, Len(w))
  PROVE  tc.word = w
<1>1. tc.word \in Seq(Char) /\ w \in Seq(Char)
  BY DEF Tokenizer, ShellTypeOK, Word
<1>. QED BY <1>1, SeqEqual DEF WordIs

LEMMA SameArgs ==
  ASSUME NEW X, NEW s \in Seq(X), NEW t \in Seq(X), Len(s) = Len(t),
         \A h \in 1 .. Len(t) : s[h] = t[h]
  PROVE  s = t
BY SeqEqual

(* A character of a word goes to its end, without an end of the token.     *)
LEMMA WordGoesOn ==
  ASSUME ShellTypeOK, NEW x \in {"a", "sp"}, NEW w \in Word, NEW j \in Nat, j < Len(w),
         Len(w) <= WordSize - 2, w[j + 1] = x, WordIs(w, j), Reads(x),
         tc.state = "S_INQUOTE" \/ (x = "a" /\ tc.state = "S_INWORD")
  PROVE  Token(x) = "T_CHAR" /\ tc'.state = tc.state /\ WordIs(w, j + 1)' /\ argv' = argv
<1> USE ShellAssumption
<1>1. Len(w) \in Nat /\ tc.word \in Seq(Char) /\ x \in Char /\ Len(tc.word) = j
  BY DEF Tokenizer, ShellTypeOK, Word, WordIs, Char
<1>2. Token(x) = "T_CHAR"
  BY <1>1 DEF Token, Full
<1>3. tc'.state = tc.state /\ tc'.word = Append(tc.word, x) /\ argv' = argv
  BY <1>2 DEF Reads, parse
<1>4. /\ Len(Append(tc.word, x)) = j + 1 /\ Append(tc.word, x)[j + 1] = x
      /\ \A h \in 1 .. j : Append(tc.word, x)[h] = tc.word[h]
  BY <1>1, AppendProperties
<1>5. \A h \in 1 .. j + 1 : Append(tc.word, x)[h] = w[h]
  BY <1>4 DEF WordIs
<1>. QED BY <1>2, <1>3, <1>4, <1>5 DEF WordIs

(* A plain word begins with its first character, one in quotes with them.  *)
LEMMA WordBegins ==
  ASSUME tc.word = <<>>, tc.state = "S_NEUTRAL", NEW w \in Word, Len(w) >= 1, w[1] = "a",
         Reads("a")
  PROVE  Token("a") = "T_CHAR" /\ tc'.state = "S_INWORD" /\ WordIs(w, 1)' /\ argv' = argv
<1>1. Len(<<>>) = 0 /\ WordSize - 1 # 0
  BY ShellAssumption
<1>2. Token("a") = "T_CHAR"
  BY <1>1 DEF Token, Full
<1>3. tc'.state = "S_INWORD" /\ tc'.word = Append(<<>>, "a") /\ argv' = argv
  BY <1>2 DEF Reads, parse
<1>4. Len(Append(<<>>, "a")) = 1 /\ Append(<<>>, "a")[1] = "a"
  OBVIOUS
<1>5. Len(tc'.word) = 1 /\ tc'.word[1] = w[1]
  BY <1>3, <1>4
<1>6. \A h \in 1 .. 1 : tc'.word[h] = w[h]
  <2>1. \A h \in 1 .. 1 : h = 1
    OBVIOUS
  <2>. QED BY <1>5, <2>1
<1>. QED BY <1>2, <1>3, <1>5, <1>6 DEF WordIs

(* The first quote leaves the word empty.                                  *)
LEMMA QuoteBegins ==
  ASSUME tc.word = <<>>, tc.state = "S_NEUTRAL", NEW w, Reads("quote")
  PROVE  Token("quote") = "T_CHAR" /\ tc'.state = "S_INQUOTE" /\ WordIs(w, 0)' /\ argv' = argv
<1>1. Len(<<>>) = 0 /\ WordSize - 1 # 0
  BY ShellAssumption
<1>2. Token("quote") = "T_CHAR"
  BY <1>1 DEF Token, Full
<1>3. tc'.state = "S_INQUOTE" /\ tc'.word = <<>> /\ argv' = argv
  BY <1>2 DEF Reads, parse
<1>. QED BY <1>1, <1>2, <1>3 DEF WordIs

(* At the end of a word it is the next of argv.                            *)
LEMMA WordEnds ==
  ASSUME ShellTypeOK, NEW W \in Seq(Word), NEW i \in 1 .. Len(W), Len(W[i]) <= WordSize - 2,
         NEW x, Reads(x),
         WordIs(W[i], Len(W[i])), ArgvIs(W, i - 1),
         (tc.state = "S_INWORD" /\ x = "sp") \/ (tc.state = "S_INQUOTE" /\ x = "quote")
  PROVE  Token(x) = "T_WORD" /\ tc' = tokenizer_begin /\ ArgvIs(W, i)'
<1> USE ShellAssumption
<1>1. PICK w \in Word : w = W[i]
  OBVIOUS
<1>2. tc.word = w /\ Len(w) \in Nat
  BY <1>1, SameWord DEF Word
<1>3. Token(x) = "T_WORD"
  BY <1>1, <1>2 DEF Token, Full
<1>4. tc' = tokenizer_begin /\ argv' = Append(argv, tc.word)
  BY <1>3 DEF Reads, parse
<1>5. argv \in Seq(Word) /\ tc.word \in Word /\ Len(argv) = i - 1
  BY DEF Tokenizer, ShellTypeOK, ArgvIs
<1>6. /\ Len(argv') = i /\ argv'[i] = W[i]
      /\ \A h \in 1 .. i - 1 : argv'[h] = argv[h]
  BY <1>1, <1>2, <1>4, <1>5, AppendProperties
<1>7. \A h \in 1 .. i : argv'[h] = W[h]
  BY <1>6 DEF ArgvIs
<1>. QED BY <1>3, <1>4, <1>6, <1>7 DEF ArgvIs

(* What a layout says of one of its words.                                 *)
LEMMA LayoutFacts ==
  ASSUME NEW K, NEW W, NEW n, NEW q, NEW a, Layout(K, W, n, q, a), NEW i \in 1 .. n
  PROVE  /\ n \in Nat \ {0} /\ n \in 1 .. n /\ q \in BOOLEAN
         /\ Len(K) \in Nat /\ Len(W) = n /\ W \in Seq(Word)
         /\ W[i] \in Word /\ Len(W[i]) \in Nat /\ a[i] \in Nat /\ Len(W[i]) <= WordSize - 2
         /\ i < n \/ ~q => PlainAt(K, W[i], a[i])
         /\ i < n => a[i + 1] = a[i] + Len(W[i]) + 1 /\ K[a[i + 1]] = "sp" /\ a[i + 1] <= Len(K)
         /\ i = n /\ q => QuotedAt(K, W[i], a[i])
         /\ i = n => Len(K) = IF q THEN a[i] + Len(W[i]) + 2 ELSE a[i] + Len(W[i])
<1> USE ShellAssumption
<1>1. /\ n \in Nat \ {0} /\ n \in 1 .. n /\ q \in BOOLEAN
      /\ Len(K) \in Nat /\ Len(W) = n /\ W \in Seq(Word)
      /\ a[i] \in Nat
  BY DEF Layout
<1>2. W[i] \in Word /\ Len(W[i]) \in Nat
  <2>1. W[i] \in Word
    BY <1>1
  <2>. QED BY <2>1, LenProperties DEF Word
<1>3. CASE i < n
  <2>1. /\ PlainAt(K, W[i], a[i]) /\ a[i + 1] = a[i] + Len(W[i]) + 1 /\ K[a[i + 1]] = "sp"
        /\ i + 1 \in 1 .. n
    <3>1. i \in 1 .. n - 1 /\ i + 1 \in 1 .. n
      BY <1>1, <1>3
    <3>. QED BY <3>1 DEF Layout
  <2>2. a[i + 1] + Len(W[i + 1]) <= Len(K) /\ a[i + 1] \in Nat /\ W[i + 1] \in Word
    BY <1>1, <2>1 DEF Layout
  <2>3. Len(W[i + 1]) \in Nat
    BY <2>2, LenProperties DEF Word
  <2>4. Len(W[i]) <= WordSize - 2
    BY <2>1 DEF PlainAt
  <2>. QED BY <1>1, <1>2, <1>3, <2>1, <2>2, <2>3, <2>4
<1>4. CASE i = n
  <2>1. ~q => PlainAt(K, W[i], a[i]) /\ Len(K) = a[i] + Len(W[i])
    BY <1>4 DEF Layout
  <2>2. q => QuotedAt(K, W[i], a[i]) /\ Len(K) = a[i] + Len(W[i]) + 2
    BY <1>4 DEF Layout
  <2>3. Len(W[i]) <= WordSize - 2
    BY <1>1, <2>1, <2>2 DEF PlainAt, QuotedAt
  <2>. QED BY <1>1, <1>2, <1>4, <2>1, <2>2, <2>3
<1>. QED BY <1>1, <1>3, <1>4

(* The first character of a word puts the shell into it.                   *)
LEMMA PartBegins ==
  ASSUME NEW K, NEW W, NEW n, NEW q, NEW a, Layout(K, W, n, q, a),
         NEW i \in 1 .. n, NEW m, m = a[i], NEW x, ReadsAt(K, m, x),
         tc.word = <<>>, tc.state = "S_NEUTRAL", ArgvIs(W, i - 1)
  PROVE  Token(x) = "T_CHAR" /\ Placed(W, n, q, a, m + 1)'
<1>1. /\ n \in 1 .. n /\ q \in BOOLEAN /\ W[i] \in Word /\ Len(W[i]) \in Nat /\ a[i] \in Nat
      /\ i < n \/ ~q => PlainAt(K, W[i], a[i])
      /\ i = n /\ q => QuotedAt(K, W[i], a[i])
  BY LayoutFacts
<1>0. x = K[a[i] + 1] /\ Reads(x)
  BY DEF ReadsAt
<1>2. CASE i < n \/ ~q
  <2>1. Len(W[i]) >= 1 /\ W[i][1] = "a" /\ x = "a"
    <3>1. PlainAt(K, W[i], a[i])
      BY <1>1, <1>2
    <3>2. 1 \in 1 .. Len(W[i]) /\ Len(W[i]) >= 1
      BY <1>1, <3>1 DEF PlainAt
    <3>. QED BY <1>0, <3>1, <3>2 DEF PlainAt
  <2>2. Token(x) = "T_CHAR" /\ tc'.state = "S_INWORD" /\ WordIs(W[i], 1)' /\ argv' = argv
    BY <1>0, <1>1, <2>1, WordBegins
  <2>3. ArgvIs(W, i - 1)'
    BY <2>2 DEF ArgvIs
  <2>4. 1 \in 1 .. Len(W[i]) /\ m + 1 = a[i] + 1
    BY <1>1, <2>1
  <2>5. InWord(W, n, q, a, m + 1, i, 1)'
    BY <1>2, <2>2, <2>3, <2>4 DEF InWord
  <2>. QED BY <2>2, <2>4, <2>5 DEF Placed
<1>3. CASE i = n /\ q
  <2>1. x = "quote"
    BY <1>0, <1>1, <1>3 DEF QuotedAt
  <2>2. Token(x) = "T_CHAR" /\ tc'.state = "S_INQUOTE" /\ WordIs(W[n], 0)' /\ argv' = argv
    BY <1>0, <2>1, QuoteBegins
  <2>3. ArgvIs(W, n - 1)'
    BY <1>3, <2>2 DEF ArgvIs
  <2>4. 0 \in 0 .. Len(W[n]) /\ m + 1 = a[n] + 1 + 0
    BY <1>1, <1>3
  <2>5. InQuote(W, n, q, a, m + 1, 0)'
    BY <1>3, <2>2, <2>3, <2>4 DEF InQuote
  <2>. QED BY <2>2, <2>4, <2>5 DEF Placed
<1>. QED BY <1>1, <1>2, <1>3

(* So does each character within a plain word, and the blank after it.     *)
LEMMA PlainGoesOn ==
  ASSUME ShellTypeOK, NEW K, NEW W, NEW n, NEW q, NEW a, Layout(K, W, n, q, a),
         NEW m, NEW i \in 1 .. n, NEW j, InWord(W, n, q, a, m, i, j), NEW x, ReadsAt(K, m, x)
  PROVE  Token(x) \in {"T_CHAR", "T_WORD"} /\ Placed(W, n, q, a, m + 1)'
<1>1. /\ (i < n \/ ~q) /\ j \in 1 .. Len(W[i]) /\ m = a[i] + j /\ tc.state = "S_INWORD"
      /\ WordIs(W[i], j) /\ ArgvIs(W, i - 1)
  BY DEF InWord
<1>2. /\ n \in Nat /\ q \in BOOLEAN /\ Len(K) \in Nat /\ a[i] \in Nat
      /\ W \in Seq(Word) /\ Len(W) = n /\ W[i] \in Word /\ Len(W[i]) \in Nat
      /\ Len(W[i]) <= WordSize - 2 /\ PlainAt(K, W[i], a[i])
      /\ i < n => a[i + 1] = a[i] + Len(W[i]) + 1 /\ K[a[i + 1]] = "sp"
      /\ i = n => Len(K) = IF q THEN a[i] + Len(W[i]) + 2 ELSE a[i] + Len(W[i])
  BY <1>1, LayoutFacts
<1>3. m \in Nat /\ m < Len(K) /\ x = K[m + 1] /\ Reads(x)
  BY DEF ReadsAt
<1>4. CASE j < Len(W[i])
  <2>1. j + 1 \in 1 .. Len(W[i]) /\ m + 1 = a[i] + (j + 1) /\ j \in Nat
    BY <1>1, <1>2, <1>4
  <2>2. x = "a" /\ W[i][j + 1] = x
    BY <1>2, <1>3, <2>1 DEF PlainAt
  <2>3. /\ Token(x) = "T_CHAR" /\ tc'.state = tc.state /\ WordIs(W[i], j + 1)'
        /\ argv' = argv
    BY <1>1, <1>2, <1>3, <1>4, <2>1, <2>2, WordGoesOn
  <2>4. ArgvIs(W, i - 1)'
    BY <1>1, <2>3 DEF ArgvIs
  <2>5. InWord(W, n, q, a, m + 1, i, j + 1)'
    BY <1>1, <2>1, <2>3, <2>4 DEF InWord
  <2>. QED BY <2>1, <2>3, <2>5 DEF Placed
<1>5. CASE j = Len(W[i])
  <2>1. i < n
    BY <1>1, <1>2, <1>3, <1>5
  <2>2. i + 1 \in 2 .. n /\ i = (i + 1) - 1 /\ m + 1 = a[i + 1] /\ i \in 1 .. Len(W)
    BY <1>1, <1>2, <1>5, <2>1
  <2>3. x = "sp"
    BY <1>2, <1>3, <2>1, <2>2
  <2>4. Token(x) = "T_WORD" /\ tc' = tokenizer_begin /\ ArgvIs(W, i)'
    <3>1. WordIs(W[i], Len(W[i])) /\ ArgvIs(W, i - 1) /\ tc.state = "S_INWORD"
      BY <1>1, <1>5
    <3>2. W \in Seq(Word) /\ i \in 1 .. Len(W) /\ Len(W[i]) <= WordSize - 2 /\ Reads(x)
      BY <1>2, <1>3, <2>2
    <3>. QED BY <2>3, <3>1, <3>2, WordEnds
  <2>5. AtWord(W, n, a, m + 1, i + 1)'
    BY <2>2, <2>4 DEF AtWord
  <2>. QED BY <2>2, <2>4, <2>5 DEF Placed
<1>. QED BY <1>1, <1>2, <1>4, <1>5

(* And each within quotes, and the quote that ends them.                   *)
LEMMA QuoteGoesOn ==
  ASSUME ShellTypeOK, NEW K, NEW W, NEW n, NEW q, NEW a, Layout(K, W, n, q, a),
         NEW m, NEW j, InQuote(W, n, q, a, m, j), NEW x, ReadsAt(K, m, x)
  PROVE  Token(x) \in {"T_CHAR", "T_WORD"} /\ Placed(W, n, q, a, m + 1)'
<1>1. /\ q /\ j \in 0 .. Len(W[n]) /\ m = a[n] + 1 + j /\ tc.state = "S_INQUOTE"
      /\ WordIs(W[n], j) /\ ArgvIs(W, n - 1)
  BY DEF InQuote
<1>2. q = TRUE /\ n \in 1 .. n
  BY <1>1 DEF Layout
<1>3. /\ n \in Nat /\ a[n] \in Nat
      /\ W \in Seq(Word) /\ Len(W) = n /\ W[n] \in Word /\ Len(W[n]) \in Nat
      /\ Len(W[n]) <= WordSize - 2 /\ QuotedAt(K, W[n], a[n])
  BY <1>2, LayoutFacts
<1>4. x = K[m + 1] /\ Reads(x)
  BY DEF ReadsAt
<1>5. CASE j < Len(W[n])
  <2>1. /\ j + 1 \in 1 .. Len(W[n]) /\ j + 1 \in 0 .. Len(W[n]) /\ j \in Nat
        /\ m + 1 = a[n] + 1 + (j + 1)
    <3>1. PICK l \in Nat, p \in Nat : l = Len(W[n]) /\ p = a[n]
      BY <1>3
    <3>2. j \in 0 .. l /\ j < l /\ m = p + 1 + j
      BY <1>1, <1>5, <3>1
    <3>3. j + 1 \in 1 .. l /\ j + 1 \in 0 .. l /\ j \in Nat /\ m + 1 = p + 1 + (j + 1)
      BY <3>2
    <3>. QED BY <3>1, <3>3
  <2>2. x \in {"a", "sp"} /\ W[n][j + 1] = x
    BY <1>3, <1>4, <2>1 DEF QuotedAt
  <2>3. /\ Token(x) = "T_CHAR" /\ tc'.state = tc.state /\ WordIs(W[n], j + 1)'
        /\ argv' = argv
    <3>1. WordIs(W[n], j) /\ tc.state = "S_INQUOTE" /\ j \in Nat /\ j < Len(W[n])
      BY <1>1, <1>5, <2>1
    <3>2. W[n] \in Word /\ Len(W[n]) <= WordSize - 2 /\ Reads(x)
      BY <1>3, <1>4
    <3>. QED BY <2>2, <3>1, <3>2, WordGoesOn
  <2>4. ArgvIs(W, n - 1)'
    BY <1>1, <2>3 DEF ArgvIs
  <2>5. InQuote(W, n, q, a, m + 1, j + 1)'
    BY <1>1, <2>1, <2>3, <2>4 DEF InQuote
  <2>. QED BY <2>1, <2>3, <2>5 DEF Placed
<1>6. CASE j = Len(W[n])
  <2>1. m + 1 = a[n] + Len(W[n]) + 2 /\ n \in 1 .. Len(W)
    BY <1>1, <1>2, <1>3, <1>6
  <2>2. x = "quote"
    BY <1>3, <1>4, <2>1 DEF QuotedAt
  <2>3. Token(x) = "T_WORD" /\ tc' = tokenizer_begin /\ ArgvIs(W, n)'
    BY <1>1, <1>3, <1>4, <1>6, <2>1, <2>2, WordEnds
  <2>4. Quoted(W, n, q, a, m + 1)'
    BY <1>1, <2>1, <2>3 DEF Quoted
  <2>. QED BY <2>3, <2>4 DEF Placed
<1>7. j < Len(W[n]) \/ j = Len(W[n])
  <2>1. j \in 0 .. Len(W[n]) /\ Len(W[n]) \in Nat
    BY <1>1, <1>3
  <2>. QED BY <2>1
<1>. QED BY <1>5, <1>6, <1>7

(* Each character of the command takes the shell to its next place.        *)
LEMMA ReadsOn ==
  ASSUME ShellTypeOK, NEW K, NEW W, NEW n, NEW q, NEW a, Layout(K, W, n, q, a),
         NEW m, Placed(W, n, q, a, m), NEW x, ReadsAt(K, m, x)
  PROVE  Token(x) \in {"T_CHAR", "T_WORD"} /\ Placed(W, n, q, a, m + 1)'
<1>1. ASSUME NEW i \in 2 .. n, AtWord(W, n, a, m, i)
      PROVE  Token(x) \in {"T_CHAR", "T_WORD"} /\ Placed(W, n, q, a, m + 1)'
  <2>1. n \in Nat
    BY DEF Layout
  <2>2. /\ i \in 1 .. n /\ m = a[i] /\ ArgvIs(W, i - 1)
        /\ tc.word = <<>> /\ tc.state = "S_NEUTRAL"
    BY <1>1, <2>1 DEF AtWord, tokenizer_begin
  <2>. QED BY <2>2, PartBegins
<1>2. ASSUME NEW i \in 1 .. n, NEW j, InWord(W, n, q, a, m, i, j)
      PROVE  Token(x) \in {"T_CHAR", "T_WORD"} /\ Placed(W, n, q, a, m + 1)'
  BY <1>2, PlainGoesOn
<1>3. ASSUME NEW j, InQuote(W, n, q, a, m, j)
      PROVE  Token(x) \in {"T_CHAR", "T_WORD"} /\ Placed(W, n, q, a, m + 1)'
  BY <1>3, QuoteGoesOn
<1>4. ~Quoted(W, n, q, a, m)
  <2>1. n \in 1 .. n /\ (q => Len(K) = a[n] + Len(W[n]) + 2) /\ Len(K) \in Nat
    BY DEF Layout
  <2>2. m < Len(K)
    BY DEF ReadsAt
  <2>. QED BY <2>1, <2>2 DEF Quoted
<1>. QED BY <1>1, <1>2, <1>3, <1>4 DEF Placed

(* A line that begins as K does did so before its last character.          *)
LEMMA BeginsBefore ==
  ASSUME line \in Seq(Char), NEW x \in Char, line' = Append(line, x),
         NEW K, Len(K) \in Nat, NEW m, Begins(K, m)'
  PROVE  /\ m - 1 \in Nat /\ m - 1 < Len(K) /\ (m - 1) + 1 = m
         /\ Begins(K, m - 1) /\ x = K[(m - 1) + 1]
<1>1. PICK l \in Nat : l = Len(line)
  BY LenProperties
<1>2. m = l + 1 /\ m <= Len(K) /\ \A k \in 1 .. m : line'[k] = K[k]
  BY <1>1, AppendProperties DEF Begins
<1>3. line'[m] = x /\ \A k \in 1 .. l : line'[k] = line[k]
  BY <1>1, <1>2, AppendProperties
<1>4. m \in 1 .. m /\ m - 1 = l /\ \A k \in 1 .. l : k \in 1 .. m
  BY <1>2
<1>5. \A k \in 1 .. l : line[k] = K[k]
  BY <1>2, <1>3, <1>4
<1>6. x = K[m]
  BY <1>2, <1>3, <1>4
<1>7. l <= Len(K)
  BY <1>1, <1>2
<1>. QED BY <1>1, <1>2, <1>4, <1>5, <1>6, <1>7 DEF Begins

(* So the shell is where the line is after every step.                     *)
LEMMA PlacingCorrect == ShellSafe => []Placing
<1>1. ShellInit => Placing
  BY DEF ShellInit, Placing
<1>2. ShellTypeOK /\ Begun /\ Explained /\ Placing /\ [ShellNext]_shellvars => Placing'
  <2> SUFFICES ASSUME ShellTypeOK, Begun, Explained, Placing, [ShellNext]_shellvars, ~torn'
               PROVE  IF state' = "S_CMD" THEN PlacedInAll' ELSE argv' = <<>>
    BY DEF Placing
  <2>1. ASSUME UNCHANGED <<tc, state, argv, line, torn>>
        PROVE  IF state' = "S_CMD" THEN PlacedInAll' ELSE argv' = <<>>
    <3>1. IF state = "S_CMD" THEN PlacedInAll ELSE argv = <<>>
      BY <2>1 DEF Placing
    <3>2. ASSUME PlacedInAll PROVE PlacedInAll'
      BY <2>1, <3>2
         DEF PlacedInAll, Begins, Placed, AtWord, InWord, InQuote, Quoted, ArgvIs, WordIs
    <3>. QED BY <2>1, <3>1, <3>2
  <2>2. CASE Take \/ uart_reset \/ (\E x \in Char : Typed(x)) \/ UNCHANGED shellvars
    BY <2>1, <2>2 DEF Take, uart_reset, Typed, shellvars
  <2>3. CASE gettoken_First \/ Idle \/ Error
    <3>1. state # "S_CMD" /\ state' # "S_CMD" /\ argv' = argv /\ torn' = torn
      BY <2>3 DEF gettoken_First, Idle, Error
    <3>. QED BY <3>1 DEF Placing
  <2>4. CASE ReadError
    BY <2>4 DEF ReadError
  <2>5. ASSUME NEW x \in Char, Input(x)
        PROVE  IF state' = "S_CMD" THEN PlacedInAll' ELSE argv' = <<>>
    <3>1. argv' = argv /\ torn' = torn /\ state = "S_INPUT" /\ gettoken(x)
      BY <2>5 DEF Input
    <3>2. ~torn /\ argv = <<>> /\ line = <<>> /\ Fresh /\ c = {x} /\ tc' = parse(x)
      BY <3>1 DEF Placing, Explained, gettoken
    <3>3. ASSUME state' = "S_CMD", NEW K, NEW W, NEW n, NEW q, NEW a, NEW m,
                 Layout(K, W, n, q, a), Begins(K, m)'
          PROVE  Placed(W, n, q, a, m)'
      <4>1. line \in Seq(Char) /\ line' = Append(line, x) /\ Len(K) \in Nat
        BY <3>1, <3>2, <3>3 DEF gettoken, ShellTypeOK, Layout
      <4>2. /\ m - 1 \in Nat /\ m - 1 < Len(K) /\ (m - 1) + 1 = m
            /\ Begins(K, m - 1) /\ x = K[(m - 1) + 1]
        BY <3>3, <4>1, BeginsBefore
      <4>3. PICK l \in Nat : l = m - 1 /\ m = l + 1
        BY <4>2
      <4>4. l = 0
        BY <3>2, <4>2, <4>3 DEF Begins
      <4>5. Token(x) = "T_CHAR"
        BY <2>5, <3>3 DEF Input
      <4>6. ReadsAt(K, l, x)
        BY <3>1, <3>2, <4>2, <4>3, <4>5 DEF ReadsAt, Reads
      <4>7. tc.word = <<>> /\ tc.state = "S_NEUTRAL" /\ ArgvIs(W, 0)
        BY <3>2 DEF Fresh, Begun, ArgvIs
      <4>8. 1 \in 1 .. n /\ a[1] = 0
        BY <3>3 DEF Layout
      <4>9. l = a[1] /\ ArgvIs(W, 1 - 1)
        BY <4>4, <4>7, <4>8
      <4>. QED BY <3>3, <4>3, <4>6, <4>7, <4>8, <4>9, PartBegins
    <3>4. state' # "S_CMD" => argv' = <<>>
      BY <3>1, <3>2
    <3>5. state' = "S_CMD" => PlacedInAll'
      BY <3>3 DEF PlacedInAll
    <3>. QED BY <3>4, <3>5
  <2>6. ASSUME NEW x \in Char, Command(x)
        PROVE  IF state' = "S_CMD" THEN PlacedInAll' ELSE argv' = <<>>
    <3>1. state = "S_CMD" /\ gettoken(x)
      BY <2>6 DEF Command
    <3>2. CASE exec_cmd(Args(x))
      BY <3>2 DEF exec_cmd
    <3>3. CASE state' = state /\ torn' = torn /\ Reads(x)
      <4>1. ~torn /\ PlacedInAll /\ state' = "S_CMD"
        BY <3>1, <3>3 DEF Placing
      <4>2. ASSUME NEW K, NEW W, NEW n, NEW q, NEW a, NEW m,
                   Layout(K, W, n, q, a), Begins(K, m)'
            PROVE  Placed(W, n, q, a, m)'
        <5>1. line \in Seq(Char) /\ line' = Append(line, x) /\ Len(K) \in Nat
          BY <3>1, <4>1, <4>2 DEF gettoken, ShellTypeOK, Layout
        <5>2. /\ m - 1 \in Nat /\ m - 1 < Len(K) /\ (m - 1) + 1 = m
              /\ Begins(K, m - 1) /\ x = K[(m - 1) + 1]
          BY <4>2, <5>1, BeginsBefore
        <5>3. PICK l \in Nat : l = m - 1 /\ m = l + 1
          BY <5>2
        <5>4. Placed(W, n, q, a, l)
          BY <4>1, <4>2, <5>2, <5>3 DEF PlacedInAll
        <5>5. ReadsAt(K, l, x)
          BY <3>3, <5>2, <5>3 DEF ReadsAt
        <5>. QED BY <4>2, <5>3, <5>4, <5>5, ReadsOn
      <4>. QED BY <4>1, <4>2 DEF PlacedInAll
    <3>4. exec_cmd(Args(x)) \/ (state' = state /\ torn' = torn /\ Reads(x))
      BY <2>6, <3>1 DEF Command, gettoken, Reads, Args
    <3>. QED BY <3>2, <3>3, <3>4
  <2>7. ASSUME NEW x \in Char, Interactive(x)
        PROVE  IF state' = "S_CMD" THEN PlacedInAll' ELSE argv' = <<>>
    <3>1. state # "S_CMD" /\ state' # "S_CMD" /\ argv' = argv /\ torn' = torn
      BY <2>7 DEF Interactive
    <3>. QED BY <3>1 DEF Placing
  <2>. QED BY <2>2, <2>3, <2>4, <2>5, <2>6, <2>7 DEF ShellNext, Main
<1>. QED BY <1>1, <1>2, ShellTypeCorrect, BegunCorrect, ExplainedCorrect, PTL DEF ShellSafe

(* A command whose line has been read to its end is executed as its words. *)
LEMMA WordsExecuted ==
  ASSUME ShellTypeOK, Placing, ~torn, NEW x, Executes(x),
         NEW K, NEW W, NEW n, NEW q, NEW a, Layout(K, W, n, q, a), line = K
  PROVE  Args(x) = W
<1>1. state = "S_CMD" /\ Token(x) \in {"T_NL", "T_WORD_LAST"} /\ PlacedInAll
  BY DEF Executes, Placing
<1>2. PICK m \in Nat : m = Len(K)
  BY DEF Layout
<1>3. Placed(W, n, q, a, m)
  <2>1. Begins(K, m)
    BY <1>2 DEF Begins
  <2>. QED BY <1>1, <2>1 DEF PlacedInAll
<1>4. W \in Seq(Word) /\ argv \in Seq(Word) /\ tc.word \in Word /\ Len(W) = n
      /\ n \in Nat \ {0} /\ n \in 1 .. n
  BY DEF Layout, Tokenizer, ShellTypeOK
<1>5. ASSUME NEW i \in 2 .. n, AtWord(W, n, a, m, i) PROVE FALSE
  <2>1. m = a[i] /\ i \in 1 .. n
    BY <1>4, <1>5 DEF AtWord
  <2>2. /\ a[i] \in Nat /\ Len(W[i]) \in Nat /\ q \in BOOLEAN
        /\ i < n \/ ~q => PlainAt(K, W[i], a[i])
        /\ i < n => a[i + 1] = a[i] + Len(W[i]) + 1 /\ a[i + 1] <= Len(K)
        /\ i = n => Len(K) = IF q THEN a[i] + Len(W[i]) + 2 ELSE a[i] + Len(W[i])
    BY <2>1, LayoutFacts
  <2>3. i < n \/ ~q => Len(W[i]) >= 1
    BY <2>2 DEF PlainAt
  <2>. QED BY <1>2, <1>4, <2>1, <2>2, <2>3
<1>6. ASSUME NEW i \in 1 .. n, NEW j, InWord(W, n, q, a, m, i, j) PROVE Args(x) = W
  <2>1. /\ (i < n \/ ~q) /\ j \in 1 .. Len(W[i]) /\ m = a[i] + j /\ tc.state = "S_INWORD"
        /\ WordIs(W[i], j) /\ ArgvIs(W, i - 1)
    BY <1>6 DEF InWord
  <2>2. /\ a[i] \in Nat /\ Len(W[i]) \in Nat /\ W[i] \in Word /\ q \in BOOLEAN
        /\ i < n => a[i + 1] = a[i] + Len(W[i]) + 1 /\ a[i + 1] <= Len(K)
        /\ i = n => Len(K) = IF q THEN a[i] + Len(W[i]) + 2 ELSE a[i] + Len(W[i])
    BY LayoutFacts
  <2>3. i = n
    BY <1>2, <1>4, <2>1, <2>2
  <2>4. j = Len(W[n])
    BY <1>2, <2>1, <2>2, <2>3
  <2>5. tc.word = W[n]
    BY <2>1, <2>2, <2>3, <2>4, SameWord
  <2>6. Args(x) = Append(argv, W[n])
    BY <1>1, <2>1, <2>5 DEF Token, Args
  <2>7. Append(argv, W[n]) = W
    <3>1. W[n] \in Word /\ argv \in Seq(Word) /\ Len(argv) = n - 1
          /\ \A h \in 1 .. n - 1 : argv[h] = W[h]
      BY <1>4, <2>1, <2>2, <2>3 DEF ArgvIs
    <3>2. PICK v \in Seq(Word) : v = Append(argv, W[n])
      BY <3>1, AppendProperties
    <3>3. Len(v) = n /\ v[n] = W[n] /\ \A h \in 1 .. n - 1 : v[h] = argv[h]
      BY <1>4, <3>1, <3>2, AppendProperties
    <3>4. \A h \in 1 .. n : v[h] = W[h]
      BY <1>4, <3>1, <3>3
    <3>. QED BY <1>4, <3>2, <3>3, <3>4, SameArgs
  <2>. QED BY <2>6, <2>7
<1>7. ASSUME NEW j, InQuote(W, n, q, a, m, j) PROVE FALSE
  <2>1. q /\ j \in 0 .. Len(W[n]) /\ m = a[n] + 1 + j
    BY <1>7 DEF InQuote
  <2>2. a[n] \in Nat /\ Len(W[n]) \in Nat
    BY <1>4, LayoutFacts
  <2>3. Len(K) = a[n] + Len(W[n]) + 2
    BY <2>1 DEF Layout
  <2>4. PICK p \in Nat, l \in Nat : p = a[n] /\ l = Len(W[n])
    BY <2>2
  <2>5. m = p + l + 2 /\ m = p + 1 + j /\ j \in 0 .. l
    BY <1>2, <2>1, <2>3, <2>4
  <2>. QED BY <2>5
<1>8. ASSUME Quoted(W, n, q, a, m) PROVE Args(x) = W
  <2>1. tc = tokenizer_begin /\ ArgvIs(W, n)
    BY <1>8 DEF Quoted
  <2>2. Args(x) = argv
    BY <1>1, <2>1 DEF Token, Args, tokenizer_begin
  <2>3. argv = W
    BY <1>4, <2>1, SameArgs DEF ArgvIs
  <2>. QED BY <2>2, <2>3
<1>. QED BY <1>3, <1>5, <1>6, <1>7, <1>8 DEF Placed

(* The sequence of a set of no element, and of one.                        *)
LEMMA NoneToSeq == SetToSeq({}) = <<>>
<1>1. Cardinality({}) = 0
  BY FS_EmptySet
<1>2. SetToSeq({}) = CHOOSE f \in [1 .. 0 -> {}] : IsInjective(f)
  BY <1>1 DEF SetToSeq
<1>3. <<>> \in [1 .. 0 -> {}] /\ \A f \in [1 .. 0 -> {}] : f = <<>>
  OBVIOUS
<1>4. IsInjective(<<>>)
  BY DEF IsInjective
<1>. QED BY <1>2, <1>3, <1>4

LEMMA OneToSeq ==
  ASSUME NEW w
  PROVE  SetToSeq({w}) = <<w>>
<1>1. Cardinality({w}) = 1
  BY FS_Singleton
<1>2. SetToSeq({w}) = CHOOSE f \in [1 .. 1 -> {w}] : IsInjective(f)
  BY <1>1 DEF SetToSeq
<1>3. <<w>> \in [1 .. 1 -> {w}] /\ \A f \in [1 .. 1 -> {w}] : f = <<w>>
  OBVIOUS
<1>4. IsInjective(<<w>>)
  BY DEF IsInjective
<1>. QED BY <1>2, <1>3, <1>4

(* What is typed for word w, plain or in quotes: a blank before it if h is *)
(* one.                                                                    *)
PlainKeys(s, w, h) ==
  /\ s \in Seq(Char) /\ w \in Seq(Char) /\ h \in {0, 1} /\ (h = 1 => s[1] = "sp")
  /\ Len(s) = h + Len(w) /\ Len(w) >= 1 /\ Len(w) <= WordSize - 2
  /\ \A j \in 1 .. Len(w) : w[j] = "a" /\ s[h + j] = "a"

QuotedKeys(s, w, h) ==
  /\ s \in Seq(Char) /\ w \in Seq(Char) /\ h \in {0, 1} /\ (h = 1 => s[1] = "sp")
  /\ Len(s) = h + Len(w) + 2 /\ Len(w) <= WordSize - 2
  /\ s[h + 1] = "quote" /\ s[h + Len(w) + 2] = "quote"
  /\ \A j \in 1 .. Len(w) : w[j] \in {"a", "sp"} /\ s[h + 1 + j] = w[j]

(* A blank before them moves the others by one.                            *)
LEMMA BlankJoins ==
  ASSUME NEW s \in Seq(Char)
  PROVE  LET t == <<"sp">> \o s
         IN  /\ t \in Seq(Char) /\ Len(s) \in Nat /\ Len(t) = 1 + Len(s) /\ t[1] = "sp"
             /\ \A j \in 1 .. Len(s) : t[1 + j] = s[j]
<1>1. <<"sp">> \in Seq(Char) /\ Len(<<"sp">>) = 1 /\ <<"sp">>[1] = "sp"
  BY DEF Char
<1>. QED BY <1>1, Joined

LEMMA BlankThenPlain ==
  ASSUME NEW s, NEW w, PlainKeys(s, w, 0)
  PROVE  PlainKeys(<<"sp">> \o s, w, 1)
<1>1. s \in Seq(Char) /\ w \in Seq(Char) /\ Len(w) <= WordSize - 2 /\ Len(w) \in Nat
  <2>1. s \in Seq(Char) /\ w \in Seq(Char) /\ Len(w) <= WordSize - 2
    BY DEF PlainKeys
  <2>. QED BY <2>1, LenProperties
<1>2. PICK t : t = <<"sp">> \o s
  OBVIOUS
<1>3. /\ t \in Seq(Char) /\ Len(s) \in Nat /\ Len(t) = 1 + Len(s) /\ t[1] = "sp"
      /\ \A j \in 1 .. Len(s) : t[1 + j] = s[j]
  BY <1>1, <1>2, BlankJoins
<1>4. Len(s) = Len(w) /\ Len(w) >= 1 /\ \A j \in 1 .. Len(w) : w[j] = "a" /\ s[0 + j] = "a"
  BY <1>1 DEF PlainKeys
<1>5. ASSUME NEW j \in 1 .. Len(w) PROVE w[j] = "a" /\ t[1 + j] = "a"
  <2>1. 0 + j = j /\ j \in 1 .. Len(s)
    BY <1>4
  <2>. QED BY <1>3, <1>4, <2>1
<1>. QED BY <1>1, <1>2, <1>3, <1>4, <1>5 DEF PlainKeys

LEMMA BlankThenQuoted ==
  ASSUME NEW s, NEW w, QuotedKeys(s, w, 0)
  PROVE  QuotedKeys(<<"sp">> \o s, w, 1)
<1>1. s \in Seq(Char) /\ w \in Seq(Char) /\ Len(w) <= WordSize - 2 /\ Len(w) \in Nat
  <2>1. s \in Seq(Char) /\ w \in Seq(Char) /\ Len(w) <= WordSize - 2
    BY DEF QuotedKeys
  <2>. QED BY <2>1, LenProperties
<1>2. PICK t : t = <<"sp">> \o s
  OBVIOUS
<1>3. /\ t \in Seq(Char) /\ Len(s) \in Nat /\ Len(t) = 1 + Len(s) /\ t[1] = "sp"
      /\ \A j \in 1 .. Len(s) : t[1 + j] = s[j]
  BY <1>1, <1>2, BlankJoins
<1>4. /\ Len(s) = Len(w) + 2 /\ s[1] = "quote" /\ s[Len(w) + 2] = "quote"
      /\ \A j \in 1 .. Len(w) : w[j] \in {"a", "sp"} /\ s[1 + j] = w[j]
  BY <1>1 DEF QuotedKeys
<1>5. 1 \in 1 .. Len(s) /\ Len(w) + 2 \in 1 .. Len(s) /\ Len(t) = 1 + Len(w) + 2
  BY <1>1, <1>3, <1>4
<1>6. t[1 + 1] = "quote" /\ t[1 + (Len(w) + 2)] = "quote" /\ 1 + (Len(w) + 2) = 1 + Len(w) + 2
  BY <1>1, <1>3, <1>4, <1>5
<1>7. ASSUME NEW j \in 1 .. Len(w) PROVE w[j] \in {"a", "sp"} /\ t[1 + 1 + j] = w[j]
  <2>1. 1 + j \in 1 .. Len(s) /\ 1 + (1 + j) = 1 + 1 + j
    BY <1>1, <1>4
  <2>2. t[1 + (1 + j)] = s[1 + j]
    BY <1>3, <2>1
  <2>. QED BY <1>4, <2>1, <2>2
<1>. QED BY <1>1, <1>2, <1>3, <1>5, <1>6, <1>7 DEF QuotedKeys

(* A plain word is typed as it is.                                         *)
LEMMA PlainPiece ==
  ASSUME NEW w \in Plain
  PROVE  w \in Word /\ PlainKeys(w, w, 0)
<1> USE ShellAssumption
<1>1. PICK n \in Fits \ {0} : w \in [1 .. n -> {"a"}]
  BY DEF Plain
<1>2. n \in Nat /\ n >= 1 /\ n <= WordSize - 2
  BY DEF Fits
<1>3. w \in Seq(Char) /\ Len(w) = n
  <2>1. w \in [1 .. n -> Char]
    BY <1>1 DEF Char
  <2>. QED BY <1>2, <2>1
<1>4. \A j \in 1 .. n : w[j] = "a" /\ w[0 + j] = "a"
  BY <1>1, <1>2
<1>. QED BY <1>2, <1>3, <1>4 DEF PlainKeys, Word

(* A word in quotes is typed with them.                                    *)
LEMMA QuotedPiece ==
  ASSUME NEW w \in InQuotes
  PROVE  w \in Word /\ QuotedKeys(<<"quote">> \o w \o <<"quote">>, w, 0)
<1> USE ShellAssumption
<1>1. PICK n \in Fits : w \in [1 .. n -> {"a", "sp"}]
  BY DEF InQuotes
<1>2. n \in Nat /\ n <= WordSize - 2
  BY DEF Fits
<1>3. w \in Seq(Char) /\ Len(w) = n
  <2>1. w \in [1 .. n -> Char]
    BY <1>1 DEF Char
  <2>. QED BY <1>2, <2>1
<1>4. PICK d \in Seq(Char) : d = <<"quote">> /\ Len(d) = 1 /\ d[1] = "quote"
  <2>1. <<"quote">> \in Seq(Char)
    BY DEF Char
  <2>. QED BY <2>1
<1>5. PICK u \in Seq(Char) : u = d \o w
  BY <1>3, <1>4, ConcatProperties
<1>6. Len(u) = 1 + n /\ u[1] = "quote" /\ \A j \in 1 .. n : u[1 + j] = w[j]
  BY <1>3, <1>4, <1>5, Joined
<1>7. PICK t \in Seq(Char) : t = u \o d
  BY <1>4, ConcatProperties
<1>8. /\ Len(t) = (1 + n) + 1 /\ t[(1 + n) + 1] = "quote"
      /\ \A j \in 1 .. 1 + n : t[j] = u[j]
  BY <1>2, <1>4, <1>6, <1>7, Joined
<1>9. t[0 + 1] = "quote" /\ t[0 + n + 2] = "quote" /\ Len(t) = 0 + n + 2
  <2>1. 1 \in 1 .. 1 + n /\ 0 + 1 = 1 /\ 0 + n + 2 = (1 + n) + 1
    BY <1>2
  <2>. QED BY <1>6, <1>8, <2>1
<1>10. ASSUME NEW j \in 1 .. n PROVE w[j] \in {"a", "sp"} /\ t[0 + 1 + j] = w[j]
  <2>1. 1 + j \in 1 .. 1 + n /\ 0 + 1 + j = 1 + j
    BY <1>2
  <2>. QED BY <1>1, <1>6, <1>8, <2>1
<1>11. t = <<"quote">> \o w \o <<"quote">>
  BY <1>4, <1>5, <1>7
<1>12. QuotedKeys(t, w, 0)
  BY <1>2, <1>3, <1>9, <1>10 DEF QuotedKeys
<1>. QED BY <1>3, <1>11, <1>12 DEF Word

(* Where it is among the characters K, after the first p.                  *)
Shows(K, p, s) == p \in Nat /\ \A j \in 1 .. Len(s) : K[p + j] = s[j]

(* A plain word there.                                                     *)
LEMMA PlainLies ==
  ASSUME NEW K, NEW s, NEW w, NEW h \in {0, 1}, NEW p \in Nat, PlainKeys(s, w, h), Shows(K, p, s)
  PROVE  /\ Len(w) \in Nat /\ Len(s) \in Nat /\ Len(s) = h + Len(w)
         /\ PlainAt(K, w, p + h) /\ (h = 1 => K[p + 1] = "sp")
<1>1. PICK l \in Nat : l = Len(w)
  BY LenProperties DEF PlainKeys
<1>2. PICK k \in Nat : k = Len(s)
  BY LenProperties DEF PlainKeys
<1>3. /\ h \in {0, 1} /\ l <= WordSize - 2 /\ p \in Nat
      /\ \A j \in 1 .. k : K[p + j] = s[j]
      /\ h = 1 => s[1] = "sp"
  BY <1>1, <1>2 DEF PlainKeys, Shows
<1>4. k = h + l /\ l >= 1 /\ \A j \in 1 .. l : w[j] = "a" /\ s[h + j] = "a"
  BY <1>1, <1>2 DEF PlainKeys
<1>5. ASSUME NEW j \in 1 .. l PROVE w[j] = "a" /\ K[(p + h) + j] = "a"
  <2>1. h + j \in 1 .. k /\ p + (h + j) = (p + h) + j
    BY <1>3, <1>4
  <2>2. K[p + (h + j)] = s[h + j]
    BY <1>3, <2>1
  <2>. QED BY <1>4, <2>1, <2>2
<1>6. PlainAt(K, w, p + h)
  BY <1>1, <1>3, <1>4, <1>5 DEF PlainAt
<1>7. h = 1 => K[p + 1] = "sp"
  <2>1. 1 \in 1 .. k
    BY <1>3, <1>4
  <2>. QED BY <1>3, <2>1
<1>. QED BY <1>1, <1>2, <1>4, <1>6, <1>7

(* And a word in quotes.                                                   *)
LEMMA QuotedLies ==
  ASSUME NEW K, NEW s, NEW w, NEW h \in {0, 1}, NEW p \in Nat, QuotedKeys(s, w, h), Shows(K, p, s)
  PROVE  /\ Len(w) \in Nat /\ Len(s) \in Nat /\ Len(s) = h + Len(w) + 2
         /\ QuotedAt(K, w, p + h) /\ (h = 1 => K[p + 1] = "sp")
<1>1. PICK l \in Nat : l = Len(w)
  BY LenProperties DEF QuotedKeys
<1>2. PICK k \in Nat : k = Len(s)
  BY LenProperties DEF QuotedKeys
<1>3. /\ h \in {0, 1} /\ l <= WordSize - 2 /\ p \in Nat
      /\ \A j \in 1 .. k : K[p + j] = s[j]
      /\ h = 1 => s[1] = "sp"
  BY <1>1, <1>2 DEF QuotedKeys, Shows
<1>4. /\ k = h + l + 2 /\ s[h + 1] = "quote" /\ s[h + l + 2] = "quote"
      /\ \A j \in 1 .. l : w[j] \in {"a", "sp"} /\ s[h + 1 + j] = w[j]
  BY <1>1, <1>2 DEF QuotedKeys
<1>5. K[(p + h) + 1] = "quote" /\ K[(p + h) + l + 2] = "quote"
  <2>1. /\ h + 1 \in 1 .. k /\ p + (h + 1) = (p + h) + 1
        /\ h + l + 2 \in 1 .. k /\ p + (h + l + 2) = (p + h) + l + 2
    BY <1>3, <1>4
  <2>2. K[p + (h + 1)] = s[h + 1] /\ K[p + (h + l + 2)] = s[h + l + 2]
    BY <1>3, <2>1
  <2>. QED BY <1>4, <2>1, <2>2
<1>6. ASSUME NEW j \in 1 .. l PROVE w[j] \in {"a", "sp"} /\ K[(p + h) + 1 + j] = w[j]
  <2>1. h + 1 + j \in 1 .. k /\ p + (h + 1 + j) = (p + h) + 1 + j
    BY <1>3, <1>4
  <2>2. K[p + (h + 1 + j)] = s[h + 1 + j]
    BY <1>3, <2>1
  <2>. QED BY <1>4, <2>1, <2>2
<1>7. QuotedAt(K, w, p + h)
  BY <1>1, <1>3, <1>5, <1>6 DEF QuotedAt
<1>8. h = 1 => K[p + 1] = "sp"
  <2>1. 1 \in 1 .. k
    BY <1>3, <1>4
  <2>. QED BY <1>3, <2>1
<1>. QED BY <1>1, <1>2, <1>4, <1>7, <1>8

(* The blank before every word but the first, and the pieces of a command. *)
Blank(i) == IF i = 1 THEN 0 ELSE 1

Pieces(s, W, n, q) ==
  /\ n \in Nat \ {0} /\ q \in BOOLEAN /\ W \in Seq(Word) /\ Len(W) = n /\ Len(s) = n
  /\ \A i \in 1 .. n : i < n \/ ~q => PlainKeys(s[i], W[i], Blank(i))
  /\ q => QuotedKeys(s[n], W[n], Blank(n))

(* Where the pieces s begin in K, and the words in them.                   *)
PlacesOf(b, a, K, s, n) ==
  /\ b \in [1 .. n + 1 -> Nat] /\ a \in [1 .. n -> Nat] /\ Len(K) \in Nat
  /\ b[1] = 0 /\ b[n + 1] = Len(K)
  /\ \A i \in 1 .. n : /\ a[i] = b[i] + Blank(i)
                       /\ b[i + 1] = b[i] + Len(s[i]) /\ b[i + 1] <= Len(K)
                       /\ \A j \in 1 .. Len(s[i]) : K[b[i] + j] = s[i][j]

(* There are such places.                                                  *)
LEMMA PlacesExist ==
  ASSUME NEW s, NEW W, NEW n, NEW q, Pieces(s, W, n, q)
  PROVE  \E b, a : PlacesOf(b, a, FlattenSeq(s), s, n)
<1>1. Sequences(s, n, Char) /\ n \in Nat \ {0}
  <2>1. n \in Nat \ {0} /\ Len(s) = n /\ q \in BOOLEAN
    BY DEF Pieces
  <2>2. ASSUME NEW i \in 1 .. n PROVE s[i] \in Seq(Char)
    <3>1. CASE i < n \/ ~q
      BY <3>1 DEF Pieces, PlainKeys
    <3>2. CASE i = n /\ q
      BY <3>2 DEF Pieces, QuotedKeys
    <3>. QED BY <2>1, <3>1, <3>2
  <2>. QED BY <2>1, <2>2 DEF Sequences
<1>2. PICK b : Lies(b, FlattenSeq(s), s, n)
  BY <1>1, FlattenPlaces
<1>3. PICK a \in [1 .. n -> Nat] : a = [i \in 1 .. n |-> b[i] + Blank(i)]
  <2>1. \A i \in 1 .. n : b[i] + Blank(i) \in Nat
    BY <1>1, <1>2 DEF Blank, Lies
  <2> DEFINE a == [i \in 1 .. n |-> b[i] + Blank(i)]
  <2>2. a \in [1 .. n -> Nat]
    BY <2>1
  <2>. QED BY <2>2
<1>4. Len(FlattenSeq(s)) \in Nat
  <2>1. n + 1 \in 1 .. n + 1
    BY <1>1
  <2>. QED BY <1>2, <2>1 DEF Lies
<1>5. PlacesOf(b, a, FlattenSeq(s), s, n)
  BY <1>2, <1>3, <1>4 DEF PlacesOf, Lies
<1>. QED BY <1>5

(* What this says of one of the words, with two quotes or none.            *)
PlaceOf(b, a, K, W, i, quotes) ==
  /\ a[i] = b[i] + Blank(i) /\ a[i] + Len(W[i]) <= Len(K)
  /\ Blank(i) = 1 => K[a[i]] = "sp"
  /\ b[i + 1] = a[i] + Len(W[i]) + quotes

LEMMA PlacesFacts ==
  ASSUME NEW s, NEW W, NEW n, NEW q, Pieces(s, W, n, q), NEW K, NEW a, NEW b,
         PlacesOf(b, a, K, s, n), NEW i \in 1 .. n
  PROVE  /\ i < n \/ ~q => PlainAt(K, W[i], a[i]) /\ PlaceOf(b, a, K, W, i, 0)
         /\ i = n /\ q => QuotedAt(K, W[i], a[i]) /\ PlaceOf(b, a, K, W, i, 2)
<1>1. /\ i < n \/ ~q => PlainKeys(s[i], W[i], Blank(i))
      /\ i = n /\ q => QuotedKeys(s[i], W[i], Blank(i))
      /\ n \in Nat /\ q \in BOOLEAN
  BY DEF Pieces
<1>2. /\ b[i] \in Nat /\ b[i + 1] \in Nat /\ a[i] = b[i] + Blank(i)
      /\ Blank(i) \in {0, 1} /\ Len(K) \in Nat
      /\ b[i + 1] = b[i] + Len(s[i]) /\ b[i + 1] <= Len(K)
      /\ \A j \in 1 .. Len(s[i]) : K[b[i] + j] = s[i][j]
  <2>1. n \in Nat /\ i + 1 \in 1 .. n + 1 /\ i \in 1 .. n + 1
    BY DEF Pieces
  <2>. QED BY <2>1 DEF PlacesOf, Blank
<1>3. PICK h \in {0, 1}, p \in Nat : h = Blank(i) /\ p = b[i]
  BY <1>2
<1>4. PICK t, w : t = s[i] /\ w = W[i]
  OBVIOUS
<1>5. /\ Shows(K, p, t) /\ a[i] = p + h /\ (h = 1 => a[i] = p + 1)
      /\ b[i + 1] = p + Len(t) /\ b[i + 1] <= Len(K) /\ Len(K) \in Nat
  BY <1>2, <1>3, <1>4 DEF Shows
<1>6. CASE i = n /\ q
  <2>1. QuotedKeys(t, w, h)
    BY <1>1, <1>3, <1>4, <1>6
  <2>2. Len(w) \in Nat /\ QuotedAt(K, w, p + h) /\ (h = 1 => K[p + 1] = "sp")
    BY <1>5, <2>1, QuotedLies
  <2>3. Len(t) = h + Len(w) + 2
    BY <2>1 DEF QuotedKeys
  <2>4. b[i + 1] = a[i] + Len(w) + 2 /\ a[i] + Len(w) <= Len(K)
    BY <1>5, <2>2, <2>3
  <2>5. PlaceOf(b, a, K, W, i, 2)
    BY <1>2, <1>3, <1>4, <1>5, <2>2, <2>4 DEF PlaceOf
  <2>. QED BY <1>1, <1>4, <1>5, <1>6, <2>2, <2>5
<1>7. CASE i < n \/ ~q
  <2>1. PlainKeys(t, w, h)
    BY <1>1, <1>3, <1>4, <1>7
  <2>2. Len(w) \in Nat /\ PlainAt(K, w, p + h) /\ (h = 1 => K[p + 1] = "sp")
    BY <1>5, <2>1, PlainLies
  <2>3. Len(t) = h + Len(w)
    BY <2>1 DEF PlainKeys
  <2>4. b[i + 1] = a[i] + Len(w) + 0 /\ a[i] + Len(w) <= Len(K)
    BY <1>5, <2>2, <2>3
  <2>5. PlaceOf(b, a, K, W, i, 0)
    BY <1>2, <1>3, <1>4, <1>5, <2>2, <2>4 DEF PlaceOf
  <2>. QED BY <1>1, <1>4, <1>5, <1>7, <2>2, <2>5
<1>. QED BY <1>1, <1>6, <1>7

(* So the pieces one after another lay the words out.                      *)
LEMMA PiecesLayOut ==
  ASSUME NEW s, NEW W, NEW n, NEW q, Pieces(s, W, n, q)
  PROVE  \E a : Layout(FlattenSeq(s), W, n, q, a)
<1>1. PICK K, b, a : K = FlattenSeq(s) /\ PlacesOf(b, a, K, s, n)
  BY PlacesExist
<1>2. n \in Nat \ {0} /\ q \in BOOLEAN /\ W \in Seq(Word) /\ Len(W) = n /\ n \in 1 .. n
  BY DEF Pieces
<1>3. Len(K) \in Nat /\ b[1] = 0 /\ b[n + 1] = Len(K)
  BY <1>1 DEF PlacesOf
<1>4. a \in [1 .. n -> Nat]
  BY <1>1 DEF PlacesOf
<1>5. \A i \in 1 .. n : Len(W[i]) \in Nat /\ a[i] \in Nat
  <2>1. \A i \in 1 .. n : W[i] \in Word /\ a[i] \in Nat
    BY <1>2, <1>4
  <2>. QED BY <2>1, LenProperties DEF Word
<1>6. ASSUME NEW i \in 1 .. n, i < n \/ ~q
      PROVE  PlainAt(K, W[i], a[i]) /\ PlaceOf(b, a, K, W, i, 0)
  BY <1>1, <1>6, PlacesFacts
<1>7. ASSUME NEW i \in 1 .. n, i = n, q
      PROVE  QuotedAt(K, W[i], a[i]) /\ PlaceOf(b, a, K, W, i, 2)
  BY <1>1, <1>7, PlacesFacts
<1>8. ASSUME NEW i \in 1 .. n
      PROVE  /\ a[i] = b[i] + Blank(i) /\ a[i] + Len(W[i]) <= Len(K)
             /\ Blank(i) = 1 => K[a[i]] = "sp"
  <2>1. CASE i < n \/ ~q
    BY <1>6, <2>1 DEF PlaceOf
  <2>2. CASE i = n /\ q
    BY <1>7, <2>2 DEF PlaceOf
  <2>. QED BY <1>2, <2>1, <2>2
<1>9. a[1] = 0
  <2>1. 1 \in 1 .. n /\ Blank(1) = 0
    BY <1>2 DEF Blank
  <2>. QED BY <1>3, <1>8, <2>1
<1>10. ASSUME NEW i \in 1 .. n - 1
       PROVE  /\ PlainAt(K, W[i], a[i]) /\ a[i + 1] = a[i] + Len(W[i]) + 1
              /\ K[a[i + 1]] = "sp"
  <2>1. i \in 1 .. n /\ i + 1 \in 1 .. n /\ i < n /\ i + 1 # 1
    BY <1>2
  <2>2. PlainAt(K, W[i], a[i]) /\ b[i + 1] = a[i] + Len(W[i]) + 0
    BY <1>6, <2>1 DEF PlaceOf
  <2>3. Blank(i + 1) = 1
    BY <2>1 DEF Blank
  <2>4. a[i + 1] = b[i + 1] + 1 /\ K[a[i + 1]] = "sp"
    BY <1>8, <2>1, <2>3
  <2>5. a[i + 1] = a[i] + Len(W[i]) + 1
    BY <1>5, <2>1, <2>2, <2>4
  <2>. QED BY <2>2, <2>4, <2>5
<1>11. ~q => PlainAt(K, W[n], a[n]) /\ Len(K) = a[n] + Len(W[n])
  <2> SUFFICES ASSUME ~q PROVE PlainAt(K, W[n], a[n]) /\ Len(K) = a[n] + Len(W[n])
    OBVIOUS
  <2>1. PlainAt(K, W[n], a[n]) /\ b[n + 1] = a[n] + Len(W[n]) + 0
    BY <1>2, <1>6 DEF PlaceOf
  <2>. QED BY <1>2, <1>3, <1>5, <2>1
<1>12. q => QuotedAt(K, W[n], a[n]) /\ Len(K) = a[n] + Len(W[n]) + 2
  <2> SUFFICES ASSUME q PROVE QuotedAt(K, W[n], a[n]) /\ Len(K) = a[n] + Len(W[n]) + 2
    OBVIOUS
  <2>1. QuotedAt(K, W[n], a[n]) /\ b[n + 1] = a[n] + Len(W[n]) + 2
    BY <1>2, <1>7 DEF PlaceOf
  <2>. QED BY <1>3, <2>1
<1>13. Layout(K, W, n, q, a)
  BY <1>2, <1>3, <1>4, <1>8, <1>9, <1>10, <1>11, <1>12 DEF Layout
<1>. QED BY <1>1, <1>13

(* The parts that Keys joins, with a blank before each but the first.      *)
Spread(t) == [i \in 1 .. Len(t) |-> IF i = 1 THEN t[i] ELSE <<"sp">> \o t[i]]

InParts(t, W, n, q) ==
  /\ n \in Nat \ {0} /\ q \in BOOLEAN /\ W \in Seq(Word) /\ Len(W) = n /\ Len(t) = n
  /\ \A i \in 1 .. n : i < n \/ ~q => PlainKeys(t[i], W[i], 0)
  /\ q => QuotedKeys(t[n], W[n], 0)

(* So spread they are the pieces of a command.                             *)
LEMMA PartsSpread ==
  ASSUME NEW t, NEW W, NEW n, NEW q, InParts(t, W, n, q)
  PROVE  Pieces(Spread(t), W, n, q)
<1>1. n \in Nat \ {0} /\ q \in BOOLEAN /\ W \in Seq(Word) /\ Len(W) = n /\ Len(t) = n
  BY DEF InParts
<1>2. Len(Spread(t)) = n
  BY <1>1 DEF Spread
<1>3. ASSUME NEW i \in 1 .. n
      PROVE  \/ i = 1 /\ Spread(t)[i] = t[i] /\ Blank(i) = 0
             \/ i # 1 /\ Spread(t)[i] = <<"sp">> \o t[i] /\ Blank(i) = 1
  BY <1>1 DEF Spread, Blank
<1>4. ASSUME NEW i \in 1 .. n, i < n \/ ~q PROVE PlainKeys(Spread(t)[i], W[i], Blank(i))
  <2>1. PlainKeys(t[i], W[i], 0)
    BY <1>4 DEF InParts
  <2>2. PlainKeys(<<"sp">> \o t[i], W[i], 1)
    BY <2>1, BlankThenPlain
  <2>. QED BY <1>3, <2>1, <2>2
<1>5. ASSUME q PROVE QuotedKeys(Spread(t)[n], W[n], Blank(n))
  <2>1. QuotedKeys(t[n], W[n], 0) /\ n \in 1 .. n
    BY <1>5 DEF InParts
  <2>2. QuotedKeys(<<"sp">> \o t[n], W[n], 1)
    BY <2>1, BlankThenQuoted
  <2>. QED BY <1>3, <2>1, <2>2
<1>. QED BY <1>1, <1>2, <1>4, <1>5 DEF Pieces

(* What can be typed is laid out so.                                       *)
LEMMA TypedLaidOut ==
  ASSUME NEW cmd \in Typable
  PROVE  \E n, q, a : Layout(Keys(cmd), Words(cmd), n, q, a)
<1>1. PICK k \in 0 .. MaxArgs : cmd.words \in [1 .. k -> Plain]
  BY DEF Typable, Command_Typed
<1>2. /\ cmd.quoted = {} \/ \E w \in InQuotes : cmd.quoted = {w}
      /\ Len(Words(cmd)) \in 1 .. MaxArgs
  BY DEF Typable, Command_Typed
<1>3. PICK p : p = cmd.words /\ p \in [1 .. k -> Plain]
  BY <1>1
<1>4. k \in Nat /\ p \in Seq(Word) /\ Len(p) = k /\ \A i \in 1 .. k : PlainKeys(p[i], p[i], 0)
  <2>1. k \in Nat
    BY ShellAssumption
  <2>2. \A i \in 1 .. k : p[i] \in Word /\ PlainKeys(p[i], p[i], 0)
    BY <1>3, PlainPiece
  <2>3. p \in [1 .. k -> Word]
    BY <1>3, <2>2
  <2>. QED BY <2>1, <2>2, <2>3
<1> DEFINE quotes == [i \in 1 .. Len(SetToSeq(cmd.quoted)) |->
                        <<"quote">> \o SetToSeq(cmd.quoted)[i] \o <<"quote">>]
<1>5. Keys(cmd) = FlattenSeq(Spread(p \o quotes))
  BY <1>3 DEF Keys, Spread
<1>6. CASE cmd.quoted = {}
  <2>1. quotes = <<>> /\ Words(cmd) = p \o <<>>
    BY <1>3, <1>6, NoneToSeq DEF Words
  <2>2. p \o <<>> = p
    BY <1>4
  <2>3. Words(cmd) = p /\ Keys(cmd) = FlattenSeq(Spread(p))
    <3> HIDE DEF quotes
    <3>. QED BY <1>5, <2>1, <2>2
  <2>4. k \in Nat \ {0}
    BY <1>2, <1>4, <2>3
  <2>5. PICK q \in BOOLEAN : ~q
    OBVIOUS
  <2>6. InParts(p, p, k, q)
    BY <1>4, <2>4, <2>5 DEF InParts
  <2>7. \E a : Layout(FlattenSeq(Spread(p)), p, k, q, a)
    BY <2>6, PartsSpread, PiecesLayOut
  <2>. QED BY <2>3, <2>7
<1>7. ASSUME NEW w \in InQuotes, cmd.quoted = {w}
      PROVE  \E n, q, a : Layout(Keys(cmd), Words(cmd), n, q, a)
  <2>1. PICK d : d = <<"quote">> \o w \o <<"quote">>
    OBVIOUS
  <2>2. w \in Word /\ QuotedKeys(d, w, 0)
    BY <2>1, QuotedPiece
  <2>3. SetToSeq(cmd.quoted) = <<w>>
    BY <1>7, OneToSeq
  <2>4. quotes = <<d>>
    BY <2>1, <2>3
  <2>5. Words(cmd) = p \o <<w>>
    BY <1>3, <2>3 DEF Words
  <2>6. Keys(cmd) = FlattenSeq(Spread(p \o <<d>>))
    <3> HIDE DEF quotes
    <3>. QED BY <1>5, <2>4
  <2>7. PICK W, t : W = p \o <<w>> /\ t = p \o <<d>>
    OBVIOUS
  <2>8. /\ W \in Seq(Word) /\ Len(W) = k + 1 /\ W[k + 1] = w
        /\ \A i \in 1 .. k : W[i] = p[i]
    <3>1. <<w>> \in Seq(Word) /\ Len(<<w>>) = 1 /\ <<w>>[1] = w
      BY <2>2
    <3>. QED BY <1>4, <2>7, <3>1, Joined
  <2>9. Len(t) = k + 1 /\ t[k + 1] = d /\ \A i \in 1 .. k : t[i] = p[i]
    <3>1. d \in Word
      BY <2>2 DEF QuotedKeys, Word
    <3>2. <<d>> \in Seq(Word) /\ Len(<<d>>) = 1 /\ <<d>>[1] = d
      BY <3>1
    <3>. QED BY <1>4, <2>7, <3>2, Joined
  <2>10. PICK q \in BOOLEAN : q
    OBVIOUS
  <2>11. InParts(t, W, k + 1, q)
    <3>1. k + 1 \in Nat \ {0} /\ \A i \in 1 .. k + 1 : i < k + 1 => i \in 1 .. k
      BY <1>4
    <3>. QED BY <1>4, <2>2, <2>8, <2>9, <2>10, <3>1 DEF InParts
  <2>12. \E a : Layout(FlattenSeq(Spread(t)), W, k + 1, q, a)
    BY <2>11, PartsSpread, PiecesLayOut
  <2>. QED BY <2>5, <2>6, <2>7, <2>12
<1>. QED BY <1>2, <1>6, <1>7

(* Every line that can be typed is executed as the words it shows.         *)
THEOREM ExecutesTypedCorrect == ShellSafe => []ExecutesTyped
<1>1. ShellTypeOK /\ Placing => ExecutesTyped
  <2> SUFFICES ASSUME ShellTypeOK, Placing, NEW x \in Char, Executes(x), ~torn,
                      NEW cmd \in Typable, line = Keys(cmd)
               PROVE  Args(x) = Words(cmd)
    BY DEF ExecutesTyped
  <2>1. PICK n, q, a : Layout(Keys(cmd), Words(cmd), n, q, a)
    BY TypedLaidOut
  <2>. QED BY <2>1, WordsExecuted
<1>. QED BY <1>1, ShellTypeCorrect, PlacingCorrect, PTL

-----------------------------------------------------------------------------
(* The receive ring.                                                       *)

(* The indices stay inside the ring wherever the handler interrupts the    *)
(* reader, but for the one that is not masked yet.                         *)
THEOREM RingTypeCorrect == RingSafe => []RingTypeOK
<1> USE RingAssumption DEF Slot
<1>1. Zero \in Byte
  BY DEF Zero
<1>2. RingInit => RingTypeOK
  <2> SUFFICES ASSUME RingInit PROVE RingTypeOK
    OBVIOUS
  <2>1. rbr \in {{}} \cup {{b} : b \in Byte} /\ flags \in SUBSET {"F_BREAK"}
    BY DEF RingInit
  <2>2. buf \in [Slot -> Byte] /\ head \in Slot /\ tail \in 0 .. Size /\ tail # Size /\ got \in Byte
    BY <1>1 DEF RingInit
  <2>. QED BY <2>1, <2>2 DEF RingInit, RingTypeOK
<1>3. RingTypeOK /\ [RingNext]_ringvars => RingTypeOK'
  <2> SUFFICES ASSUME RingTypeOK, [RingNext]_ringvars PROVE RingTypeOK'
    OBVIOUS
  <2> USE DEF RingTypeOK
  <2>1. CASE Enter
    BY <2>1 DEF Enter
  <2>2. CASE Serve
    <3>1. ASSUME NEW b \in rbr, Store(b) PROVE head' \in Slot /\ buf' \in [Slot -> Byte]
      BY <3>1 DEF Store, Mask
    <3>2. /\ rbr' = {} /\ brk' = FALSE /\ handler' = "served"
          /\ UNCHANGED <<tail, ipend, pc, got>>
      BY <2>2 DEF Serve
    <3>3. head' \in Slot /\ buf' \in [Slot -> Byte] /\ puts' \in {0, 1}
      BY <2>2, <3>1 DEF Serve
    <3>4. flags' \in SUBSET {"F_BREAK"} /\ imask' \in BOOLEAN
      BY <2>2 DEF Serve
    <3>. QED BY <3>2, <3>3, <3>4
  <2>3. CASE Rearm
    BY <2>3 DEF Rearm
  <2>4. CASE InitDrain
    BY <2>4 DEF InitDrain
  <2>5. CASE InitEnable
    BY <2>5 DEF InitEnable
  <2>6. CASE ReadTest
    BY <2>6 DEF ReadTest, hwvars
  <2>7. CASE ReadCopy
    BY <2>7 DEF ReadCopy, hwvars
  <2>8. CASE ReadMask
    BY <2>8 DEF ReadMask, hwvars, Mask
  <2>9. CASE Latch
    BY <2>9 DEF Latch
  <2>10. CASE ReceiveBreak
    BY <2>10 DEF ReceiveBreak
  <2>11. ASSUME NEW b \in Byte, ReceiveByte(b) PROVE RingTypeOK'
    BY <2>11 DEF ReceiveByte
  <2>12. CASE UNCHANGED ringvars
    BY <2>12 DEF ringvars
  <2>. QED
    BY <2>1, <2>2, <2>3, <2>4, <2>5, <2>6, <2>7, <2>8, <2>9, <2>10, <2>11, <2>12
       DEF RingNext, Handler, Program
<1>. QED BY <1>2, <1>3, PTL DEF RingSafe

-----------------------------------------------------------------------------
(* n slots of a ring m from index o on, as a sequence.                     *)

(* A slice of the ring is a sequence of its slots, and empty with no slots.*)
LEMMA SliceIsSeq ==
  ASSUME NEW m \in [Slot -> Byte], NEW o \in Slot, NEW n \in 0 .. Size
  PROVE  /\ Slice(m, o, n) \in Seq(Byte)
         /\ Len(Slice(m, o, n)) = n
         /\ \A k \in 1 .. n : Slice(m, o, n)[k] = m[Mask(o + k - 1)]
         /\ n = 0 <=> Slice(m, o, n) = <<>>
<1>1. \A k \in 1 .. n : Mask(o + k - 1) \in Slot
  BY RingAssumption DEF Mask, Slot
<1>2. Slice(m, o, n) \in [1 .. n -> Byte]
  BY <1>1 DEF Slice
<1>3. /\ Slice(m, o, n) \in Seq(Byte)
      /\ Len(Slice(m, o, n)) = n
      /\ \A k \in 1 .. n : Slice(m, o, n)[k] = m[Mask(o + k - 1)]
  BY <1>2 DEF Slice
<1>. QED BY <1>3, EmptySeq

(* The first slot is the head; the slots after it are the tail.            *)
LEMMA SliceGet ==
  ASSUME NEW m \in [Slot -> Byte], NEW o \in Slot, NEW n \in 1 .. Size
  PROVE  /\ Head(Slice(m, o, n)) = m[o]
         /\ Slice(m, Mask(o + 1), n - 1) = Tail(Slice(m, o, n))
<1> DEFINE s == Slice(m, o, n)
           t == Slice(m, Mask(o + 1), n - 1)
<1>1. Mask(o + 1) \in Slot /\ n - 1 \in 0 .. Size /\ Mask(o + 1 - 1) = o
  BY RingAssumption DEF Mask, Slot
<1>2. /\ s \in Seq(Byte) /\ Len(s) = n /\ s # <<>>
      /\ \A k \in 1 .. n : s[k] = m[Mask(o + k - 1)]
  BY SliceIsSeq, RingAssumption
<1>3. /\ t \in Seq(Byte) /\ Len(t) = n - 1
      /\ \A k \in 1 .. n - 1 : t[k] = m[Mask(Mask(o + 1) + k - 1)]
  BY SliceIsSeq, <1>1
<1>4. \A k \in 1 .. n - 1 : Mask(Mask(o + 1) + k - 1) = Mask(o + (k + 1) - 1)
  BY RingAssumption DEF Mask, Slot
<1> HIDE DEF s, t
<1>5. ASSUME NEW k \in 1 .. n - 1 PROVE t[k] = s[k + 1]
  <2>1. k + 1 \in 1 .. n
    BY RingAssumption
  <2>. QED BY <1>2, <1>3, <1>4, <2>1
<1>6. /\ Tail(s) \in Seq(Byte) /\ Len(Tail(s)) = n - 1
      /\ \A k \in 1 .. n - 1 : Tail(s)[k] = s[k + 1]
  BY <1>2, HeadTailProperties
<1>7. t = Tail(s)
  BY <1>3, <1>5, <1>6, SeqEqual
<1>8. s[1] = m[o]
  BY <1>1, <1>2
<1>. QED BY <1>2, <1>7, <1>8 DEF s, t

(* A byte stored behind the last slot is appended.                         *)
LEMMA SlicePut ==
  ASSUME NEW m \in [Slot -> Byte], NEW o \in Slot, NEW n \in 0 .. Size - 1, NEW b \in Byte
  PROVE  Slice([m EXCEPT ![Mask(o + n)] = b], o, n + 1) = Append(Slice(m, o, n), b)
<1> DEFINE m1 == [m EXCEPT ![Mask(o + n)] = b]
           s == Slice(m, o, n)
           t == Slice(m1, o, n + 1)
<1>1. Mask(o + n) \in Slot /\ m1 \in [Slot -> Byte] /\ n + 1 \in 0 .. Size
  BY RingAssumption DEF Mask, Slot
<1>2. /\ s \in Seq(Byte) /\ Len(s) = n
      /\ \A k \in 1 .. n : s[k] = m[Mask(o + k - 1)]
  BY SliceIsSeq, RingAssumption
<1>3. /\ t \in Seq(Byte) /\ Len(t) = n + 1
      /\ \A k \in 1 .. n + 1 : t[k] = m1[Mask(o + k - 1)]
  BY SliceIsSeq, <1>1, ZenonT(30)
<1>4. \A k \in 1 .. n : Mask(o + k - 1) \in Slot /\ Mask(o + k - 1) # Mask(o + n)
  BY RingAssumption DEF Mask, Slot
<1> HIDE DEF s, t
<1>5. \A k \in 1 .. n : t[k] = s[k]
  BY <1>2, <1>3, <1>4 DEF m1
<1>6. t[n + 1] = b
  <2>1. n + 1 \in 1 .. n + 1 /\ o + (n + 1) - 1 = o + n
    BY RingAssumption DEF Slot
  <2>. QED BY <1>1, <1>3, <2>1
<1>7. /\ Append(s, b) \in Seq(Byte) /\ Len(Append(s, b)) = n + 1
      /\ \A k \in 1 .. n : Append(s, b)[k] = s[k]
      /\ Append(s, b)[n + 1] = b
  BY <1>2, AppendProperties
<1>8. \A k \in 1 .. n + 1 : t[k] = Append(s, b)[k]
  BY <1>5, <1>6, <1>7
<1>9. t = Append(s, b)
  BY <1>3, <1>7, <1>8, SeqEqual
<1>. QED BY <1>9 DEF s, t

-----------------------------------------------------------------------------
(* Refinement of LossyQueue.                                               *)

(* What the indices say: the head is Count slots after the tail.           *)
LEMMA CountFacts ==
  ASSUME RingTypeOK
  PROVE  /\ Mask(tail) \in Slot /\ Count \in 0 .. Size
         /\ head = Mask(Mask(tail) + Count)
         /\ Count = Size => pc = "copy"
         /\ pc = "copy" => Count # 0 /\ Mask(tail) = tail
BY RingAssumption DEF RingTypeOK, Slot, Count, Mask

(* The bytes queued are as many as counted.                                *)
LEMMA QueuedFacts ==
  ASSUME RingTypeOK
  PROVE  /\ Queued \in Seq(Byte) /\ Len(Queued) = Count
         /\ Count = 0 <=> Queued = <<>>
BY CountFacts, SliceIsSeq DEF Queued, RingTypeOK

(* The handler stores a byte.                                              *)
LEMMA StoreImplements ==
  ASSUME RingTypeOK, RingTypeOK', NEW b \in Byte, Store(b), UNCHANGED <<tail, pc, got>>,
         puts' = 1 - puts
  PROVE  Abstract!Put(b)
<1> DEFINE o == Mask(tail)
           n == Count
<1>1. /\ o \in Slot /\ n \in 0 .. Size /\ head = Mask(o + n) /\ o' = o
      /\ buf' = [buf EXCEPT ![Mask(o + n)] = b]
  BY CountFacts DEF Store
<1>2. buf \in [Slot -> Byte] /\ buf' \in [Slot -> Byte]
  BY DEF RingTypeOK
<1>3. Queued = Slice(buf, o, n) /\ Len(Queued) = n /\ Queued' = Slice(buf', o, Count')
  BY QueuedFacts, <1>1 DEF Queued
<1> HIDE DEF o, n
<1>4. o \in Slot /\ buf \in [Slot -> Byte]
  BY <1>1, <1>2
<1>5. n \in 0 .. Size - 1 => Slice(buf', o, n + 1) = Append(Slice(buf, o, n), b)
  <2> SUFFICES ASSUME n \in 0 .. Size - 1
               PROVE  Slice(buf', o, n + 1) = Append(Slice(buf, o, n), b)
    OBVIOUS
  <2>1. Slice([buf EXCEPT ![Mask(o + n)] = b], o, n + 1) = Append(Slice(buf, o, n), b)
    BY <1>4, SlicePut
  <2>. QED BY <2>1, <1>1
<1>6. Slice(buf', o, 0) = <<>> /\ Slice(buf, o, 0) = <<>>
  <2>1. 0 \in 0 .. Size
    BY RingAssumption
  <2>. QED BY <1>2, <1>4, <2>1, SliceIsSeq
<1>7. CASE n < Size - 1
  <2>1. Count' = n + 1 /\ n \in 0 .. Size - 1
    BY <1>1, <1>7, RingAssumption DEF Store, Count, Mask, RingTypeOK, Slot, n
  <2>2. Slice(buf', o, n + 1) = Append(Slice(buf, o, n), b)
    BY <2>1, <1>5
  <2>3. Queued' = Append(Queued, b)
    BY <2>1, <2>2, <1>1, <1>3
  <2>. QED BY <2>3, <1>3, <1>7 DEF Abstract!Put
<1>8. CASE n = Size - 1
  <2>1. (Count' = IF pc = "copy" THEN Size ELSE 0) /\ n \in 0 .. Size - 1
    BY <1>8, RingAssumption DEF Store, Count, Mask, RingTypeOK, Slot, n
  <2>2. Slice(buf', o, n + 1) = Append(Slice(buf, o, n), b)
    BY <2>1, <1>5
  <2>3. Queued' \in {<<>>, Append(Queued, b)}
    <3>1. CASE pc = "copy"
      <4>1. Count' = n + 1
        BY <2>1, <3>1, <1>8, RingAssumption
      <4>. QED BY <4>1, <2>2, <1>1, <1>3
    <3>2. CASE pc # "copy"
      BY <2>1, <3>2, <1>3, <1>6
    <3>. QED BY <3>1, <3>2
  <2>. QED BY <2>3, <1>3, <1>8 DEF Abstract!Put
<1>9. CASE n = Size
  <2>1. Count' = 1 /\ Mask(o + n) = o
    BY <1>9, RingAssumption DEF Store, Count, Mask, RingTypeOK, Slot, o, n
  <2>2. Mask(o + 0) = o /\ 0 \in 0 .. Size - 1 /\ 0 + 1 = 1
    BY <1>1, RingAssumption DEF Mask, Slot
  <2>3. Slice([buf EXCEPT ![Mask(o + 0)] = b], o, 0 + 1) = Append(Slice(buf, o, 0), b)
    BY <1>4, <2>2, SlicePut
  <2>4. Slice(buf', o, 1) = Append(<<>>, b)
    BY <2>1, <2>2, <2>3, <1>1, <1>6
  <2>5. Queued' = <<b>>
    BY <2>1, <2>4, <1>3
  <2>. QED BY <2>5, <1>3, <1>9 DEF Abstract!Put
<1>. QED BY <1>1, <1>7, <1>8, <1>9, RingAssumption

(* The reader copies the byte at its index.                                *)
LEMMA CopyImplements ==
  ASSUME RingTypeOK, RingTypeOK', ReadCopy
  PROVE  Abstract!Get
<1>1. /\ tail \in Slot /\ Mask(tail) = tail /\ Count \in 1 .. Size /\ buf \in [Slot -> Byte]
      /\ buf' = buf /\ got' = buf[tail] /\ puts' = puts
  BY CountFacts DEF ReadCopy, RingTypeOK
<1>2. Count' = Count - 1 /\ Mask(tail') = Mask(tail + 1)
  BY RingAssumption DEF ReadCopy, Count, Mask, RingTypeOK, Slot
<1>3. /\ Head(Slice(buf, tail, Count)) = buf[tail]
      /\ Slice(buf, Mask(tail + 1), Count - 1) = Tail(Slice(buf, tail, Count))
  BY <1>1, SliceGet
<1>4. Queued # <<>>
  BY <1>1, QueuedFacts
<1>5. Queued = Slice(buf, tail, Count) /\ Queued' = Slice(buf, Mask(tail + 1), Count - 1)
  BY <1>1, <1>2 DEF Queued
<1>. QED BY <1>1, <1>3, <1>4, <1>5 DEF Abstract!Get

(* The ring implements the lossy queue.                                    *)
THEOREM RingRefinement == RingSafe => RingImplements
<1>1. RingInit => Abstract!Init
  <2> SUFFICES ASSUME RingInit PROVE Abstract!Init
    OBVIOUS
  <2>0. Zero \in Byte
    BY RingAssumption DEF Zero
  <2>1. buf \in [Slot -> Byte] /\ Mask(tail) \in Slot /\ Count = 0
    BY <2>0, RingAssumption DEF RingInit, Slot, Mask, Count
  <2>2. Queued = <<>>
    BY <2>1, SliceIsSeq, RingAssumption DEF Queued
  <2>. QED BY <2>0, <2>2 DEF RingInit, Abstract!Init
<1>2. RingTypeOK /\ RingTypeOK' /\ [RingNext]_ringvars
        => [Abstract!Next]_<<Queued, got, puts>>
  <2> SUFFICES ASSUME RingTypeOK, RingTypeOK', [RingNext]_ringvars
               PROVE  Abstract!Next \/ UNCHANGED <<Queued, got, puts>>
    OBVIOUS
  <2>1. CASE Serve
    <3>1. ASSUME NEW b \in rbr, Store(b), puts' = 1 - puts
          PROVE  Abstract!Next
      <4>1. b \in Byte /\ UNCHANGED <<tail, pc, got>>
        BY <2>1 DEF Serve, RingTypeOK
      <4>. QED BY <4>1, <3>1, StoreImplements DEF Abstract!Next
    <3>2. ASSUME UNCHANGED <<buf, head, puts>>
          PROVE  UNCHANGED <<Queued, got, puts>>
      BY <3>2, <2>1 DEF Serve, Queued, Count
    <3>. QED BY <2>1, <3>1, <3>2 DEF Serve
  <2>2. CASE ReadCopy
    BY <2>2, CopyImplements DEF Abstract!Next
  <2>3. CASE InitDrain
    <3>1. Count' = 0 /\ Mask(tail') = 0 /\ UNCHANGED <<got, puts>>
      BY <2>3, RingAssumption DEF InitDrain, Count, Mask
    <3>2. Queued' = Slice(buf', 0, 0) /\ buf' \in [Slot -> Byte]
      BY <3>1 DEF Queued, RingTypeOK
    <3>3. Queued' = <<>>
      BY <3>2, SliceIsSeq, RingAssumption DEF Slot
    <3>. QED BY <3>1, <3>3 DEF Abstract!Next, Abstract!Clear
  <2>4. CASE ReadTest
    BY <2>4 DEF ReadTest, Queued, Count
  <2>5. CASE ReadMask
    BY <2>5, RingAssumption DEF ReadMask, Queued, Count, Mask, RingTypeOK, Slot
  <2>6. CASE InitEnable
    BY <2>6 DEF InitEnable, Queued, Count
  <2>7. CASE Enter \/ Rearm \/ Latch \/ ReceiveBreak \/ UNCHANGED ringvars
    BY <2>7 DEF Enter, Rearm, Latch, ReceiveBreak, ringvars, Queued, Count
  <2>8. ASSUME NEW b \in Byte, ReceiveByte(b) PROVE UNCHANGED <<Queued, got, puts>>
    BY <2>8 DEF ReceiveByte, Queued, Count
  <2>. QED
    BY <2>1, <2>2, <2>3, <2>4, <2>5, <2>6, <2>7, <2>8 DEF RingNext, Handler, Program
<1>. QED
  BY <1>1, <1>2, RingTypeCorrect, PTL
     DEF RingSafe, RingImplements, Abstract!Spec

-----------------------------------------------------------------------------
(* The two builds: what the shell and the ring guarantee, the console does.*)
LEMMA BuildsAreParts == Spec => ShellSafe /\ RingSafe
<1>1. Init => ShellInit /\ RingInit
  BY DEF Init
<1>2. [Next]_consolevars => [ShellNext]_shellvars /\ [RingNext]_ringvars
  BY DEF Next, consolevars
<1>. QED BY <1>1, <1>2, PTL DEF Spec, ShellSafe, RingSafe

(* In either build the buffers keep their bounds, a command has words of   *)
(* its own unless the line explains why not and just the words typed if it *)
(* can, ESC begins a new word, and the ring hands over the bytes the       *)
(* handler stored.                                                         *)
THEOREM ConsoleCorrect ==
  Spec => /\ [](ShellTypeOK /\ RingTypeOK)
          /\ []NoStaleCommand /\ []ExecutesTyped /\ EscFresh /\ RingImplements
BY BuildsAreParts, ShellTypeCorrect, RingTypeCorrect, NoStaleCommandCorrect,
   ExecutesTypedCorrect, EscFreshCorrect, RingRefinement, PTL
=============================================================================
