-------------------------- MODULE FifoBufferProofs --------------------------
EXTENDS FifoBuffer, SequenceTheorems, TLAPS

-----------------------------------------------------------------------------
(* Type correctness and the pointer/state agreement.                       *)

(* A clock edge keeps the pointers inside the RAM and the FSM in its four  *)
(* states, whether its reader keeps the contract or not.                   *)
LEMMA TypeStep ==
  ASSUME TypeOK, NEW wren \in BOOLEAN, NEW idata \in Data, NEW rden \in BOOLEAN,
         Clock(wren, idata, rden) \/ Reset(wren, idata)
  PROVE  TypeOK'
<1> USE DepthAssumption, DataAssumption DEF TypeOK, Addr, State
<1>1. CASE Clock(wren, idata, rden)
  BY <1>1 DEF Clock, Count, Fsm, Ram, Succ
<1>2. CASE Reset(wren, idata)
  BY <1>2 DEF Reset, Ram
<1>. QED BY <1>1, <1>2

(* The pointers stay inside the RAM and the FSM in its four states, for    *)
(* every depth and every word.                                             *)
THEOREM TypeCorrect == Spec => []TypeOK
<1>1. Init => TypeOK
  BY DepthAssumption, DataAssumption DEF Init, TypeOK, Addr, State
<1>2. TypeOK /\ [Next]_vars => TypeOK'
  <2> SUFFICES ASSUME TypeOK, [Next]_vars PROVE TypeOK'
    OBVIOUS
  <2>1. CASE Next
    <3>1. PICK wren \in BOOLEAN, idata \in Data :
            \/ \E rden \in BOOLEAN : Clock(wren, idata, rden)
            \/ Reset(wren, idata)
      BY <2>1 DEF Next
    <3>. QED BY <3>1, TypeStep
  <2>2. CASE UNCHANGED vars
    BY <2>2 DEF vars, TypeOK
  <2>. QED BY <2>1, <2>2
<1>. QED BY <1>1, <1>2, PTL DEF Spec

(* A clock edge keeps pointers and FSM in agreement if only words that are *)
(* there are read.                                                         *)
LEMMA PtrStateStep ==
  ASSUME TypeOK, PtrState,
         NEW wren \in BOOLEAN, NEW idata \in Data, NEW rden \in BOOLEAN,
         \/ (rden => dready) /\ Clock(wren, idata, rden)
         \/ Reset(wren, idata)
  PROVE  PtrState'
<1> USE DepthAssumption DEF PtrState
<1>1. CASE (rden => dready) /\ Clock(wren, idata, rden)
  BY <1>1 DEF Clock, Count, Fsm, Succ, maybe_full, maybe_empty, dready, TypeOK, Addr
<1>2. CASE Reset(wren, idata)
  BY <1>2 DEF Reset
<1>. QED BY <1>1, <1>2

(* The FSM state tells an empty from a full FIFO, in every reachable state.*)
THEOREM PtrStateCorrect == Spec => []PtrState
<1>1. Init => PtrState
  BY DEF Init, PtrState
<1>2. TypeOK /\ PtrState /\ [Next]_vars => PtrState'
  <2> SUFFICES ASSUME TypeOK, PtrState, [Next]_vars PROVE PtrState'
    OBVIOUS
  <2>1. CASE Next
    <3>1. PICK wren \in BOOLEAN, idata \in Data :
            \/ \E rden \in BOOLEAN : (rden => dready) /\ Clock(wren, idata, rden)
            \/ Reset(wren, idata)
      BY <2>1 DEF Next
    <3>. QED BY <3>1, PtrStateStep
  <2>2. CASE UNCHANGED vars
    BY <2>2 DEF vars, PtrState
  <2>. QED BY <2>1, <2>2
<1>. QED BY <1>1, <1>2, TypeCorrect, PTL DEF Spec

(* An unpopped word is on odata one clock later, whatever is written at    *)
(* the same edge: the read/write race of the RAM only ever hits the slot   *)
(* at optr when there is no word there or the word is being popped.        *)
THEOREM HeadShownCorrect == Spec => HeadShown
<1> USE DepthAssumption
<1>1. TypeOK /\ PtrState /\ [Next]_vars
        => [dready /\ dready' /\ optr' = optr => rdata' = mem'[optr']]_vars
  <2> SUFFICES ASSUME TypeOK, PtrState, Next, dready, dready', optr' = optr
               PROVE  rdata' = mem'[optr']
    BY DEF vars
  <2>1. ASSUME NEW wren \in BOOLEAN, NEW idata \in Data, NEW rden \in BOOLEAN,
               Clock(wren, idata, rden)
        PROVE  rdata' = mem'[optr']
    BY <2>1 DEF Clock, Count, Fsm, Ram, Succ, dready, TypeOK, PtrState, Addr
  <2>2. ASSUME NEW wren \in BOOLEAN, NEW idata \in Data, Reset(wren, idata)
        PROVE  FALSE
    BY <2>2 DEF Reset, dready
  <2>. QED BY <2>1, <2>2 DEF Next
<1>. QED BY <1>1, TypeCorrect, PtrStateCorrect, PTL DEF Spec, HeadShown

-----------------------------------------------------------------------------
(* The n words of a RAM m from address o on, as a sequence.                *)

(* A slice of the memory is a sequence of its words, in the order of reads.*)
LEMMA SliceIsSeq ==
  ASSUME NEW m \in [Addr -> Data], NEW o \in Addr, NEW n \in 0 .. Depth
  PROVE  /\ Slice(m, o, n) \in Seq(Data)
         /\ Len(Slice(m, o, n)) = n
         /\ \A k \in 1 .. n : Slice(m, o, n)[k] = m[Wrap(o + k - 1)]
<1>1. \A k \in 1 .. n : Wrap(o + k - 1) \in Addr
  BY DepthAssumption DEF Wrap, Addr
<1>2. Slice(m, o, n) \in [1 .. n -> Data]
  BY <1>1 DEF Slice
<1>. QED BY <1>2 DEF Slice

(* The first word of a slice is the one at its start.                      *)
LEMMA SliceHead ==
  ASSUME NEW m \in [Addr -> Data], NEW o \in Addr, NEW n \in 1 .. Depth
  PROVE  /\ Slice(m, o, n) # <<>>
         /\ Head(Slice(m, o, n)) = m[o]
<1>1. Slice(m, o, n) # <<>>
  BY SliceIsSeq, DepthAssumption
<1>2. Slice(m, o, n)[1] = m[Wrap(o + 1 - 1)] /\ Wrap(o + 1 - 1) = o
  BY SliceIsSeq, DepthAssumption DEF Wrap, Addr
<1>. QED BY <1>1, <1>2, SliceIsSeq, DepthAssumption

(* Moving the read pointer takes the first word off the slice.             *)
LEMMA SliceTail ==
  ASSUME NEW m \in [Addr -> Data], NEW o \in Addr, NEW n \in 1 .. Depth
  PROVE  Slice(m, Succ(o), n - 1) = Tail(Slice(m, o, n))
<1> DEFINE s == Slice(m, o, n)
           t == Slice(m, Succ(o), n - 1)
<1>1. Succ(o) \in Addr /\ n - 1 \in 0 .. Depth
  BY DepthAssumption DEF Succ, Addr
<1>2. /\ s \in Seq(Data) /\ Len(s) = n
      /\ \A k \in 1 .. n : s[k] = m[Wrap(o + k - 1)]
  BY SliceIsSeq, DepthAssumption
<1>3. /\ t \in Seq(Data) /\ Len(t) = n - 1
      /\ \A k \in 1 .. n - 1 : t[k] = m[Wrap(Succ(o) + k - 1)]
  BY SliceIsSeq, <1>1
<1>4. \A k \in 1 .. n - 1 : Wrap(Succ(o) + k - 1) = Wrap(o + (k + 1) - 1)
  BY DepthAssumption DEF Succ, Wrap, Addr
<1> HIDE DEF s, t
<1>5. \A k \in 1 .. n - 1 : t[k] = s[k + 1]
  BY <1>2, <1>3, <1>4
<1>6. s # <<>>
  BY <1>2
<1>7. /\ Tail(s) \in Seq(Data) /\ Len(Tail(s)) = n - 1
      /\ \A k \in 1 .. n - 1 : Tail(s)[k] = s[k + 1]
  BY <1>2, <1>6, HeadTailProperties
<1>8. t = Tail(s)
  BY <1>3, <1>5, <1>7, SeqEqual
<1>. QED BY <1>8 DEF s, t

(* Writing the word after a slice and moving the write pointer appends it. *)
LEMMA SliceAppend ==
  ASSUME NEW m \in [Addr -> Data], NEW o \in Addr, NEW n \in 0 .. Depth - 1,
         NEW d \in Data
  PROVE  Slice([m EXCEPT ![Wrap(o + n)] = d], o, n + 1) = Append(Slice(m, o, n), d)
<1> DEFINE m1 == [m EXCEPT ![Wrap(o + n)] = d]
           s == Slice(m, o, n)
           t == Slice(m1, o, n + 1)
<1>1. Wrap(o + n) \in Addr /\ m1 \in [Addr -> Data] /\ n + 1 \in 0 .. Depth
  BY DepthAssumption DEF Wrap, Addr
<1>2. /\ s \in Seq(Data) /\ Len(s) = n
      /\ \A k \in 1 .. n : s[k] = m[Wrap(o + k - 1)]
  BY SliceIsSeq, DepthAssumption
<1>3. /\ t \in Seq(Data) /\ Len(t) = n + 1
      /\ \A k \in 1 .. n + 1 : t[k] = m1[Wrap(o + k - 1)]
  BY SliceIsSeq, <1>1
<1>4. \A k \in 1 .. n : Wrap(o + k - 1) \in Addr /\ Wrap(o + k - 1) # Wrap(o + n)
  BY DepthAssumption DEF Wrap, Addr
<1> HIDE DEF s, t
<1>5. \A k \in 1 .. n : t[k] = s[k]
  BY <1>2, <1>3, <1>4 DEF m1
<1>6. t[n + 1] = d
  <2>1. n + 1 \in 1 .. n + 1 /\ o + (n + 1) - 1 = o + n
    BY DepthAssumption DEF Addr
  <2>. QED BY <1>1, <1>3, <2>1
<1>7. /\ Append(s, d) \in Seq(Data) /\ Len(Append(s, d)) = n + 1
      /\ \A k \in 1 .. n : Append(s, d)[k] = s[k]
      /\ Append(s, d)[n + 1] = d
  BY <1>2, AppendProperties
<1>8. \A k \in 1 .. n + 1 : t[k] = Append(s, d)[k]
  BY <1>5, <1>6, <1>7
<1>9. t = Append(s, d)
  BY <1>3, <1>7, <1>8, SeqEqual
<1>. QED BY <1>9 DEF s, t

-----------------------------------------------------------------------------
(* Refinement of FifoQueue.                                                *)

(* Fill agrees with the FSM, and the write pointer is Fill words ahead of  *)
(* the read pointer.                                                       *)
LEMMA FillFacts ==
  ASSUME TypeOK, PtrState
  PROVE  /\ Fill \in 0 .. Depth
         /\ dready <=> Fill # 0
         /\ state = "S_FULL" <=> Fill = Depth
         /\ state # "S_ERROR" => iptr = Wrap(optr + Fill)
         /\ state = "S_READY" => (maybe_full <=> Fill = Depth - 1)
         /\ state = "S_READY" => (maybe_empty <=> Fill = 1)
BY DepthAssumption DEF Fill, Wrap, Succ, dready, maybe_full, maybe_empty,
                       TypeOK, PtrState, Addr, State

(* The queue the state stands for.                                         *)
LEMMA QueueFacts ==
  ASSUME TypeOK, PtrState
  PROVE  /\ Contents \in Seq(Data)
         /\ Len(Contents) = Fill
         /\ Contents = <<>> <=> ~dready
         /\ dready => Head(Contents) = mem[optr]
         /\ dready => Slice(mem, Succ(optr), Fill - 1) = Tail(Contents)
<1>1. mem \in [Addr -> Data] /\ optr \in Addr
  BY DEF TypeOK
<1>2. Contents \in Seq(Data) /\ Len(Contents) = Fill
  BY <1>1, FillFacts, SliceIsSeq DEF Contents
<1>3. Contents = <<>> <=> ~dready
  BY <1>2, FillFacts, EmptySeq
<1>4. ASSUME dready
      PROVE  /\ Head(Contents) = mem[optr]
             /\ Slice(mem, Succ(optr), Fill - 1) = Tail(Contents)
  <2>1. Fill \in 1 .. Depth
    BY <1>4, FillFacts, DepthAssumption
  <2>. QED BY <1>1, <2>1, SliceHead, SliceTail DEF Contents
<1>. QED BY <1>2, <1>3, <1>4

(* A clock edge that does not overrun takes a word from the front, adds one*)
(* at the back, or both.                                                   *)
LEMMA ClockContents ==
  ASSUME TypeOK, PtrState, TypeOK', PtrState',
         NEW wren \in BOOLEAN, NEW idata \in Data, NEW rden \in BOOLEAN,
         rden => dready, Clock(wren, idata, rden),
         state # "S_ERROR", ~(state = "S_FULL" /\ wren /\ ~rden)
  PROVE  /\ ~over /\ ~over'
         /\ ~wren /\ ~rden => Contents' = Contents
         /\ wren /\ ~rden => Contents' = Append(Contents, idata)
         /\ ~wren /\ rden => Contents' = Tail(Contents)
         /\ wren /\ rden => Contents' = Append(Tail(Contents), idata)
<1> USE DepthAssumption
<1> DEFINE q == Contents
           n == Fill
<1>1. /\ q \in Seq(Data)
      /\ Len(q) = n
      /\ q = <<>> <=> ~dready
      /\ dready => Head(q) = mem[optr]
      /\ dready => Slice(mem, Succ(optr), n - 1) = Tail(q)
  BY QueueFacts
<1>2. /\ n \in 0 .. Depth
      /\ dready <=> n # 0
      /\ state = "S_FULL" <=> n = Depth
      /\ state # "S_ERROR" => iptr = Wrap(optr + n)
  BY FillFacts
<1>3. Contents' = Slice(mem', optr', Fill')
  BY DEF Contents
<1>4. mem \in [Addr -> Data] /\ optr \in Addr /\ Succ(optr) \in Addr
  BY DEF TypeOK, Succ, Addr
<1>5. /\ Fill' = IF wren = rden THEN n ELSE IF wren THEN n + 1 ELSE n - 1
      /\ ~over /\ ~over'
  BY DEF Fill, Clock, Count, Fsm, Succ, maybe_full, maybe_empty, dready, over,
         TypeOK, PtrState, Addr, State
<1>6. /\ mem' = IF wren THEN [mem EXCEPT ![iptr] = idata] ELSE mem
      /\ optr' = IF rden THEN Succ(optr) ELSE optr
  BY DEF Clock, Count, Ram
<1> HIDE DEF q, n
<1>7. CASE ~wren /\ ~rden
  <2>1. Contents' = Contents
    BY <1>3, <1>5, <1>6, <1>7 DEF n, Contents
  <2>. QED BY <1>5, <1>7, <2>1
<1>8. CASE wren /\ ~rden
  <2>1. Contents' = Append(Contents, idata)
    <3>1. n \in 0 .. Depth - 1
      BY <1>2, <1>8
    <3>2. Slice([mem EXCEPT ![Wrap(optr + n)] = idata], optr, n + 1)
            = Append(Slice(mem, optr, n), idata)
      BY <3>1, <1>4, SliceAppend
    <3>. QED BY <3>2, <1>2, <1>3, <1>5, <1>6, <1>8 DEF n, Contents
  <2>. QED BY <1>5, <1>8, <2>1
<1>9. CASE ~wren /\ rden
  <2>1. Contents' = Tail(Contents)
    BY <1>1, <1>3, <1>5, <1>6, <1>9 DEF n, q
  <2>. QED BY <1>5, <1>9, <2>1
<1>10. CASE wren /\ rden
  <2>1. Contents' = Append(Tail(Contents), idata)
    <3>1. n - 1 \in 0 .. Depth - 1
      BY <1>2, <1>10
    <3>2. Wrap(Succ(optr) + (n - 1)) = iptr
      BY <1>2, <3>1 DEF Wrap, Succ, TypeOK, Addr
    <3>3. Slice([mem EXCEPT ![Wrap(Succ(optr) + (n - 1))] = idata], Succ(optr), (n - 1) + 1)
            = Append(Slice(mem, Succ(optr), n - 1), idata)
      BY <3>1, <1>4, SliceAppend
    <3>4. (n - 1) + 1 = n
      BY <1>2
    <3>. QED BY <3>2, <3>3, <3>4, <1>1, <1>3, <1>5, <1>6, <1>10 DEF n, q
  <2>. QED BY <1>5, <1>10, <2>1
<1>. QED BY <1>7, <1>8, <1>9, <1>10

(* The word on odata after a clock edge is the first there was before it,  *)
(* unless the slot it is in was free or is being written again.            *)
LEMMA ClockShows ==
  ASSUME TypeOK, PtrState, NEW wren, NEW idata \in Data, NEW rden,
         dready, ~(wren /\ state = "S_FULL"), Clock(wren, idata, rden)
  PROVE  rdata' = Head(Contents)
<1>1. wren => optr # iptr
  BY DEF PtrState, dready
<1>2. rdata' = mem[optr]
  BY <1>1 DEF Clock, Ram
<1>. QED BY <1>2, QueueFacts

(* Every clock edge is a step of the queue.                                *)
LEMMA ClockImplements ==
  ASSUME TypeOK, PtrState, TypeOK', PtrState',
         NEW wren \in BOOLEAN, NEW idata \in Data, NEW rden \in BOOLEAN,
         rden => dready, Clock(wren, idata, rden)
  PROVE  Queue!Next
<1>1. /\ Contents = <<>> <=> ~dready
      /\ Len(Contents) = Fill
      /\ dready => Head(Contents) = mem[optr]
  BY QueueFacts
<1>2. Queue!Full <=> state = "S_FULL"
  BY <1>1, FillFacts DEF Queue!Full
<1>3. /\ rdata' \in Data
      /\ dready /\ ~(wren /\ state = "S_FULL") => rdata' \in Queue!Show
      /\ ~dready => rdata' \in Queue!Show
  BY <1>1, ClockShows DEF Queue!Show, TypeOK
<1>4. \A m \in [Addr -> Data], o \in Addr : Slice(m, o, 0) = <<>>
  BY SliceIsSeq, EmptySeq, DepthAssumption
<1>5. CASE state = "S_ERROR"
  <2>1. Fill = 0 /\ Fill' = 0 /\ over /\ over'
    BY <1>5 DEF Fill, Clock, Fsm, over
  <2>2. Contents = <<>> /\ Contents' = <<>>
    BY <2>1, <1>4 DEF Contents, TypeOK
  <2>3. Queue!Failed
    BY <2>1, <2>2, <1>3 DEF Queue!Failed
  <2>. QED BY <2>3 DEF Queue!Next
<1>6. CASE state = "S_FULL" /\ wren /\ ~rden
  <2>1. Fill' = 0 /\ ~over /\ over'
    BY <1>6 DEF Fill, Clock, Fsm, over
  <2>2. Contents' = <<>>
    BY <2>1, <1>4 DEF Contents, TypeOK
  <2>3. Queue!Overrun
    BY <2>1, <2>2, <1>2, <1>3, <1>6 DEF Queue!Overrun
  <2>. QED BY <2>3 DEF Queue!Next
<1>7. CASE state # "S_ERROR" /\ ~(state = "S_FULL" /\ wren /\ ~rden)
  <2>1. /\ ~over /\ ~over'
        /\ ~wren /\ ~rden => Contents' = Contents
        /\ wren /\ ~rden => Contents' = Append(Contents, idata)
        /\ ~wren /\ rden => Contents' = Tail(Contents)
        /\ wren /\ rden => Contents' = Append(Tail(Contents), idata)
    BY <1>7, ClockContents
  <2>2. CASE ~wren /\ ~rden
    BY <2>1, <2>2, <1>3 DEF Queue!Idle, Queue!Next, over
  <2>3. CASE wren /\ ~rden
    <3>1. Queue!Put(idata)
      BY <2>1, <2>3, <1>2, <1>3, <1>7 DEF Queue!Put, over
    <3>. QED BY <3>1 DEF Queue!Next
  <2>4. CASE ~wren /\ rden
    BY <2>1, <2>4, <1>1, <1>3 DEF Queue!Get, Queue!Next, over
  <2>5. CASE wren /\ rden
    <3>1. Queue!Exchange(idata)
      BY <2>1, <2>5, <1>1, <1>2, <1>3 DEF Queue!Exchange, over
    <3>. QED BY <3>1 DEF Queue!Next
  <2>. QED BY <2>2, <2>3, <2>4, <2>5
<1>. QED BY <1>5, <1>6, <1>7

(* The FIFO implements the bounded queue: words leave in the order they    *)
(* were written, none is lost or duplicated, until an overrun.             *)
THEOREM Refinement == Spec => ImplementsQueue
<1> USE DepthAssumption
<1>1. Init => Queue!Init
  <2> SUFFICES ASSUME Init PROVE Queue!Init
    OBVIOUS
  <2>1. Contents = Slice(mem, optr, 0) /\ optr \in Addr /\ mem \in [Addr -> Data]
    BY DEF Init, Contents, Fill, Addr
  <2>2. Contents = <<>>
    BY <2>1, SliceIsSeq, EmptySeq
  <2>. QED BY <2>2 DEF Init, Queue!Init, over
<1>2. TypeOK /\ PtrState /\ TypeOK' /\ PtrState' /\ [Next]_vars
        => [Queue!Next]_(Queue!qvars)
  <2> SUFFICES ASSUME TypeOK, PtrState, TypeOK', PtrState', [Next]_vars
               PROVE  [Queue!Next]_(Queue!qvars)
    OBVIOUS
  <2>1. ASSUME NEW wren \in BOOLEAN, NEW idata \in Data, NEW rden \in BOOLEAN,
               rden => dready, Clock(wren, idata, rden)
        PROVE  Queue!Next
    BY <2>1, ClockImplements
  <2>2. ASSUME NEW wren \in BOOLEAN, NEW idata \in Data, Reset(wren, idata)
        PROVE  Queue!Next
    <3>1. Contents' = Slice(mem', optr', 0) /\ ~over'
      BY <2>2 DEF Reset, Contents, Fill, over
    <3>2. Contents' = <<>>
      BY <3>1, SliceIsSeq, EmptySeq DEF TypeOK
    <3>. QED BY <3>1, <3>2 DEF Queue!Next, Queue!Reset, TypeOK
  <2>3. CASE UNCHANGED vars
    BY <2>3 DEF vars, Queue!qvars, Contents, Fill, over
  <2>. QED BY <2>1, <2>2, <2>3 DEF Next
<1>. QED BY <1>1, <1>2, TypeCorrect, PtrStateCorrect, PTL DEF Spec, ImplementsQueue, Queue!Spec

=============================================================================
