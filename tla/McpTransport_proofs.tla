------------------------- MODULE McpTransport_proofs -------------------------
(***************************************************************************)
(* Proofs about McpTransport, for any number of lines and permits and any  *)
(* room in the pipes and in the error queue.                               *)
(*                                                                         *)
(* The argument is about where a line is.  The client numbers its lines,   *)
(* so those in a pipe are increasing and the one input holds is the last   *)
(* that was taken.  A call is therefore in the stream to the service or    *)
(* with a handler, never both; a bad line is with input, in the error      *)
(* queue, with output or answered, and so is lost only with a failure; and *)
(* the pieces on standard output, with those still on their way to it, are *)
(* those the handlers have written, in order.                              *)
(***************************************************************************)
EXTENDS McpTransport, FiniteSetTheorems, WellFoundedInduction, SequenceTheorems, TLAPS

USE DEF client, gate, InputOver, OutputOver, Idle

(* The lines input has taken from the pipe. *)
Taken == Len(sent) - Len(stdin)

(* The lines are numbered, and input holds the last one it took. *)
NumbersOK ==
    /\ Len(stdin) <= Len(sent)
    /\ \A k \in 1 .. Len(stdin) : stdin[k] = Taken + k

HeldOK ==
    /\ input.at \in {"forward", "refuse"} =>
         /\ input.line \in 1 .. Len(sent)
         /\ input.line = Taken
    /\ output.at = "error" => output.line \in Line

PipesOK == TypeOK /\ NumbersOK /\ HeldOK

LEMMA Bounds == MaxLines \in Nat /\ Permits \in Nat /\ PipeRoom \in Nat /\ ErrorRoom \in Nat
BY TransportAssumption

-----------------------------------------------------------------------------
(* Lines in their pipes. *)

LEMMA SendPipes ==
    ASSUME PipesOK, Send PROVE PipesOK'
<1>1. PICK kind \in Kind : /\ kind = "cancel" => sent # <<>>
                           /\ sent' = Append(sent, kind)
  BY DEF Send
<1>2. /\ sent \in Seq(Kind) /\ Len(sent) \in Nat /\ Len(sent) < MaxLines
      /\ stdin \in Seq(Line) /\ Len(stdin) \in Nat /\ Len(stdin) < PipeRoom
      /\ MaxLines \in Nat /\ PipeRoom \in Nat /\ Len(stdin) <= Len(sent)
      /\ stdin' = Append(stdin, Len(sent) + 1)
  BY Bounds DEF PipesOK, TypeOK, Send, NumbersOK
<1>3. /\ sent' \in Seq(Kind) /\ Len(sent') = Len(sent) + 1
      /\ \A k \in 1 .. Len(sent) : sent'[k] = sent[k]
      /\ sent'[Len(sent) + 1] = kind
  BY <1>1, <1>2, AppendProperties
<1>4. Len(sent) + 1 \in Line
  BY <1>2 DEF Line
<1>5. /\ stdin' \in Seq(Line) /\ Len(stdin') = Len(stdin) + 1
      /\ \A k \in 1 .. Len(stdin) : stdin'[k] = stdin[k]
      /\ stdin'[Len(stdin) + 1] = Len(sent) + 1
  BY <1>2, <1>4, AppendProperties
<1>6. TypeOK'
  BY <1>2, <1>3, <1>5 DEF PipesOK, TypeOK, Send
<1>7. NumbersOK'
  <2>1. Taken' = Taken /\ Taken + Len(stdin) + 1 = Len(sent) + 1
    BY <1>2, <1>3, <1>5 DEF Taken
  <2>2. \A k \in 1 .. Len(stdin) + 1 : stdin'[k] = Taken + k
    <3>1. \A k \in 1 .. Len(stdin) : stdin'[k] = Taken + k
      BY <1>5 DEF PipesOK, NumbersOK
    <3>2. \A k \in 1 .. Len(stdin) + 1 : k \in 1 .. Len(stdin) \/ k = Len(stdin) + 1
      BY <1>2
    <3>3. stdin'[Len(stdin) + 1] = Taken + (Len(stdin) + 1)
      BY <1>2, <1>5, <2>1 DEF Taken
    <3> QED
      BY <3>1, <3>2, <3>3
  <2> QED
    BY <1>2, <1>3, <1>5, <2>1, <2>2 DEF NumbersOK
<1>8. HeldOK'
  <2>1. Taken' = Taken
    BY <1>2, <1>3, <1>5 DEF Taken
  <2>2. input' = input /\ output' = output
    BY DEF Send
  <2>3. \A k \in 1 .. Len(sent) : k \in 1 .. Len(sent')
    BY <1>2, <1>3
  <2> QED
    BY <1>3, <2>1, <2>2, <2>3 DEF PipesOK, HeldOK
<1> QED
  BY <1>6, <1>7, <1>8 DEF PipesOK

LEMMA ReadPipes ==
    ASSUME PipesOK, ReadLine PROVE PipesOK'
<1>1. /\ stdin \in Seq(Line) /\ stdin # <<>> /\ Len(stdin) \in Nat \ {0}
      /\ sent \in Seq(Kind) /\ Len(sent) \in Nat /\ Len(stdin) <= Len(sent)
      /\ stdin' = Tail(stdin) /\ sent' = sent /\ output' = output
      /\ Len(stdin) <= PipeRoom /\ PipeRoom \in Nat /\ MaxLines \in Nat
      /\ Len(sent) <= MaxLines
  BY Bounds, EmptySeq DEF PipesOK, TypeOK, NumbersOK, ReadLine, InputStep
<1>2. /\ stdin' \in Seq(Line) /\ Len(stdin') = Len(stdin) - 1
      /\ \A k \in 1 .. Len(stdin') : stdin'[k] = stdin[k + 1]
      /\ Head(stdin) = stdin[1] /\ Head(stdin) \in Line
  BY <1>1, HeadTailProperties
<1>3. Taken' = Taken + 1 /\ Taken' \in 1 .. Len(sent)
  BY <1>1, <1>2 DEF Taken
<1>4. Head(stdin) = Taken'
  BY <1>1, <1>2, <1>3 DEF PipesOK, NumbersOK
<1>5. input' = [at |-> IF sent[Head(stdin)] = "bad" THEN "refuse" ELSE "forward",
                line |-> Head(stdin)]
  BY DEF ReadLine
<1>6. TypeOK'
  <2>1. Head(stdin) \in 0 .. MaxLines
    BY <1>1, <1>2 DEF Line
  <2>2. input' \in [at : {"read", "forward", "refuse", "done", "failed",
                        "aborted"}, line : 0 .. MaxLines]
    BY <1>5, <2>1
  <2>3. Len(stdin') <= PipeRoom
    BY <1>1, <1>2
  <2> QED
    BY <1>2, <2>2, <2>3 DEF PipesOK, TypeOK, ReadLine, InputStep
<1>7. NumbersOK'
  <2>1. ASSUME NEW k \in 1 .. Len(stdin') PROVE stdin'[k] = Taken' + k
    <3>1. k + 1 \in 1 .. Len(stdin) /\ Taken \in Int /\ k \in Int
      BY <1>1, <1>2 DEF Taken
    <3>2. stdin[k + 1] = Taken + (k + 1)
      BY <3>1 DEF PipesOK, NumbersOK
    <3> QED
      BY <1>2, <1>3, <3>1, <3>2
  <2> QED
    BY <1>1, <1>2, <2>1 DEF PipesOK, NumbersOK
<1>8. HeldOK'
  BY <1>1, <1>3, <1>4, <1>5 DEF PipesOK, HeldOK
<1> QED
  BY <1>6, <1>7, <1>8 DEF PipesOK

(* Steps that leave the client's lines and what input holds alone. *)
LEMMA SameNumbers ==
    ASSUME PipesOK, UNCHANGED <<sent, stdin>>
    PROVE  NumbersOK'
BY DEF PipesOK, NumbersOK, Taken

LEMMA SameHeld ==
    ASSUME PipesOK, UNCHANGED <<sent, stdin>>,
           input' = input \/ input'.at \notin {"forward", "refuse"},
           output' = output \/ output'.at # "error"
    PROVE  HeldOK'
BY DEF PipesOK, HeldOK, Taken

InputState ==
    [at : {"read", "forward", "refuse", "done", "failed", "aborted"},
     line : 0 .. MaxLines]
OutputState ==
    [at : {"read", "lines", "error", "done", "failed", "aborted"},
     line : 0 .. MaxLines]

LEMMA IdleType == Idle \in InputState /\ Idle \in OutputState
BY Bounds DEF InputState, OutputState

LEMMA FailType ==
    ASSUME NEW x \in InputState
    PROVE  /\ [x EXCEPT !.at = "failed"] \in InputState
           /\ [x EXCEPT !.at = "failed"].at = "failed"
BY DEF InputState

LEMMA ForwardPipes ==
    ASSUME PipesOK, ForwardLine PROVE PipesOK'
<1>1. /\ input \in InputState /\ input.line \in Line
      /\ inbound \in Seq(Line) /\ Len(inbound) \in Nat /\ PipeRoom \in Nat
  BY Bounds DEF PipesOK, TypeOK, HeldOK, ForwardLine, InputState, Line
<1>2. Append(inbound, input.line) \in Seq(Line)
      /\ Len(Append(inbound, input.line)) = Len(inbound) + 1
  BY <1>1, AppendProperties
<1>3. /\ input' \in InputState /\ input'.at \in {"read", "failed"}
      /\ inbound' \in Seq(Line) /\ Len(inbound') <= PipeRoom
      /\ inboundEnd' \in BOOLEAN
  <2>1. CASE /\ input' = Idle /\ inbound' = Append(inbound, input.line)
             /\ Len(inbound) < PipeRoom /\ UNCHANGED inboundEnd
    <3>1. input' \in InputState /\ input'.at = "read"
      BY <2>1, IdleType
    <3>2. inbound' \in Seq(Line) /\ Len(inbound') <= PipeRoom
      BY <2>1, <1>1, <1>2
    <3> QED
      BY <2>1, <3>1, <3>2 DEF PipesOK, TypeOK
  <2>2. CASE /\ input' = [input EXCEPT !.at = "failed"]
             /\ inboundEnd' = TRUE /\ UNCHANGED inbound
    <3>1. input' \in InputState /\ input'.at = "failed"
      BY <2>2, <1>1, FailType
    <3> QED
      BY <2>2, <3>1 DEF PipesOK, TypeOK
  <2> QED
    BY <2>1, <2>2 DEF ForwardLine
<1>4. UNCHANGED <<sent, stdin, output>>
  BY DEF ForwardLine, InputStep
<1>5. TypeOK'
  BY <1>3 DEF PipesOK, TypeOK, InputState, ForwardLine, InputStep
<1> QED
  BY <1>3, <1>4, <1>5, SameNumbers, SameHeld DEF PipesOK

LEMMA RefusePipes ==
    ASSUME PipesOK, RefuseLine PROVE PipesOK'
<1>1. /\ input \in InputState /\ input.line \in Line
      /\ errors \in Seq(Line) /\ Len(errors) \in Nat /\ ErrorRoom \in Nat
  BY Bounds DEF PipesOK, TypeOK, HeldOK, RefuseLine, InputState, Line
<1>2. Append(errors, input.line) \in Seq(Line)
      /\ Len(Append(errors, input.line)) = Len(errors) + 1
  BY <1>1, AppendProperties
<1>3. /\ input' \in InputState /\ input'.at \in {"read", "failed"}
      /\ errors' \in Seq(Line) /\ Len(errors') <= ErrorRoom
      /\ inboundEnd' \in BOOLEAN
  <2>1. CASE /\ input' = Idle /\ errors' = Append(errors, input.line)
             /\ Len(errors) < ErrorRoom /\ UNCHANGED inboundEnd
    <3>1. input' \in InputState /\ input'.at = "read"
      BY <2>1, IdleType
    <3>2. errors' \in Seq(Line) /\ Len(errors') <= ErrorRoom
      BY <2>1, <1>1, <1>2
    <3> QED
      BY <2>1, <3>1, <3>2 DEF PipesOK, TypeOK
  <2>2. CASE /\ input' = [input EXCEPT !.at = "failed"]
             /\ inboundEnd' = TRUE /\ UNCHANGED errors
    <3>1. input' \in InputState /\ input'.at = "failed"
      BY <2>2, <1>1, FailType
    <3> QED
      BY <2>2, <3>1 DEF PipesOK, TypeOK
  <2> QED
    BY <2>1, <2>2 DEF RefuseLine
<1>4. UNCHANGED <<sent, stdin, output>>
  BY DEF RefuseLine, InputStep
<1>5. TypeOK'
  BY <1>3 DEF PipesOK, TypeOK, InputState, RefuseLine, InputStep
<1> QED
  BY <1>3, <1>4, <1>5, SameNumbers, SameHeld DEF PipesOK

LEMMA EndInputPipes ==
    ASSUME PipesOK, EndInput PROVE PipesOK'
<1>1. input \in InputState
  BY DEF PipesOK, TypeOK, InputState
<1>2. input' \in InputState /\ input'.at = "done"
  BY <1>1 DEF EndInput, InputState
<1>3. UNCHANGED <<sent, stdin, output>>
  BY DEF EndInput, InputStep
<1>4. TypeOK'
  BY <1>2 DEF PipesOK, TypeOK, InputState, EndInput, InputStep
<1> QED
  BY <1>2, <1>3, <1>4, SameNumbers, SameHeld DEF PipesOK

CallState ==
    {"none", "waiting", "working", "cancelled", "answer", "answering",
     "answered"}

LEMMA CallType ==
    ASSUME NEW c \in [Line -> CallState], NEW i, NEW v \in CallState
    PROVE  [c EXCEPT ![i] = v] \in [Line -> CallState]
OBVIOUS

(* Steps of the service, of the handlers and of run_stdio. *)
LEMMA AcceptPipes ==
    ASSUME PipesOK, Accept PROVE PipesOK'
<1>1. /\ inbound \in Seq(Line) /\ inbound # <<>> /\ Len(inbound) \in Nat
      /\ Len(inbound) <= PipeRoom /\ PipeRoom \in Nat
  BY Bounds DEF PipesOK, TypeOK, Accept
<1>2. /\ inbound' \in Seq(Line) /\ Len(inbound') <= PipeRoom
  BY <1>1, HeadTailProperties DEF Accept
<1>3. call' \in [Line -> CallState]
  BY CallType DEF Accept, PipesOK, TypeOK, CallState
<1>4. TypeOK'
  BY <1>2, <1>3 DEF PipesOK, TypeOK, Accept, ServiceStep, CallState
<1> QED
  BY <1>4, SameNumbers, SameHeld DEF PipesOK, Accept, ServiceStep

LEMMA RefuseStartPipes ==
    ASSUME PipesOK, RefuseStart PROVE PipesOK'
<1>1. input \in InputState /\ output \in OutputState
  BY DEF PipesOK, TypeOK, InputState, OutputState
<1>2. /\ input' \in InputState
      /\ input' = input \/ input'.at \notin {"forward", "refuse"}
  <2>1. CASE InputOver
    BY <2>1, <1>1 DEF RefuseStart
  <2>2. CASE ~InputOver
    <3> DEFINE l == IF input.at = "read" THEN 0 ELSE input.line
    <3>1. l \in 0 .. MaxLines
      BY <1>1, Bounds DEF InputState
    <3>2. input' = [at |-> "aborted", line |-> l]
      BY <2>2 DEF RefuseStart
    <3> QED
      BY <3>1, <3>2 DEF InputState
  <2> QED
    BY <2>1, <2>2
<1>3. /\ output' \in OutputState
      /\ output' = output \/ output'.at # "error"
  <2>1. CASE OutputOver
    BY <2>1, <1>1 DEF RefuseStart
  <2>2. CASE ~OutputOver
    <3>1. output' = [output EXCEPT !.at = "aborted"]
      BY <2>2 DEF RefuseStart
    <3> QED
      BY <3>1, <1>1 DEF OutputState
  <2> QED
    BY <2>1, <2>2
<1>4. inbound' \in Seq(Line) /\ Len(inbound') <= PipeRoom
  BY Bounds DEF RefuseStart
<1>5. TypeOK'
  BY <1>2, <1>3, <1>4 DEF PipesOK, TypeOK, RefuseStart, InputState, OutputState
<1> QED
  BY <1>2, <1>3, <1>5, SameNumbers, SameHeld DEF PipesOK, RefuseStart

LEMMA TakeMessagePipes ==
    ASSUME PipesOK, TakeMessage PROVE PipesOK'
<1>1. /\ inbound \in Seq(Line) /\ inbound # <<>> /\ Len(inbound) \in Nat
      /\ Len(inbound) <= PipeRoom /\ PipeRoom \in Nat
  BY Bounds DEF PipesOK, TypeOK, TakeMessage
<1>2. /\ inbound' \in Seq(Line) /\ Len(inbound') <= PipeRoom
  BY <1>1, HeadTailProperties DEF TakeMessage
<1>3. call \in [Line -> CallState]
  BY DEF PipesOK, TypeOK, CallState
<1>4. call' \in [Line -> CallState]
  BY <1>3, CallType DEF TakeMessage, CallState
<1>5. TypeOK'
  BY <1>2, <1>4 DEF PipesOK, TypeOK, TakeMessage, ServiceStep, CallState
<1> QED
  BY <1>5, SameNumbers, SameHeld DEF PipesOK, TakeMessage, ServiceStep

LEMMA AdmitPipes ==
    ASSUME PipesOK, NEW i \in Line, Admit(i) PROVE PipesOK'
<1>1. call' \in [Line -> CallState]
  BY CallType DEF Admit, PipesOK, TypeOK, CallState
<1>2. worker' \subseteq Line /\ free' \in 0 .. Permits
  BY Bounds DEF Admit, PipesOK, TypeOK
<1>3. TypeOK'
  BY <1>1, <1>2 DEF PipesOK, TypeOK, Admit, ServiceStep, CallState
<1> QED
  BY <1>3, SameNumbers, SameHeld DEF PipesOK, Admit, ServiceStep

LEMMA AnswerBeginsPipes ==
    ASSUME PipesOK, NEW i \in Line, AnswerBegins(i) PROVE PipesOK'
<1>1. call' \in [Line -> CallState]
  BY CallType DEF AnswerBegins, PipesOK, TypeOK, CallState
<1>2. /\ outbound \in Seq(Piece) /\ <<i, "head">> \in Piece
      /\ PipeRoom \in Nat /\ Len(outbound) < PipeRoom
  BY Bounds DEF AnswerBegins, PipesOK, TypeOK, Piece
<1>3. outbound' \in Seq(Piece) /\ Len(outbound') <= PipeRoom
  BY <1>2, AppendProperties, LenProperties DEF AnswerBegins
<1>4. TypeOK'
  BY <1>1, <1>3 DEF PipesOK, TypeOK, AnswerBegins, ServiceStep, CallState
<1> QED
  BY <1>4, SameNumbers, SameHeld DEF PipesOK, AnswerBegins, ServiceStep

LEMMA AnswerEndsPipes ==
    ASSUME PipesOK, NEW i \in Line, AnswerEnds(i) PROVE PipesOK'
<1>1. call' \in [Line -> CallState]
  BY CallType DEF AnswerEnds, PipesOK, TypeOK, CallState
<1>2. /\ outbound \in Seq(Piece) /\ <<i, "tail">> \in Piece
      /\ PipeRoom \in Nat /\ Len(outbound) < PipeRoom
  BY Bounds DEF AnswerEnds, PipesOK, TypeOK, Piece
<1>3. outbound' \in Seq(Piece) /\ Len(outbound') <= PipeRoom
  BY <1>2, AppendProperties, LenProperties DEF AnswerEnds
<1>4. TypeOK'
  BY <1>1, <1>3 DEF PipesOK, TypeOK, AnswerEnds, ServiceStep, CallState
<1> QED
  BY <1>4, SameNumbers, SameHeld DEF PipesOK, AnswerEnds, ServiceStep

LEMMA StopPipes ==
    ASSUME PipesOK, Stop PROVE PipesOK'
<1>1. TypeOK'
  BY Bounds DEF PipesOK, TypeOK, Stop, ServiceStep
<1> QED
  BY <1>1, SameNumbers, SameHeld DEF PipesOK, Stop, ServiceStep

(* The permits follow the workers. *)
GateOK ==
    /\ IsFiniteSet(worker)
    /\ WorkersHoldThePermits
    /\ \A i \in Line : call[i] \in {"none", "waiting"} => i \notin worker

LEMMA WorkerEndsPipes ==
    ASSUME PipesOK, GateOK, NEW i \in Line, WorkerEnds(i) PROVE PipesOK'
<1>1. call' \in [Line -> CallState]
  <2>1. call \in [Line -> CallState]
    BY DEF PipesOK, TypeOK, CallState
  <2>2. call' = [call EXCEPT ![i] = IF call[i] = "working" THEN "answer"
                                    ELSE call[i]]
    BY DEF WorkerEnds
  <2> QED
    BY <2>1, <2>2, CallType DEF CallState
<1>2. worker' \subseteq Line
  BY DEF WorkerEnds, PipesOK, TypeOK
<1>3. free' \in 0 .. Permits
  <2>1. Cardinality(worker) \in Nat /\ Cardinality(worker) # 0
    BY FS_CardinalityType, FS_EmptySet DEF GateOK, WorkerEnds
  <2>2. Cardinality(worker) = Permits - free /\ free \in 0 .. Permits
    BY DEF GateOK, WorkersHoldThePermits, PipesOK, TypeOK
  <2> QED
    BY <2>1, <2>2, Bounds DEF WorkerEnds
<1>4. TypeOK'
  BY <1>1, <1>2, <1>3 DEF PipesOK, TypeOK, WorkerEnds, ServiceStep, CallState
<1> QED
  BY <1>4, SameNumbers, SameHeld DEF PipesOK, WorkerEnds, ServiceStep

-----------------------------------------------------------------------------
(* Output and the client's end of it. *)

(* What Write may do to standard output and to output itself. *)
LEMMA WritePipes ==
    ASSUME PipesOK, NEW pieces \in Seq(Piece),
           NEW then \in {"read", "lines", "done"}, Write(pieces, then)
    PROVE  /\ stdout' \in Seq(Piece) /\ unread' \in 0 .. PipeRoom
           /\ output' \in OutputState
           /\ output'.at \in {then, "failed"}
<1>1. /\ stdout \in Seq(Piece) /\ unread \in Nat /\ PipeRoom \in Nat
      /\ output \in OutputState /\ Len(pieces) \in Nat /\ unread <= PipeRoom
  BY Bounds DEF PipesOK, TypeOK, OutputState
<1>2. CASE /\ unread + Len(pieces) <= PipeRoom
           /\ stdout' = stdout \o pieces
           /\ unread' = unread + Len(pieces)
           /\ output' = [output EXCEPT !.at = then]
  <2>1. stdout' \in Seq(Piece)
    BY <1>1, <1>2, ConcatProperties
  <2>2. output' \in OutputState /\ output'.at = then
    BY <1>1, <1>2 DEF OutputState
  <2> QED
    BY <1>1, <1>2, <2>1, <2>2
<1>3. CASE /\ output' = [output EXCEPT !.at = "failed"]
           /\ UNCHANGED <<stdout, unread>>
  <2>1. output' \in OutputState /\ output'.at = "failed"
    BY <1>1, <1>3 DEF OutputState
  <2> QED
    BY <1>1, <1>3, <2>1
<1> QED
  BY <1>2, <1>3 DEF Write

LEMMA PrefixType ==
    ASSUME NEW S, NEW s \in Seq(S), NEW n \in 0 .. Len(s)
    PROVE  /\ SubSeq(s, 1, n) \in Seq(S) /\ Len(SubSeq(s, 1, n)) = n
           /\ \A i \in 1 .. n : SubSeq(s, 1, n)[i] = s[i]
           /\ SubSeq(s, n + 1, Len(s)) \in Seq(S)
           /\ Len(SubSeq(s, n + 1, Len(s))) = Len(s) - n
           /\ \A i \in 1 .. Len(s) - n : SubSeq(s, n + 1, Len(s))[i] = s[n + i]
<1> DEFINE k == Len(s)
<1>1. k \in Nat /\ n \in Nat /\ n <= k
  OBVIOUS
<1>2. \A i \in 1 .. k : s[i] \in S
  OBVIOUS
<1> HIDE DEF k
<1>3. /\ SubSeq(s, 1, n) \in Seq(S)
      /\ Len(SubSeq(s, 1, n)) = IF 1 <= n THEN n - 1 + 1 ELSE 0
      /\ \A i \in 1 .. n - 1 + 1 : SubSeq(s, 1, n)[i] = s[1 + i - 1]
  <2>1. \A i \in 1 .. n : s[i] \in S
    BY <1>1, <1>2
  <2>2. 1 \in Int /\ n \in Int
    BY <1>1
  <2> QED
    BY <2>1, <2>2, SubSeqProperties
<1>4. /\ Len(SubSeq(s, 1, n)) = n
      /\ \A i \in 1 .. n : SubSeq(s, 1, n)[i] = s[i]
  BY <1>1, <1>3
<1>5. /\ SubSeq(s, n + 1, k) \in Seq(S)
      /\ Len(SubSeq(s, n + 1, k)) = IF n + 1 <= k THEN k - (n + 1) + 1 ELSE 0
      /\ \A i \in 1 .. k - (n + 1) + 1 : SubSeq(s, n + 1, k)[i] = s[n + 1 + i - 1]
  <2>1. \A i \in n + 1 .. k : s[i] \in S
    BY <1>1, <1>2
  <2>2. n + 1 \in Int /\ k \in Int
    BY <1>1
  <2> QED
    BY <2>1, <2>2, SubSeqProperties
<1>6. /\ Len(SubSeq(s, n + 1, k)) = k - n
      /\ \A i \in 1 .. k - n : SubSeq(s, n + 1, k)[i] = s[n + i]
  BY <1>1, <1>5
<1> QED
  BY <1>3, <1>4, <1>5, <1>6 DEF k

LEMMA TakeAnswerPipes ==
    ASSUME PipesOK, TakeAnswer PROVE PipesOK'
<1>1. /\ outbound \in Seq(Piece) /\ partial \in Seq(Piece)
      /\ Len(outbound) \in Nat /\ Len(outbound) <= PipeRoom /\ PipeRoom \in Nat
      /\ output \in OutputState
  BY Bounds DEF PipesOK, TypeOK, OutputState
<1>2. PICK n \in 1 .. Len(outbound) :
         /\ partial' = partial \o SubSeq(outbound, 1, n)
         /\ outbound' = SubSeq(outbound, n + 1, Len(outbound))
  BY DEF TakeAnswer
<1>3. n \in 0 .. Len(outbound)
  BY <1>1
<1>4. /\ SubSeq(outbound, 1, n) \in Seq(Piece)
      /\ outbound' \in Seq(Piece) /\ Len(outbound') = Len(outbound) - n
  BY <1>1, <1>2, <1>3, PrefixType
<1>5. partial' \in Seq(Piece)
  BY <1>1, <1>2, <1>4, ConcatProperties
<1>6. Len(outbound') <= PipeRoom
  BY <1>1, <1>3, <1>4
<1>7. output' \in OutputState /\ output'.at = "lines"
  BY <1>1 DEF TakeAnswer, OutputState
<1>8. TypeOK'
  BY <1>4, <1>5, <1>6, <1>7 DEF PipesOK, TypeOK, TakeAnswer, OutputStep, OutputState
<1> QED
  BY <1>7, <1>8, SameNumbers, SameHeld DEF PipesOK, TakeAnswer, OutputStep

(* The first whole line of `partial`. *)
LEMMA FirstWhole ==
    ASSUME PipesOK, Whole # {}
    PROVE  \E end \in Whole :
             /\ end = CHOOSE i \in Whole : \A j \in Whole : i <= j
             /\ end \in 1 .. Len(partial)
             /\ partial[end][2] = "tail"
             /\ \A j \in 1 .. Len(partial) : j < end => partial[j][2] # "tail"
<1>1. partial \in Seq(Piece) /\ Len(partial) \in Nat
  BY DEF PipesOK, TypeOK
<1>2. DOMAIN partial = 1 .. Len(partial)
  BY <1>1
<1>3. Whole \subseteq 1 .. Len(partial)
  BY <1>2 DEF Whole
<1>4. \E i \in Whole : \A j \in Whole : i <= j
  <2>1. Whole \subseteq Nat
    BY <1>1, <1>3
  <2>2. PICK i \in Whole :
           \A j \in Whole : ~(<<j, i>> \in OpToRel(<, Nat))
    BY <2>1, NatLessThanWellFounded, WFMin
  <2>3. \A j \in Whole : i <= j
    <3> SUFFICES ASSUME NEW j \in Whole, ~(i <= j) PROVE FALSE
      OBVIOUS
    <3>1. i \in Nat /\ j \in Nat
      BY <2>1
    <3>2. j < i
      BY <3>1
    <3>3. <<j, i>> \in OpToRel(<, Nat)
      BY <3>1, <3>2, Zenon DEF OpToRel
    <3> QED
      BY <2>2, <3>3
  <2> QED
    BY <2>3
<1> DEFINE end == CHOOSE i \in Whole : \A j \in Whole : i <= j
<1>5. end \in Whole /\ \A j \in Whole : end <= j
  BY <1>4
<1> HIDE DEF end
<1>6. end \in 1 .. Len(partial) /\ partial[end][2] = "tail"
  BY <1>3, <1>5 DEF Whole
<1>7. ASSUME NEW j \in 1 .. Len(partial), j < end PROVE partial[j][2] # "tail"
  <2>1. j \notin Whole
    BY <1>5, <1>6, <1>7
  <2> QED
    BY <2>1, <1>2 DEF Whole
<1> QED
  BY <1>5, <1>6, <1>7 DEF end

LEMMA WriteLinePipes ==
    ASSUME PipesOK, WriteLine PROVE PipesOK'
<1>1. partial \in Seq(Piece) /\ Len(partial) \in Nat
  BY DEF PipesOK, TypeOK
<1>2. PICK end \in 1 .. Len(partial) :
         /\ Write(SubSeq(partial, 1, end), "lines")
         /\ partial' = SubSeq(partial, end + 1, Len(partial))
  BY FirstWhole DEF WriteLine
<1>3. end \in 0 .. Len(partial)
  BY <1>1
<1>4. SubSeq(partial, 1, end) \in Seq(Piece) /\ partial' \in Seq(Piece)
  BY <1>1, <1>2, <1>3, PrefixType
<1>5. /\ stdout' \in Seq(Piece) /\ unread' \in 0 .. PipeRoom
      /\ output' \in OutputState /\ output'.at \in {"lines", "failed"}
  BY <1>2, <1>4, WritePipes
<1>6. TypeOK'
  BY <1>4, <1>5 DEF PipesOK, TypeOK, WriteLine, OutputStep, OutputState
<1> QED
  BY <1>5, <1>6, SameNumbers, SameHeld DEF PipesOK, WriteLine, OutputStep

LEMMA LinesWrittenPipes ==
    ASSUME PipesOK, LinesWritten PROVE PipesOK'
<1>1. output' \in OutputState /\ output'.at = "read"
  BY DEF PipesOK, TypeOK, OutputState, LinesWritten
<1>2. TypeOK'
  BY <1>1 DEF PipesOK, TypeOK, LinesWritten, OutputStep, OutputState
<1> QED
  BY <1>1, <1>2, SameNumbers, SameHeld DEF PipesOK, LinesWritten, OutputStep

LEMMA TakeErrorPipes ==
    ASSUME PipesOK, TakeError PROVE PipesOK'
<1>1. /\ errors \in Seq(Line) /\ errors # <<>> /\ Len(errors) \in Nat
      /\ Len(errors) <= ErrorRoom /\ ErrorRoom \in Nat
  BY Bounds DEF PipesOK, TypeOK, TakeError
<1>2. /\ errors' \in Seq(Line) /\ Len(errors') <= ErrorRoom
      /\ Head(errors) \in Line
  BY <1>1, HeadTailProperties DEF TakeError
<1>3. output' = [at |-> "error", line |-> Head(errors)]
  BY DEF TakeError
<1>4. output' \in OutputState
  BY <1>2, <1>3, Bounds DEF OutputState, Line
<1>5. TypeOK'
  BY <1>2, <1>4 DEF PipesOK, TypeOK, TakeError, OutputStep, OutputState
<1>6. HeldOK'
  BY <1>2, <1>3 DEF PipesOK, HeldOK, Taken, TakeError, OutputStep
<1> QED
  BY <1>5, <1>6, SameNumbers DEF PipesOK, TakeError, OutputStep

LEMMA WriteErrorPipes ==
    ASSUME PipesOK, WriteError PROVE PipesOK'
<1>1. <<<<output.line, "error">>>> \in Seq(Piece)
  BY DEF PipesOK, HeldOK, WriteError, Piece
<1>2. /\ stdout' \in Seq(Piece) /\ unread' \in 0 .. PipeRoom
      /\ output' \in OutputState /\ output'.at \in {"read", "failed"}
  BY <1>1, WritePipes DEF WriteError
<1>3. TypeOK'
  BY <1>2 DEF PipesOK, TypeOK, WriteError, OutputStep, OutputState
<1> QED
  BY <1>2, <1>3, SameNumbers, SameHeld DEF PipesOK, WriteError, OutputStep

LEMMA EndedLines ==
    ASSUME PipesOK
    PROVE  [i \in DOMAIN partial |-> <<partial[i][1], "tail">>] \in Seq(Piece)
<1>1. partial \in Seq(Piece) /\ DOMAIN partial = 1 .. Len(partial)
      /\ Len(partial) \in Nat
  BY DEF PipesOK, TypeOK
<1>2. \A i \in 1 .. Len(partial) : partial[i] \in Piece
  BY <1>1
<1>3. \A i \in 1 .. Len(partial) : <<partial[i][1], "tail">> \in Piece
  BY <1>2 DEF Piece
<1> QED
  BY <1>1, <1>3

LEMMA EndOutputPipes ==
    ASSUME PipesOK, EndOutput PROVE PipesOK'
<1>1. /\ stdout' \in Seq(Piece) /\ unread' \in 0 .. PipeRoom
      /\ output' \in OutputState /\ output'.at \in {"read", "done", "failed"}
  BY EndedLines, WritePipes DEF EndOutput
<1>2. TypeOK'
  BY <1>1 DEF PipesOK, TypeOK, EndOutput, OutputStep, OutputState
<1> QED
  BY <1>1, <1>2, SameNumbers, SameHeld DEF PipesOK, EndOutput, OutputStep

LEMMA ClientPipes ==
    ASSUME PipesOK, CloseInput \/ Receive \/ GoDeaf PROVE PipesOK'
<1>1. TypeOK'
  <2>1. CASE CloseInput
    BY <2>1 DEF PipesOK, TypeOK, CloseInput
  <2>2. CASE Receive
    <3>1. unread' \in 0 .. PipeRoom
      BY <2>2, Bounds DEF PipesOK, TypeOK, Receive
    <3> QED
      BY <2>2, <3>1 DEF PipesOK, TypeOK, Receive
  <2>3. CASE GoDeaf
    BY <2>3 DEF PipesOK, TypeOK, GoDeaf
  <2> QED
    BY <2>1, <2>2, <2>3
<1>2. UNCHANGED <<sent, stdin, input, output>>
  BY DEF CloseInput, Receive, GoDeaf
<1> QED
  BY <1>1, <1>2, SameNumbers, SameHeld DEF PipesOK

LEMMA FinishPipes ==
    ASSUME PipesOK, Finish PROVE PipesOK'
<1>1. TypeOK'
  BY DEF PipesOK, TypeOK, Finish, Join, Abandon
<1>2. UNCHANGED <<sent, stdin, input, output>>
  BY DEF Finish, Join, Abandon
<1> QED
  BY <1>1, <1>2, SameNumbers, SameHeld DEF PipesOK

-----------------------------------------------------------------------------
(* Where a call is. *)

(* A call in the stream to the service has no handler yet, nor has one     *)
(* input holds or the client keeps.                                        *)
CallsOK ==
    /\ \A k \in 1 .. Len(inbound) :
         /\ inbound[k] <= Taken
         /\ input.at = "forward" => inbound[k] < Taken
         /\ call[inbound[k]] = "none"
    /\ \A j, k \in 1 .. Len(inbound) : j < k => inbound[j] < inbound[k]
    /\ \A i \in Line :
         call[i] # "none" => i <= Taken /\ (input.at = "forward" => i < Taken)

SessionOK == PipesOK /\ CallsOK /\ GateOK

(* Numbers of the state, for arithmetic. *)
LEMMA Sizes ==
    ASSUME PipesOK
    PROVE  /\ Taken \in Nat /\ Taken <= Len(sent)
           /\ Len(sent) \in Nat /\ Len(stdin) \in Nat
           /\ inbound \in Seq(Line) /\ Len(inbound) \in Nat
           /\ \A k \in 1 .. Len(inbound) : inbound[k] \in Line
           /\ Line \subseteq Nat
           /\ call \in [Line -> CallState]
<1>1. /\ sent \in Seq(Kind) /\ stdin \in Seq(Line) /\ inbound \in Seq(Line)
      /\ call \in [Line -> CallState]
  BY DEF PipesOK, TypeOK, CallState
<1>2. Len(stdin) <= Len(sent)
  BY DEF PipesOK, NumbersOK
<1>3. Len(sent) \in Nat /\ Len(stdin) \in Nat /\ Len(inbound) \in Nat
  BY <1>1
<1>4. Taken \in Nat /\ Taken <= Len(sent)
  BY <1>2, <1>3 DEF Taken
<1>5. \A k \in 1 .. Len(inbound) : inbound[k] \in Line
  BY <1>1
<1>6. Line \subseteq Nat
  BY Bounds DEF Line
<1> QED
  BY <1>1, <1>3, <1>4, <1>5, <1>6

LEMMA SameCalls ==
    ASSUME CallsOK, Taken' = Taken, UNCHANGED call,
           inbound' = inbound \/ inbound' = <<>>,
           input' = input \/ input'.at # "forward"
    PROVE  CallsOK'
<1>1. Len(<<>>) = 0
  OBVIOUS
<1> QED
  BY <1>1 DEF CallsOK

LEMMA SameGate ==
    ASSUME GateOK, UNCHANGED <<worker, free, call>>
    PROVE  GateOK'
BY DEF GateOK, WorkersHoldThePermits

LEMMA SendCalls ==
    ASSUME SessionOK, Send PROVE CallsOK' /\ GateOK'
<1>1. /\ sent \in Seq(Kind) /\ stdin \in Seq(Line)
      /\ Len(sent') = Len(sent) + 1 /\ Len(stdin') = Len(stdin) + 1
  <2>1. sent \in Seq(Kind) /\ stdin \in Seq(Line)
    BY DEF SessionOK, PipesOK, TypeOK
  <2>2. PICK kind \in Kind : sent' = Append(sent, kind)
    BY DEF Send
  <2> QED
    BY <2>1, <2>2 DEF Send
<1>2. Taken' = Taken
  BY <1>1, Sizes DEF Taken, SessionOK
<1> QED
  BY <1>2, SameCalls, SameGate DEF SessionOK, Send

LEMMA ReadCalls ==
    ASSUME SessionOK, ReadLine PROVE CallsOK' /\ GateOK'
<1>1. Taken' = Taken + 1 /\ Taken \in Nat
  <2>1. Len(stdin') = Len(stdin) - 1
    BY HeadTailProperties DEF SessionOK, PipesOK, TypeOK, ReadLine
  <2>2. sent' = sent
    BY DEF ReadLine, InputStep
  <2> QED
    BY <2>1, <2>2, Sizes DEF SessionOK, Taken
<1>2. UNCHANGED <<inbound, call, worker, free>>
  BY DEF ReadLine, InputStep
<1>3. /\ \A k \in 1 .. Len(inbound) : inbound[k] \in Nat
      /\ \A i \in Line : i \in Nat
  BY Sizes DEF SessionOK
<1>4. \A k \in 1 .. Len(inbound) : inbound[k] <= Taken /\ call[inbound[k]] = "none"
  BY DEF SessionOK, CallsOK
<1>5. \A i \in Line : call[i] # "none" => i <= Taken
  BY DEF SessionOK, CallsOK
<1>6. \A k \in 1 .. Len(inbound) : inbound[k] < Taken + 1
  BY <1>1, <1>3, <1>4
<1>7. \A i \in Line : call[i] # "none" => i < Taken + 1
  BY <1>1, <1>3, <1>5
<1>8. \A j, k \in 1 .. Len(inbound) : j < k => inbound[j] < inbound[k]
  BY DEF SessionOK, CallsOK
<1>9. CallsOK'
  <2>1. \A x \in Nat : x < Taken + 1 => x <= Taken + 1
    BY <1>1
  <2> QED
    BY <1>1, <1>2, <1>3, <1>4, <1>6, <1>7, <1>8, <2>1 DEF CallsOK
<1> QED
  BY <1>2, <1>9, SameGate DEF SessionOK

LEMMA ForwardCalls ==
    ASSUME SessionOK, ForwardLine PROVE CallsOK' /\ GateOK'
<1>1. UNCHANGED <<sent, stdin, call, worker, free>> /\ Taken' = Taken
  BY DEF ForwardLine, InputStep, Taken
<1>2. CASE /\ inbound' = Append(inbound, input.line) /\ input' = Idle
  <2>1. /\ input.at = "forward" /\ input.line = Taken /\ Taken \in Line
        /\ Len(inbound) \in Nat /\ inbound \in Seq(Line) /\ Taken \in Nat
        /\ \A k \in 1 .. Len(inbound) : inbound[k] \in Nat
    <3>1. Len(sent) <= MaxLines
      BY DEF SessionOK, PipesOK, TypeOK
    <3>2. input.line \in 1 .. Len(sent) /\ input.line = Taken
      BY DEF SessionOK, PipesOK, HeldOK, ForwardLine
    <3> QED
      BY <3>1, <3>2, Sizes, Bounds DEF SessionOK, ForwardLine, Line
  <2>2. /\ Len(inbound') = Len(inbound) + 1
        /\ \A k \in 1 .. Len(inbound) : inbound'[k] = inbound[k]
        /\ inbound'[Len(inbound) + 1] = Taken
    BY <1>2, <2>1, AppendProperties
  <2>3. call[Taken] = "none"
    BY <2>1 DEF SessionOK, CallsOK
  <2>4. \A k \in 1 .. Len(inbound) : inbound[k] < Taken /\ call[inbound[k]] = "none"
    BY <2>1 DEF SessionOK, CallsOK
  <2>5. \A k \in 1 .. Len(inbound') : k \in 1 .. Len(inbound) \/ k = Len(inbound) + 1
    BY <2>1, <2>2
  <2>6. input'.at # "forward"
    BY <1>2
  <2>7. \A k \in 1 .. Len(inbound') : inbound'[k] <= Taken /\ call[inbound'[k]] = "none"
    BY <2>1, <2>2, <2>3, <2>4, <2>5
  <2>8. ASSUME NEW j \in 1 .. Len(inbound'), NEW k \in 1 .. Len(inbound'), j < k
        PROVE  inbound'[j] < inbound'[k]
    <3>1. j \in 1 .. Len(inbound)
      BY <2>1, <2>2, <2>8
    <3>2. CASE k \in 1 .. Len(inbound)
      BY <2>2, <2>8, <3>1, <3>2 DEF SessionOK, CallsOK
    <3>3. CASE k = Len(inbound) + 1
      BY <2>2, <2>4, <3>1, <3>3
    <3> QED
      BY <2>5, <3>2, <3>3
  <2>9. \A i \in Line : call[i] # "none" => i <= Taken
    BY DEF SessionOK, CallsOK
  <2>10. CallsOK'
    BY <1>1, <2>6, <2>7, <2>8, <2>9 DEF CallsOK
  <2> QED
    BY <1>1, <2>10, SameGate DEF SessionOK
<1>3. CASE input' = [input EXCEPT !.at = "failed"] /\ UNCHANGED inbound
  <2>1. input'.at # "forward"
    BY <1>3, FailType DEF SessionOK, PipesOK, TypeOK, InputState
  <2> QED
    BY <1>1, <1>3, <2>1, SameCalls, SameGate DEF SessionOK
<1> QED
  BY <1>2, <1>3 DEF ForwardLine

(* The head of the stream leaves it for a handler, or cancels one. *)
LEMMA TakenCalls ==
    ASSUME SessionOK, inbound # <<>>, inbound' = Tail(inbound),
           UNCHANGED <<sent, stdin, input>>,
           call' \in [Line -> CallState],
           \A i \in Line : i # Head(inbound) => (call[i] = "none" <=> call'[i] = "none")
    PROVE  CallsOK'
<1>1. Taken' = Taken
  BY DEF Taken
<1>2. /\ Len(inbound) \in Nat \ {0} /\ inbound \in Seq(Line)
      /\ \A k \in 1 .. Len(inbound) : inbound[k] \in Line
      /\ Line \subseteq Nat
  BY Sizes, EmptySeq DEF SessionOK
<1>3. /\ Len(inbound') = Len(inbound) - 1
      /\ \A k \in 1 .. Len(inbound') : inbound'[k] = inbound[k + 1]
      /\ Head(inbound) = inbound[1] /\ Head(inbound) \in Line
  BY <1>2, HeadTailProperties
<1>4. \A k \in 1 .. Len(inbound') : k + 1 \in 1 .. Len(inbound) /\ 1 < k + 1
  BY <1>2, <1>3
<1>5. \A j, k \in 1 .. Len(inbound) : j < k => inbound[j] < inbound[k]
  BY DEF SessionOK, CallsOK
<1>6. ASSUME NEW k \in 1 .. Len(inbound')
      PROVE  /\ inbound'[k] <= Taken /\ (input.at = "forward" => inbound'[k] < Taken)
             /\ call'[inbound'[k]] = "none"
  <2>1. inbound'[k] = inbound[k + 1] /\ k + 1 \in 1 .. Len(inbound)
    BY <1>3, <1>4
  <2>2. inbound[1] < inbound[k + 1]
    <3>1. 1 \in 1 .. Len(inbound) /\ 1 < k + 1
      BY <1>2, <1>4
    <3> QED
      BY <1>5, <2>1, <3>1
  <2>3. inbound[k + 1] # Head(inbound) /\ inbound[k + 1] \in Line
    <3>1. 1 \in 1 .. Len(inbound)
      BY <1>2
    <3>2. inbound[1] \in Nat /\ inbound[k + 1] \in Nat /\ inbound[k + 1] \in Line
      BY <1>2, <2>1, <3>1
    <3>3. inbound[1] # inbound[k + 1]
      BY <2>2, <3>2
    <3> QED
      BY <1>3, <3>2, <3>3
  <2>4. call[inbound[k + 1]] = "none"
    BY <2>1 DEF SessionOK, CallsOK
  <2> QED
    BY <2>1, <2>3, <2>4 DEF SessionOK, CallsOK
<1>7. ASSUME NEW j \in 1 .. Len(inbound'), NEW k \in 1 .. Len(inbound'), j < k
      PROVE  inbound'[j] < inbound'[k]
  <2>1. j + 1 < k + 1
    BY <1>3, <1>7
  <2> QED
    BY <1>3, <1>4, <1>5, <2>1
<1>8. ASSUME NEW i \in Line, call'[i] # "none"
      PROVE  i <= Taken /\ (input.at = "forward" => i < Taken)
  <2>1. CASE i = Head(inbound)
    <3>1. 1 \in 1 .. Len(inbound)
      BY <1>2
    <3> QED
      BY <1>3, <2>1, <3>1 DEF SessionOK, CallsOK
  <2>2. CASE i # Head(inbound)
    BY <1>8, <2>2 DEF SessionOK, CallsOK
  <2> QED
    BY <2>1, <2>2
<1> QED
  BY <1>1, <1>6, <1>7, <1>8 DEF CallsOK

LEMMA AcceptCalls ==
    ASSUME SessionOK, Accept PROVE CallsOK' /\ GateOK'
<1>1. /\ call \in [Line -> CallState]
      /\ call' = [call EXCEPT ![Head(inbound)] = "answer"]
      /\ UNCHANGED <<worker, free, sent, stdin, input>>
      /\ inbound # <<>> /\ inbound' = Tail(inbound)
  BY Sizes DEF SessionOK, Accept, ServiceStep
<1>2. call' \in [Line -> CallState]
  BY <1>1, CallType DEF CallState
<1>3. CallsOK'
  BY <1>1, <1>2, TakenCalls
<1>4. GateOK'
  BY <1>1 DEF SessionOK, GateOK, WorkersHoldThePermits
<1> QED
  BY <1>3, <1>4

LEMMA TakeMessageCalls ==
    ASSUME SessionOK, TakeMessage PROVE CallsOK' /\ GateOK'
<1>1. /\ call \in [Line -> CallState]
      /\ UNCHANGED <<worker, free, sent, stdin, input>>
      /\ inbound # <<>> /\ inbound' = Tail(inbound)
      /\ inbound \in Seq(Line)
  BY Sizes DEF SessionOK, TakeMessage, ServiceStep
<1> DEFINE i == Head(inbound)
<1>2. \/ call' = [call EXCEPT ![i] = "waiting"]
      \/ /\ call[i - 1] \in {"waiting", "working", "answer"}
         /\ call' = [call EXCEPT ![i - 1] = "cancelled"]
      \/ call' = call
  BY DEF TakeMessage
<1>3. call' \in [Line -> CallState]
  BY <1>1, <1>2, CallType DEF CallState
<1>4. i \in Line /\ call[i] = "none"
  <2>1. i = inbound[1] /\ 1 \in 1 .. Len(inbound) /\ i \in Line
    BY <1>1, HeadTailProperties, EmptySeq
  <2> QED
    BY <2>1 DEF SessionOK, CallsOK
<1> HIDE DEF i
<1>5. \A j \in Line : j # i => (call[j] = "none" <=> call'[j] = "none")
  BY <1>1, <1>2
<1>6. CallsOK'
  BY <1>1, <1>3, <1>5, TakenCalls DEF i
<1>7. \A j \in Line : /\ call'[j] = "working" => call[j] = "working"
                      /\ call'[j] \in {"none", "waiting"} =>
                           call[j] \in {"none", "waiting"}
  BY <1>1, <1>2, <1>4
<1>8. GateOK'
  BY <1>1, <1>7 DEF SessionOK, GateOK, WorkersHoldThePermits
<1> QED
  BY <1>6, <1>8

(* A handler that goes on leaves the stream and the lines alone. *)
LEMMA HandlerCalls ==
    ASSUME SessionOK, UNCHANGED <<sent, stdin, input, inbound>>,
           \A i \in Line : call[i] = "none" <=> call'[i] = "none"
    PROVE  CallsOK'
<1>1. Taken' = Taken /\ \A k \in 1 .. Len(inbound) : inbound[k] \in Line
  BY Sizes DEF SessionOK, Taken
<1> QED
  BY <1>1 DEF SessionOK, CallsOK

LEMMA AdmitCalls ==
    ASSUME SessionOK, NEW i \in Line, Admit(i) PROVE CallsOK' /\ GateOK'
<1>1. /\ call \in [Line -> CallState] /\ call[i] = "waiting"
      /\ call' = [call EXCEPT ![i] = "working"]
      /\ worker' = worker \cup {i} /\ free' = free - 1 /\ free \in Int
      /\ UNCHANGED <<sent, stdin, input, inbound>>
  BY Sizes DEF SessionOK, Admit, ServiceStep, PipesOK, TypeOK
<1>2. CallsOK'
  BY <1>1, HandlerCalls
<1>3. /\ IsFiniteSet(worker') /\ Cardinality(worker') = Cardinality(worker) + 1
  BY <1>1, FS_AddElement DEF SessionOK, GateOK
<1>4. Cardinality(worker) = Permits - free /\ Permits \in Nat
  BY Bounds DEF SessionOK, GateOK, WorkersHoldThePermits
<1>5. Cardinality(worker') = Permits - free'
  BY <1>1, <1>3, <1>4
<1>6. \A j \in Line : /\ call'[j] = "working" => j \in worker'
                      /\ call'[j] \in {"none", "waiting"} => j \notin worker'
  BY <1>1 DEF SessionOK, GateOK, WorkersHoldThePermits
<1> QED
  BY <1>2, <1>3, <1>5, <1>6 DEF GateOK, WorkersHoldThePermits

LEMMA WorkerEndsCalls ==
    ASSUME SessionOK, NEW i \in Line, WorkerEnds(i) PROVE CallsOK' /\ GateOK'
<1>1. /\ call \in [Line -> CallState] /\ i \in worker
      /\ call' = [call EXCEPT ![i] = IF call[i] = "working" THEN "answer"
                                     ELSE call[i]]
      /\ worker' = worker \ {i} /\ free' = free + 1 /\ free \in Int
      /\ UNCHANGED <<sent, stdin, input, inbound>>
  BY Sizes DEF SessionOK, WorkerEnds, ServiceStep, PipesOK, TypeOK
<1>2. CallsOK'
  BY <1>1, HandlerCalls
<1>3. /\ IsFiniteSet(worker') /\ Cardinality(worker') = Cardinality(worker) - 1
  BY <1>1, FS_RemoveElement DEF SessionOK, GateOK
<1>4. Cardinality(worker) = Permits - free /\ Permits \in Nat
  BY Bounds DEF SessionOK, GateOK, WorkersHoldThePermits
<1>5. Cardinality(worker') = Permits - free'
  BY <1>1, <1>3, <1>4
<1>6. \A j \in Line : /\ call'[j] = "working" => j \in worker'
                      /\ call'[j] \in {"none", "waiting"} => j \notin worker'
  BY <1>1 DEF SessionOK, GateOK, WorkersHoldThePermits
<1> QED
  BY <1>2, <1>3, <1>5, <1>6 DEF GateOK, WorkersHoldThePermits

LEMMA AnswerCalls ==
    ASSUME SessionOK, NEW i \in Line, AnswerBegins(i) \/ AnswerEnds(i)
    PROVE  CallsOK' /\ GateOK'
<1>1. /\ call \in [Line -> CallState] /\ call[i] \in {"answer", "answering"}
      /\ \/ call' = [call EXCEPT ![i] = "answering"]
         \/ call' = [call EXCEPT ![i] = "answered"]
      /\ UNCHANGED <<sent, stdin, input, inbound, worker, free>>
  BY Sizes DEF SessionOK, AnswerBegins, AnswerEnds, ServiceStep
<1>2. CallsOK'
  BY <1>1, HandlerCalls
<1>3. \A j \in Line : /\ call'[j] = "working" => call[j] = "working"
                      /\ call'[j] \in {"none", "waiting"} =>
                           call[j] \in {"none", "waiting"}
  BY <1>1
<1>4. GateOK'
  BY <1>1, <1>3 DEF SessionOK, GateOK, WorkersHoldThePermits
<1> QED
  BY <1>2, <1>4

LEMMA InitSession == Init => SessionOK
<1> SUFFICES ASSUME Init PROVE SessionOK
  OBVIOUS
<1>1. PipesOK
  <2>1. /\ 0 \in 0 .. MaxLines /\ 0 \in 0 .. PipeRoom /\ Permits \in 0 .. Permits
        /\ Len(<<>>) = 0
        /\ 0 <= MaxLines /\ 0 <= PipeRoom /\ 0 <= ErrorRoom
    BY Bounds
  <2>2. TypeOK
    <3>1. input \in InputState /\ output \in OutputState
      BY IdleType DEF Init
    <3>2. call \in [Line -> CallState]
      BY DEF Init, CallState
    <3>3. /\ sent \in Seq(Kind) /\ Len(sent) <= MaxLines
          /\ stdin \in Seq(Line) /\ Len(stdin) <= PipeRoom
          /\ stdout \in Seq(Piece) /\ unread \in 0 .. PipeRoom
          /\ inbound \in Seq(Line) /\ Len(inbound) <= PipeRoom
          /\ errors \in Seq(Line) /\ Len(errors) <= ErrorRoom
          /\ outbound \in Seq(Piece) /\ Len(outbound) <= PipeRoom
          /\ partial \in Seq(Piece)
      BY <2>1 DEF Init
    <3>4. worker \subseteq Line /\ free \in 0 .. Permits
      BY <2>1 DEF Init
    <3> QED
      BY <3>1, <3>2, <3>3, <3>4 DEF Init, TypeOK, InputState, OutputState, CallState
  <2>3. NumbersOK /\ HeldOK
    BY <2>1 DEF Init, NumbersOK, HeldOK
  <2> QED
    BY <2>2, <2>3 DEF PipesOK
<1>2. CallsOK
  BY DEF Init, CallsOK
<1>3. GateOK
  BY FS_EmptySet, Bounds DEF Init, GateOK, WorkersHoldThePermits
<1> QED
  BY <1>1, <1>2, <1>3 DEF SessionOK

LEMMA NextSession == SessionOK /\ [Next]_vars => SessionOK'
<1> SUFFICES ASSUME SessionOK, [Next]_vars PROVE SessionOK'
  OBVIOUS
<1>0. PipesOK /\ CallsOK /\ GateOK
  BY DEF SessionOK
<1>1. CASE Send
  BY <1>0, <1>1, SendPipes, SendCalls DEF SessionOK
<1>2. CASE CloseInput \/ Receive \/ GoDeaf
  <2>1. UNCHANGED <<sent, stdin, inbound, input, call, worker, free>> /\ Taken' = Taken
    BY <1>2 DEF CloseInput, Receive, GoDeaf, Taken
  <2> QED
    BY <1>0, <1>2, <2>1, ClientPipes, SameCalls, SameGate DEF SessionOK
<1>3. CASE ReadLine
  BY <1>0, <1>3, ReadPipes, ReadCalls DEF SessionOK
<1>4. CASE ForwardLine
  BY <1>0, <1>4, ForwardPipes, ForwardCalls DEF SessionOK
<1>5. CASE RefuseLine \/ EndInput
  <2>1. UNCHANGED <<sent, stdin, inbound, call, worker, free>> /\ Taken' = Taken
    BY <1>5 DEF RefuseLine, EndInput, InputStep, Taken
  <2>2. input'.at # "forward"
    <3>1. input \in InputState
      BY <1>0 DEF PipesOK, TypeOK, InputState
    <3> QED
      BY <1>5, <3>1 DEF RefuseLine, EndInput, InputState
  <2> QED
    BY <1>0, <1>5, <2>1, <2>2, RefusePipes, EndInputPipes, SameCalls, SameGate
       DEF SessionOK
<1>6. CASE Accept
  BY <1>0, <1>6, AcceptPipes, AcceptCalls DEF SessionOK
<1>7. CASE RefuseStart
  <2>1. UNCHANGED <<sent, stdin, call, worker, free>> /\ Taken' = Taken
        /\ inbound' = <<>>
    BY <1>7 DEF RefuseStart, Taken
  <2>2. input' = input \/ input'.at # "forward"
    BY <1>7 DEF RefuseStart
  <2> QED
    BY <1>0, <1>7, <2>1, <2>2, RefuseStartPipes, SameCalls, SameGate DEF SessionOK
<1>8. CASE TakeMessage
  BY <1>0, <1>8, TakeMessagePipes, TakeMessageCalls DEF SessionOK
<1>9. CASE Stop
  <2>1. UNCHANGED <<sent, stdin, input, call, worker, free>> /\ Taken' = Taken
        /\ inbound' = <<>>
    BY <1>9 DEF Stop, ServiceStep, Taken
  <2> QED
    BY <1>0, <1>9, <2>1, StopPipes, SameCalls, SameGate DEF SessionOK
<1>10. ASSUME NEW i \in Line, Handler(i) PROVE SessionOK'
  <2>1. CASE Admit(i)
    BY <1>0, <2>1, AdmitPipes, AdmitCalls DEF SessionOK
  <2>2. CASE WorkerEnds(i)
    BY <1>0, <2>2, WorkerEndsPipes, WorkerEndsCalls DEF SessionOK
  <2>3. CASE AnswerBegins(i)
    BY <1>0, <2>3, AnswerBeginsPipes, AnswerCalls DEF SessionOK
  <2>4. CASE AnswerEnds(i)
    BY <1>0, <2>4, AnswerEndsPipes, AnswerCalls DEF SessionOK
  <2> QED
    BY <1>10, <2>1, <2>2, <2>3, <2>4 DEF Handler
<1>11. CASE Output
  <2>1. UNCHANGED <<sent, stdin, input, inbound, call, worker, free>> /\ Taken' = Taken
    BY <1>11 DEF Output, TakeAnswer, WriteLine, LinesWritten, TakeError, WriteError,
       EndOutput, OutputStep, Taken
  <2>2. PipesOK'
    BY <1>0, <1>11, TakeAnswerPipes, WriteLinePipes, LinesWrittenPipes,
       TakeErrorPipes, WriteErrorPipes, EndOutputPipes DEF Output
  <2> QED
    BY <1>0, <2>1, <2>2, SameCalls, SameGate DEF SessionOK
<1>12. CASE Finish
  <2>1. UNCHANGED <<sent, stdin, input, inbound, call, worker, free>> /\ Taken' = Taken
    BY <1>12 DEF Finish, Join, Abandon, Taken
  <2> QED
    BY <1>0, <1>12, <2>1, FinishPipes, SameCalls, SameGate DEF SessionOK
<1>13. CASE UNCHANGED vars
  <2>1. TypeOK' /\ NumbersOK' /\ HeldOK'
    <3>1. UNCHANGED <<sent, stdin, input, output>>
      BY <1>13 DEF vars
    <3>2. TypeOK'
      BY <1>0, <1>13 DEF vars, PipesOK, TypeOK
    <3> QED
      BY <1>0, <3>1, <3>2, SameNumbers, SameHeld
  <2>2. UNCHANGED <<inbound, input, call, worker, free>> /\ Taken' = Taken
    BY <1>13 DEF vars, Taken
  <2> QED
    BY <1>0, <2>1, <2>2, SameCalls, SameGate DEF SessionOK, PipesOK
<1> QED
  BY <1>1, <1>2, <1>3, <1>4, <1>5, <1>6, <1>7, <1>8, <1>9, <1>10, <1>11, <1>12,
     <1>13 DEF Next, Input, Library, Over

LEMMA SessionInvariant == Spec => []SessionOK
BY InitSession, NextSession, PTL DEF Spec

(* Every variable of the transport has its type, so no pipe and no queue   *)
(* outgrows its room.                                                      *)
THEOREM TypeCorrect == Spec => []TypeOK
<1>1. SessionOK => TypeOK
  BY DEF SessionOK, PipesOK
<1> QED
  BY <1>1, SessionInvariant, PTL

(* The permits in use are those of the workers that run, whatever was      *)
(* cancelled, lost or panicked.                                            *)
THEOREM PermitsFollowWorkers == Spec => []WorkersHoldThePermits
<1>1. SessionOK => WorkersHoldThePermits
  BY DEF SessionOK, GateOK
<1> QED
  BY <1>1, SessionInvariant, PTL

-----------------------------------------------------------------------------
(* Where a bad line is. *)

Lost == input.at \in {"failed", "aborted"} \/ output.at \in {"failed", "aborted"}

Owed(i) ==
    \/ input.at = "refuse" /\ input.line = i
    \/ \E k \in 1 .. Len(errors) : errors[k] = i
    \/ output.at = "error" /\ output.line = i
    \/ \E k \in 1 .. Len(stdout) : stdout[k] = <<i, "error">>

(* A bad line that was taken is on its way or answered, unless a proxy     *)
(* failed; and a proxy that is done has nothing left.                      *)
BadLinesOK ==
    ~Lost => \A i \in 1 .. Taken : sent[i] = "bad" => Owed(i)

EndsOK ==
    /\ input.at = "done" => stdin = <<>> /\ inputEnd
    /\ output.at = "done" => errors = <<>> /\ partial = <<>> /\ InputOver
    /\ process = "success" => input.at = "done" /\ output.at = "done"

RepliesOK == BadLinesOK /\ EndsOK

StdoutGrows ==
    \A k \in 1 .. Len(stdout) : k \in 1 .. Len(stdout') /\ stdout'[k] = stdout[k]

LEMMA StdoutStays ==
    ASSUME stdout' = stdout
    PROVE  StdoutGrows
BY DEF StdoutGrows

LEMMA WriteGrows ==
    ASSUME PipesOK, NEW pieces \in Seq(Piece), NEW then, Write(pieces, then)
    PROVE  StdoutGrows
<1>1. stdout \in Seq(Piece) /\ Len(stdout) \in Nat /\ Len(pieces) \in Nat
  BY DEF PipesOK, TypeOK
<1>2. CASE stdout' = stdout \o pieces
  <2>1. /\ Len(stdout') = Len(stdout) + Len(pieces)
        /\ \A i \in 1 .. Len(stdout) + Len(pieces) : stdout'[i] =
              IF i <= Len(stdout) THEN stdout[i] ELSE pieces[i - Len(stdout)]
    BY <1>1, <1>2, ConcatProperties
  <2> QED
    BY <1>1, <2>1 DEF StdoutGrows
<1>3. CASE stdout' = stdout
  BY <1>3, StdoutStays
<1> QED
  BY <1>2, <1>3 DEF Write

LEMMA SameBad ==
    ASSUME BadLinesOK, UNCHANGED <<sent, stdin, errors>>, StdoutGrows,
           Lost' \/ /\ ~Lost
                    /\ input' = input \/ input.at # "refuse"
                    /\ output' = output \/ output.at # "error"
    PROVE  BadLinesOK'
<1>1. Taken' = Taken
  BY DEF Taken
<1>2. CASE Lost'
  BY <1>2 DEF BadLinesOK
<1>3. CASE /\ ~Lost
           /\ input' = input \/ input.at # "refuse"
           /\ output' = output \/ output.at # "error"
  <2>1. \A i : Owed(i) => Owed(i)'
    BY <1>3 DEF Owed, StdoutGrows
  <2> QED
    BY <1>1, <1>3, <2>1 DEF BadLinesOK
<1> QED
  BY <1>2, <1>3

LEMMA SendReplies ==
    ASSUME SessionOK, RepliesOK, Send PROVE RepliesOK'
<1>1. PICK kind \in Kind : sent' = Append(sent, kind)
  BY DEF Send
<1>2. /\ Len(sent') = Len(sent) + 1
      /\ \A k \in 1 .. Len(sent) : sent'[k] = sent[k]
  BY <1>1, AppendProperties DEF SessionOK, PipesOK, TypeOK
<1>3. stdin' = Append(stdin, Len(sent) + 1) /\ stdin \in Seq(Line)
  BY DEF Send, SessionOK, PipesOK, TypeOK
<1>4. Len(stdin') = Len(stdin) + 1
  BY <1>3
<1>5. Taken' = Taken /\ Taken \in Nat /\ Taken <= Len(sent) /\ Len(sent) \in Nat
  BY <1>2, <1>4, Sizes DEF SessionOK, Taken
<1>6. \A i \in 1 .. Taken : sent'[i] = sent[i]
  BY <1>2, <1>5
<1>7. UNCHANGED <<input, output, errors, stdout, partial, process>> /\ ~inputEnd
  BY DEF Send
<1>8. BadLinesOK'
  BY <1>5, <1>6, <1>7 DEF RepliesOK, BadLinesOK, Lost, Owed
<1>9. EndsOK'
  BY <1>7 DEF RepliesOK, EndsOK
<1> QED
  BY <1>8, <1>9 DEF RepliesOK

LEMMA ReadReplies ==
    ASSUME SessionOK, RepliesOK, ReadLine PROVE RepliesOK'
<1>1. /\ UNCHANGED <<sent, output, errors, stdout, partial, process>>
      /\ input.at = "read"
      /\ input' = [at |-> IF sent[Head(stdin)] = "bad" THEN "refuse" ELSE "forward",
                   line |-> Head(stdin)]
      /\ stdin \in Seq(Line) /\ stdin # <<>> /\ stdin' = Tail(stdin)
  BY DEF ReadLine, InputStep, SessionOK, PipesOK, TypeOK
<1>2. /\ Len(stdin') = Len(stdin) - 1
      /\ Head(stdin) = stdin[1] /\ 1 \in 1 .. Len(stdin)
  BY <1>1, HeadTailProperties, EmptySeq
<1>3. Taken' = Taken + 1 /\ Taken \in Nat
  BY <1>1, <1>2, Sizes DEF SessionOK, Taken
<1>4. Head(stdin) = Taken + 1
  BY <1>2 DEF SessionOK, PipesOK, NumbersOK
<1>5. BadLinesOK'
  <2> SUFFICES ASSUME ~Lost', NEW i \in 1 .. Taken + 1, sent[i] = "bad"
               PROVE  Owed(i)'
    BY <1>1, <1>3 DEF BadLinesOK
  <2>1. ~Lost
    BY <1>1 DEF Lost
  <2>2. CASE i = Taken + 1
    BY <1>1, <1>4, <2>2 DEF Owed
  <2>3. CASE i # Taken + 1
    <3>1. i \in 1 .. Taken
      BY <1>3, <2>3
    <3>2. Owed(i)
      BY <2>1, <3>1 DEF RepliesOK, BadLinesOK
    <3> QED
      BY <1>1, <3>2 DEF Owed
  <2> QED
    BY <2>2, <2>3
<1>6. EndsOK'
  BY <1>1 DEF RepliesOK, EndsOK
<1> QED
  BY <1>5, <1>6 DEF RepliesOK

LEMMA ForwardReplies ==
    ASSUME SessionOK, RepliesOK, ForwardLine PROVE RepliesOK'
<1>1. /\ UNCHANGED <<sent, stdin, output, errors, stdout, partial, process>>
      /\ input.at = "forward" /\ input \in InputState
      /\ input' = Idle \/ input' = [input EXCEPT !.at = "failed"]
  BY DEF ForwardLine, InputStep, SessionOK, PipesOK, TypeOK, InputState
<1>2. input'.at \in {"read", "failed"}
  <2>1. CASE input' = Idle
    BY <2>1 DEF Idle
  <2>2. CASE input' = [input EXCEPT !.at = "failed"]
    BY <1>1, <2>2, FailType
  <2> QED
    BY <1>1, <2>1, <2>2
<1>3. Lost' \/ ~Lost
  BY <1>1, <1>2 DEF Lost
<1>4. BadLinesOK'
  BY <1>1, <1>3, StdoutStays, SameBad DEF RepliesOK
<1>5. EndsOK'
  BY <1>1, <1>2 DEF RepliesOK, EndsOK
<1> QED
  BY <1>4, <1>5 DEF RepliesOK

LEMMA RefuseReplies ==
    ASSUME SessionOK, RepliesOK, RefuseLine PROVE RepliesOK'
<1>1. /\ UNCHANGED <<sent, stdin, output, stdout, partial, process>>
      /\ Taken' = Taken
      /\ input.at = "refuse" /\ input \in InputState /\ input.line \in Line
      /\ errors \in Seq(Line) /\ Len(errors) \in Nat
  <2>1. input.line \in Line
    <3>1. input.line \in 1 .. Len(sent) /\ Len(sent) <= MaxLines
      BY DEF RefuseLine, SessionOK, PipesOK, HeldOK, TypeOK
    <3> QED
      BY <3>1, Sizes, Bounds DEF SessionOK, Line
  <2> QED
    BY <2>1 DEF RefuseLine, InputStep, SessionOK, PipesOK, TypeOK, InputState, Taken
<1>2. CASE errors' = Append(errors, input.line) /\ input' = Idle
  <2>1. /\ Len(errors') = Len(errors) + 1
        /\ \A k \in 1 .. Len(errors) : errors'[k] = errors[k]
        /\ errors'[Len(errors) + 1] = input.line
    BY <1>1, <1>2, AppendProperties
  <2>2. /\ Len(errors) + 1 \in 1 .. Len(errors')
        /\ \A k \in 1 .. Len(errors) : k \in 1 .. Len(errors')
    BY <1>1, <2>1
  <2>3. \A i : Owed(i) => Owed(i)'
    BY <1>1, <1>2, <2>1, <2>2 DEF Owed
  <2>4. Lost' => Lost
    BY <1>1, <1>2 DEF Lost
  <2>5. Lost => Lost'
    BY <1>1 DEF Lost
  <2>6. BadLinesOK'
    BY <1>1, <2>3, <2>4, <2>5 DEF RepliesOK, BadLinesOK
  <2>7. EndsOK'
    BY <1>1, <1>2 DEF RepliesOK, EndsOK
  <2> QED
    BY <2>6, <2>7 DEF RepliesOK
<1>3. CASE input' = [input EXCEPT !.at = "failed"] /\ UNCHANGED errors
  <2>1. input'.at = "failed"
    BY <1>1, <1>3, FailType
  <2>2. BadLinesOK'
    BY <2>1 DEF BadLinesOK, Lost
  <2>3. EndsOK'
    BY <1>1, <1>3, <2>1 DEF RepliesOK, EndsOK
  <2> QED
    BY <2>2, <2>3 DEF RepliesOK
<1> QED
  BY <1>2, <1>3 DEF RefuseLine

LEMMA EndInputReplies ==
    ASSUME SessionOK, RepliesOK, EndInput PROVE RepliesOK'
<1>1. /\ UNCHANGED <<sent, stdin, output, errors, stdout, partial, process, inputEnd>>
      /\ input.at = "read" /\ input \in InputState /\ stdin = <<>> /\ inputEnd
      /\ input' = [input EXCEPT !.at = "done"]
  BY DEF EndInput, InputStep, SessionOK, PipesOK, TypeOK, InputState
<1>2. input'.at = "done"
  BY <1>1 DEF InputState
<1>3. Lost' \/ ~Lost
  BY <1>1, <1>2 DEF Lost
<1>4. BadLinesOK'
  BY <1>1, <1>3, StdoutStays, SameBad DEF RepliesOK
<1>5. EndsOK'
  BY <1>1, <1>2 DEF RepliesOK, EndsOK
<1> QED
  BY <1>4, <1>5 DEF RepliesOK

LEMMA RefuseStartReplies ==
    ASSUME SessionOK, RepliesOK, RefuseStart PROVE RepliesOK'
<1>1. /\ UNCHANGED <<sent, stdin, errors, stdout, partial, inputEnd>>
      /\ process' = "aborting"
      /\ input \in InputState /\ output \in OutputState
  BY DEF RefuseStart, SessionOK, PipesOK, TypeOK, InputState, OutputState
<1>2. /\ InputOver => input' = input
      /\ ~InputOver => input'.at = "aborted"
  BY <1>1 DEF RefuseStart
<1>3. /\ OutputOver => output' = output
      /\ ~OutputOver => output'.at = "aborted"
  <2>1. ~OutputOver => output' = [output EXCEPT !.at = "aborted"]
    BY DEF RefuseStart
  <2>2. OutputOver => output' = output
    BY DEF RefuseStart
  <2> QED
    BY <1>1, <2>1, <2>2 DEF OutputState
<1>4. Lost' \/ (~Lost /\ input' = input /\ output' = output)
  BY <1>2, <1>3 DEF Lost
<1>5. BadLinesOK'
  BY <1>1, <1>4, StdoutStays, SameBad DEF RepliesOK
<1>6. EndsOK'
  BY <1>1, <1>2, <1>3 DEF RepliesOK, EndsOK
<1> QED
  BY <1>5, <1>6 DEF RepliesOK

(* Steps that move no line and end nothing. *)
LEMMA OtherReplies ==
    ASSUME SessionOK, RepliesOK,
           \/ CloseInput \/ Receive \/ GoDeaf
           \/ Accept \/ TakeMessage \/ Stop
           \/ \E i \in Line : Handler(i)
           \/ Finish
           \/ UNCHANGED vars
    PROVE  RepliesOK'
<1>1. /\ UNCHANGED <<sent, stdin, errors, stdout, partial, input, output>>
      /\ inputEnd' = inputEnd \/ inputEnd' = TRUE
      /\ process' = "success" =>
           process = "success" \/ (input.at = "done" /\ output.at = "done")
  BY DEF CloseInput, Receive, GoDeaf, Accept, TakeMessage, Stop, ServiceStep,
     Handler, Admit, WorkerEnds, AnswerBegins, AnswerEnds, Finish, Join, Abandon,
     vars
<1>2. Lost' \/ ~Lost
  BY <1>1 DEF Lost
<1>3. BadLinesOK'
  BY <1>1, <1>2, StdoutStays, SameBad DEF RepliesOK
<1>4. EndsOK'
  BY <1>1 DEF RepliesOK, EndsOK
<1> QED
  BY <1>3, <1>4 DEF RepliesOK

LEMMA TakeErrorReplies ==
    ASSUME SessionOK, RepliesOK, TakeError PROVE RepliesOK'
<1>1. /\ UNCHANGED <<sent, stdin, stdout, partial, process, input, inputEnd>>
      /\ output.at = "read" /\ errors \in Seq(Line) /\ errors # <<>>
      /\ output' = [at |-> "error", line |-> Head(errors)]
      /\ errors' = Tail(errors)
  BY DEF TakeError, OutputStep, SessionOK, PipesOK, TypeOK
<1>2. /\ Len(errors) \in Nat \ {0} /\ Len(errors') = Len(errors) - 1
      /\ \A k \in 1 .. Len(errors') : errors'[k] = errors[k + 1]
      /\ Head(errors) = errors[1]
  BY <1>1, HeadTailProperties, EmptySeq
<1>3. ASSUME NEW i, \E k \in 1 .. Len(errors) : errors[k] = i
      PROVE  Owed(i)'
  <2>1. PICK k \in 1 .. Len(errors) : errors[k] = i
    BY <1>3
  <2>2. CASE k = 1
    BY <1>1, <1>2, <2>1, <2>2 DEF Owed
  <2>3. CASE k # 1
    <3>1. k - 1 \in 1 .. Len(errors') /\ (k - 1) + 1 = k
      BY <1>2, <2>3
    <3>2. errors'[k - 1] = i
      BY <1>2, <2>1, <3>1
    <3> QED
      BY <3>1, <3>2 DEF Owed
  <2> QED
    BY <2>2, <2>3
<1>4. \A i : Owed(i) => Owed(i)'
  BY <1>1, <1>3 DEF Owed
<1>5. Lost => Lost'
  BY <1>1 DEF Lost
<1>6. BadLinesOK'
  BY <1>1, <1>4, <1>5 DEF RepliesOK, BadLinesOK, Taken
<1>7. EndsOK'
  BY <1>1 DEF RepliesOK, EndsOK
<1> QED
  BY <1>6, <1>7 DEF RepliesOK

LEMMA WriteErrorReplies ==
    ASSUME SessionOK, RepliesOK, WriteError PROVE RepliesOK'
<1>1. /\ UNCHANGED <<sent, stdin, errors, partial, process, input, inputEnd>>
      /\ output.at = "error" /\ output.line \in Line
      /\ Write(<<<<output.line, "error">>>>, "read")
      /\ stdout \in Seq(Piece) /\ Len(stdout) \in Nat
      /\ output \in OutputState
  BY DEF WriteError, OutputStep, SessionOK, PipesOK, HeldOK, TypeOK, OutputState
<1> DEFINE piece == <<output.line, "error">>
<1>2. piece \in Piece /\ <<piece>> \in Seq(Piece)
  BY <1>1 DEF Piece
<1>3. StdoutGrows
  BY <1>1, <1>2, WriteGrows DEF SessionOK
<1>4. CASE /\ stdout' = stdout \o <<piece>>
           /\ output' = [output EXCEPT !.at = "read"]
  <2>1. \E k \in 1 .. Len(stdout') : stdout'[k] = piece
    <3>1. Len(<<piece>>) = 1 /\ <<piece>>[1] = piece
      OBVIOUS
    <3> HIDE DEF piece
    <3>2. /\ Len(stdout') = Len(stdout) + 1
          /\ \A i \in 1 .. Len(stdout) + 1 : stdout'[i] =
                IF i <= Len(stdout) THEN stdout[i] ELSE <<piece>>[i - Len(stdout)]
      BY <1>1, <1>2, <1>4, <3>1, ConcatProperties
    <3>3. /\ Len(stdout) + 1 \in 1 .. Len(stdout') /\ ~(Len(stdout) + 1 <= Len(stdout))
          /\ Len(stdout) + 1 - Len(stdout) = 1
      BY <1>1, <3>2
    <3>4. stdout'[Len(stdout) + 1] = piece
      BY <3>1, <3>2, <3>3
    <3> QED
      BY <3>3, <3>4
  <2>2. output'.at = "read"
    BY <1>1, <1>4 DEF OutputState
  <2>3. \A i : Owed(i) => Owed(i)'
    BY <1>1, <1>3, <2>1, <2>2 DEF Owed, StdoutGrows
  <2>4. Lost => Lost'
    BY <1>1 DEF Lost
  <2>5. BadLinesOK'
    BY <1>1, <2>3, <2>4 DEF RepliesOK, BadLinesOK, Taken
  <2>6. EndsOK'
    BY <1>1, <2>2 DEF RepliesOK, EndsOK
  <2> QED
    BY <2>5, <2>6 DEF RepliesOK
<1>5. CASE output' = [output EXCEPT !.at = "failed"]
  <2>1. output'.at = "failed"
    BY <1>1, <1>5 DEF OutputState
  <2>2. BadLinesOK'
    BY <2>1 DEF BadLinesOK, Lost
  <2>3. EndsOK'
    BY <1>1, <2>1 DEF RepliesOK, EndsOK
  <2> QED
    BY <2>2, <2>3 DEF RepliesOK
<1> QED
  BY <1>1, <1>4, <1>5 DEF Write

LEMMA AnswerReplies ==
    ASSUME SessionOK, RepliesOK, TakeAnswer \/ WriteLine \/ LinesWritten
    PROVE  RepliesOK'
<1>1. /\ UNCHANGED <<sent, stdin, errors, process, input, inputEnd>>
      /\ output.at \in {"read", "lines"} /\ output \in OutputState
      /\ partial \in Seq(Piece) /\ Len(partial) \in Nat
  BY DEF TakeAnswer, WriteLine, LinesWritten, OutputStep, SessionOK, PipesOK, TypeOK,
     OutputState
<1>2. StdoutGrows /\ output'.at \in {"read", "lines", "failed"}
  <2>1. CASE TakeAnswer \/ LinesWritten
    BY <1>1, <2>1, StdoutStays DEF TakeAnswer, LinesWritten, OutputState
  <2>2. CASE WriteLine
    <3>1. PICK end \in 1 .. Len(partial) : Write(SubSeq(partial, 1, end), "lines")
      BY <2>2, FirstWhole DEF WriteLine, SessionOK
    <3>2. end \in 0 .. Len(partial)
      BY <1>1
    <3>3. SubSeq(partial, 1, end) \in Seq(Piece)
      BY <1>1, <3>2, PrefixType
    <3> QED
      BY <3>1, <3>3, WriteGrows, WritePipes DEF SessionOK
  <2> QED
    BY <2>1, <2>2
<1>3. Lost' \/ ~Lost
  BY <1>1, <1>2 DEF Lost
<1>4. BadLinesOK'
  BY <1>1, <1>2, <1>3, SameBad DEF RepliesOK
<1>5. EndsOK'
  BY <1>1, <1>2 DEF RepliesOK, EndsOK
<1> QED
  BY <1>4, <1>5 DEF RepliesOK

LEMMA EndOutputReplies ==
    ASSUME SessionOK, RepliesOK, EndOutput PROVE RepliesOK'
<1>1. /\ UNCHANGED <<sent, stdin, errors, process, input, inputEnd>>
      /\ output.at = "read" /\ partial' = <<>>
  BY DEF EndOutput, OutputStep
<1>2. /\ StdoutGrows /\ output'.at \in {"read", "done", "failed"}
      /\ output'.at = "done" => errors = <<>> /\ InputOver
  <2> DEFINE pieces == [i \in DOMAIN partial |-> <<partial[i][1], "tail">>]
  <2>1. PICK then \in {"read", "done"} :
          /\ then = "done" => errors = <<>> /\ InputOver
          /\ Write(pieces, then)
    BY DEF EndOutput
  <2>2. pieces \in Seq(Piece) /\ PipesOK
    BY EndedLines DEF SessionOK
  <2> HIDE DEF pieces
  <2>3. StdoutGrows
    BY <2>1, <2>2, WriteGrows
  <2>4. output'.at \in {then, "failed"}
    BY <2>1, <2>2, WritePipes
  <2> QED
    BY <2>1, <2>3, <2>4
<1>3. Lost' \/ ~Lost
  BY <1>1, <1>2 DEF Lost
<1>4. BadLinesOK'
  BY <1>1, <1>2, <1>3, SameBad DEF RepliesOK
<1>5. EndsOK'
  BY <1>1, <1>2 DEF RepliesOK, EndsOK
<1> QED
  BY <1>4, <1>5 DEF RepliesOK

LEMMA InitReplies == Init => RepliesOK
<1> SUFFICES ASSUME Init PROVE RepliesOK
  OBVIOUS
<1>1. Taken = 0
  BY DEF Init, Taken
<1> QED
  BY <1>1 DEF Init, RepliesOK, BadLinesOK, EndsOK

LEMMA NextReplies == SessionOK /\ RepliesOK /\ [Next]_vars => RepliesOK'
<1> SUFFICES ASSUME SessionOK, RepliesOK, [Next]_vars PROVE RepliesOK'
  OBVIOUS
<1>1. CASE Send
  BY <1>1, SendReplies
<1>2. CASE Input
  BY <1>2, ReadReplies, ForwardReplies, RefuseReplies, EndInputReplies DEF Input
<1>3. CASE Output
  BY <1>3, AnswerReplies, TakeErrorReplies, WriteErrorReplies, EndOutputReplies
     DEF Output
<1>4. CASE RefuseStart
  BY <1>4, RefuseStartReplies
<1>5. CASE Over \/ UNCHANGED vars
  BY <1>5, OtherReplies DEF Over
<1> QED
  BY <1>1, <1>2, <1>3, <1>4, <1>5, OtherReplies DEF Next, Library

(* A zero exit status says that standard input was read to its end and     *)
(* that every line the transport itself had to answer was answered.        *)
THEOREM SuccessIsComplete == Spec => []SuccessAnswersEveryBadLine
<1>1. SessionOK /\ RepliesOK => SuccessAnswersEveryBadLine
  <2> SUFFICES ASSUME SessionOK, RepliesOK, process = "success"
               PROVE  /\ stdin = <<>> /\ errors = <<>> /\ partial = <<>>
                      /\ \A i \in DOMAIN sent : sent[i] = "bad" => Answered(i)
    BY DEF SuccessAnswersEveryBadLine
  <2>1. /\ stdin = <<>> /\ errors = <<>> /\ partial = <<>>
        /\ input.at = "done" /\ output.at = "done"
    BY DEF RepliesOK, EndsOK
  <2>2. Taken = Len(sent) /\ DOMAIN sent = 1 .. Len(sent)
    BY <2>1, Sizes DEF Taken, SessionOK, PipesOK, TypeOK
  <2>3. ASSUME NEW i \in DOMAIN sent, sent[i] = "bad" PROVE Answered(i)
    <3>1. Owed(i)
      BY <2>1, <2>2, <2>3 DEF RepliesOK, BadLinesOK, Lost
    <3>2. PICK k \in 1 .. Len(stdout) : stdout[k] = <<i, "error">>
      BY <2>1, <3>1 DEF Owed
    <3>3. k \in DOMAIN stdout
      BY DEF SessionOK, PipesOK, TypeOK
    <3>4. <<i, "error">> \in ToSet(stdout)
      BY <3>2, <3>3 DEF ToSet
    <3> QED
      BY <3>4 DEF Answered
  <2> QED
    BY <2>1, <2>3
<1>2. Init => SessionOK /\ RepliesOK
  BY InitSession, InitReplies
<1>3. (SessionOK /\ RepliesOK) /\ [Next]_vars => (SessionOK /\ RepliesOK)'
  BY NextSession, NextReplies
<1> QED
  BY <1>1, <1>2, <1>3, PTL DEF Spec

-----------------------------------------------------------------------------
(* Where the pieces of an answer are. *)

(* The pieces that are still on their way to standard output. *)
Rest == partial \o outbound

(* They begin a line, alternate, and only the last line may still miss its *)
(* tail, which is that of the one answer being written.                    *)
ShapeOK ==
    /\ \A k \in 1 .. Len(Rest) :
         /\ Rest[k][2] \in {"head", "tail"}
         /\ k = 1 => Rest[k][2] = "head"
         /\ k < Len(Rest) /\ Rest[k][2] = "head" =>
              Rest[k + 1] = <<Rest[k][1], "tail">>
         /\ k < Len(Rest) /\ Rest[k][2] = "tail" => Rest[k + 1][2] = "head"
    /\ \A j, k \in 1 .. Len(Rest) : Rest[j] = Rest[k] => j = k

WritersOK ==
    /\ \A k \in 1 .. Len(Rest) :
         /\ Rest[k][2] = "tail" => call[Rest[k][1]] = "answered"
         /\ k = Len(Rest) /\ Rest[k][2] = "head" => call[Rest[k][1]] = "answering"
    /\ \A i \in Line : call[i] = "answering" =>
         Len(Rest) > 0 /\ Rest[Len(Rest)] = <<i, "head">>

(* What was written is not on its way any more. *)
WrittenOK ==
    \A k \in 1 .. Len(stdout) : stdout[k][2] # "error" =>
        /\ call[stdout[k][1]] = "answered"
        /\ \A j \in 1 .. Len(Rest) : stdout[k] # Rest[j]

(* Error replies keep the order of their lines. *)
Before(i) == i <= Taken /\ (input.at = "refuse" => i < Taken)

Replied(i) == \E k \in 1 .. Len(stdout) : stdout[k] = <<i, "error">>

OrderOK ==
    /\ \A i \in Line : Replied(i) =>
         /\ Before(i)
         /\ output.at = "error" => i < output.line
         /\ \A m \in 1 .. Len(errors) : i < errors[m]
    /\ output.at = "error" =>
         /\ Before(output.line)
         /\ \A m \in 1 .. Len(errors) : output.line < errors[m]
    /\ \A m \in 1 .. Len(errors) : Before(errors[m])
    /\ \A l, m \in 1 .. Len(errors) : l < m => errors[l] < errors[m]

FlowOK == ShapeOK /\ WritersOK /\ WrittenOK /\ (output.at # "lines" => Len(partial) <= 1)

(* The service has stopped and output has written all it got of it: what   *)
(* was left of an answer was ended as a line, so its handler owes a tail    *)
(* that will not come.                                                     *)
Drained == service = "stopped" /\ partial = <<>> /\ outbound = <<>>

LinesOK ==
    StdoutIsWholeLines /\ (~OutputOver => (Drained \/ FlowOK) /\ OrderOK)

LEMMA RestType ==
    ASSUME PipesOK
    PROVE  /\ Rest \in Seq(Piece) /\ Len(Rest) \in Nat
           /\ partial \in Seq(Piece) /\ Len(partial) \in Nat
           /\ outbound \in Seq(Piece) /\ Len(outbound) \in Nat
           /\ stdout \in Seq(Piece) /\ Len(stdout) \in Nat
           /\ DOMAIN stdout = 1 .. Len(stdout)
           /\ Len(Rest) = Len(partial) + Len(outbound)
           /\ \A k \in 1 .. Len(Rest) : /\ Rest[k] \in Piece
                                        /\ Rest[k][1] \in Line
                                        /\ Rest[k] = <<Rest[k][1], Rest[k][2]>>
           /\ \A k \in 1 .. Len(Rest) :
                Rest[k] = IF k <= Len(partial) THEN partial[k]
                          ELSE outbound[k - Len(partial)]
<1>1. /\ partial \in Seq(Piece) /\ outbound \in Seq(Piece) /\ stdout \in Seq(Piece)
  BY DEF PipesOK, TypeOK
<1>2. /\ Len(partial) \in Nat /\ Len(outbound) \in Nat /\ Len(stdout) \in Nat
      /\ DOMAIN stdout = 1 .. Len(stdout)
  BY <1>1
<1>3. /\ Rest \in Seq(Piece) /\ Len(Rest) = Len(partial) + Len(outbound)
      /\ \A k \in 1 .. Len(partial) + Len(outbound) :
           Rest[k] = IF k <= Len(partial) THEN partial[k]
                     ELSE outbound[k - Len(partial)]
  BY <1>1, ConcatProperties DEF Rest
<1>4. \A k \in 1 .. Len(Rest) : Rest[k] \in Piece
  BY <1>3
<1>5. \A k \in 1 .. Len(Rest) : Rest[k][1] \in Line /\ Rest[k] = <<Rest[k][1], Rest[k][2]>>
  BY <1>4 DEF Piece
<1> QED
  BY <1>1, <1>2, <1>3, <1>4, <1>5

(* Whole lines are written after whole lines. *)
LEMMA WriteLines ==
    ASSUME PipesOK, StdoutIsWholeLines,
           NEW pieces \in Seq(Piece), stdout' = stdout \o pieces,
           \A k \in 1 .. Len(pieces) : pieces[k][2] = "head" =>
              k < Len(pieces) /\ pieces[k + 1] = <<pieces[k][1], "tail">>,
           \A j, k \in 1 .. Len(pieces) : pieces[j] = pieces[k] => j = k,
           \A j \in 1 .. Len(stdout), k \in 1 .. Len(pieces) : stdout[j] # pieces[k]
    PROVE  StdoutIsWholeLines'
<1> DEFINE n == Len(stdout)
           m == Len(pieces)
<1>1. /\ stdout \in Seq(Piece) /\ n \in Nat /\ m \in Nat
      /\ stdout' \in Seq(Piece) /\ Len(stdout') = n + m
      /\ \A k \in 1 .. n + m : stdout'[k] = IF k <= n THEN stdout[k] ELSE pieces[k - n]
  BY RestType, ConcatProperties
<1>2. DOMAIN stdout = 1 .. n /\ DOMAIN stdout' = 1 .. n + m
  BY <1>1
<1>3. \A k \in 1 .. n : stdout[k][2] = "head" =>
         k < n /\ stdout[k + 1] = <<stdout[k][1], "tail">>
  BY <1>2 DEF StdoutIsWholeLines
<1>4. \A j, k \in 1 .. n : stdout[j] = stdout[k] => j = k
  BY <1>2 DEF StdoutIsWholeLines
<1> HIDE DEF n, m
<1>5. \A k \in 1 .. n : k \in 1 .. n + m /\ stdout'[k] = stdout[k]
  BY <1>1
<1>6. \A k \in n + 1 .. n + m : /\ k \in 1 .. n + m /\ k - n \in 1 .. m
                                /\ stdout'[k] = pieces[k - n]
  BY <1>1
<1>7. \A k \in 1 .. n + m : k \in 1 .. n \/ k \in n + 1 .. n + m
  BY <1>1
<1>8. ASSUME NEW k \in 1 .. n + m, stdout'[k][2] = "head"
      PROVE  k < n + m /\ stdout'[k + 1] = <<stdout'[k][1], "tail">>
  <2>1. CASE k \in 1 .. n
    <3>1. k < n /\ stdout[k + 1] = <<stdout[k][1], "tail">>
      BY <1>3, <1>5, <1>8, <2>1
    <3>2. k + 1 \in 1 .. n /\ k < n + m
      BY <1>1, <2>1, <3>1
    <3> QED
      BY <1>5, <2>1, <3>1, <3>2
  <2>2. CASE k \in n + 1 .. n + m
    <3>1. k - n \in 1 .. m /\ stdout'[k] = pieces[k - n]
      BY <1>6, <2>2
    <3>2. k - n < m /\ pieces[(k - n) + 1] = <<pieces[k - n][1], "tail">>
      BY <1>8, <3>1 DEF m
    <3>3. k + 1 \in n + 1 .. n + m /\ (k + 1) - n = (k - n) + 1 /\ k < n + m
      BY <1>1, <2>2, <3>2
    <3>4. stdout'[k + 1] = pieces[(k - n) + 1]
      BY <1>6, <3>3
    <3> QED
      BY <3>1, <3>2, <3>3, <3>4
  <2> QED
    BY <1>7, <2>1, <2>2
<1>9. ASSUME NEW j \in 1 .. n + m, NEW k \in 1 .. n + m, stdout'[j] = stdout'[k]
      PROVE  j = k
  <2>1. CASE j \in 1 .. n /\ k \in 1 .. n
    BY <1>4, <1>5, <1>9, <2>1
  <2>2. CASE j \in n + 1 .. n + m /\ k \in n + 1 .. n + m
    <3>1. j - n = k - n
      BY <1>6, <1>9, <2>2 DEF m
    <3> QED
      BY <1>1, <2>2, <3>1
  <2>3. CASE j \in 1 .. n /\ k \in n + 1 .. n + m
    BY <1>5, <1>6, <1>9, <2>3 DEF n, m
  <2>4. CASE j \in n + 1 .. n + m /\ k \in 1 .. n
    BY <1>5, <1>6, <1>9, <2>4 DEF n, m
  <2> QED
    BY <1>7, <2>1, <2>2, <2>3, <2>4
<1> QED
  BY <1>1, <1>2, <1>8, <1>9 DEF StdoutIsWholeLines

(* Steps that leave the pieces where they are. *)
LEMMA SameFlow ==
    ASSUME SessionOK, FlowOK, Rest' = Rest,
           stdout' = stdout,
           \A i \in Line : /\ call[i] = "answering" <=> call'[i] = "answering"
                           /\ call[i] = "answered" <=> call'[i] = "answered",
           output'.at # "lines" => Len(partial') <= 1
    PROVE  FlowOK'
<1>1. /\ stdout \in Seq(Piece) /\ Len(stdout) \in Nat
      /\ Len(Rest) \in Nat /\ \A k \in 1 .. Len(Rest) : Rest[k][1] \in Line
  BY RestType DEF SessionOK
<1>2. \A k \in 1 .. Len(stdout) : stdout[k][1] \in Line
  BY <1>1 DEF Piece
<1>3. ShapeOK'
  BY DEF FlowOK, ShapeOK
<1>4. WritersOK'
  <2>1. \A k \in 1 .. Len(Rest) :
           /\ Rest[k][2] = "tail" => call'[Rest[k][1]] = "answered"
           /\ k = Len(Rest) /\ Rest[k][2] = "head" => call'[Rest[k][1]] = "answering"
    BY <1>1 DEF FlowOK, WritersOK
  <2>2. \A i \in Line : call'[i] = "answering" =>
           Len(Rest) > 0 /\ Rest[Len(Rest)] = <<i, "head">>
    BY DEF FlowOK, WritersOK
  <2> QED
    BY <2>1, <2>2 DEF WritersOK
<1>5. WrittenOK'
  <2>1. \A k \in 1 .. Len(stdout) : stdout[k][2] # "error" =>
           /\ call'[stdout[k][1]] = "answered"
           /\ \A j \in 1 .. Len(Rest) : stdout[k] # Rest[j]
    BY <1>2 DEF FlowOK, WrittenOK
  <2> QED
    BY <2>1 DEF WrittenOK
<1> QED
  BY <1>3, <1>4, <1>5 DEF FlowOK

LEMMA SameOrder ==
    ASSUME SessionOK, OrderOK,
           Taken' >= Taken, Taken' \in Nat,
           input'.at # "refuse" \/ Taken' > Taken
             \/ (input' = input /\ Taken' = Taken),
           \A i \in Line : Replied(i)' => Replied(i),
           errors' = errors,
           output' = output \/ output'.at # "error"
    PROVE  OrderOK'
<1>1. /\ Taken \in Nat /\ Line \subseteq Nat
      /\ errors \in Seq(Line) /\ \A m \in 1 .. Len(errors) : errors[m] \in Line
      /\ output.at = "error" => output.line \in Line
  <2>1. errors \in Seq(Line) /\ (output.at = "error" => output.line \in Line)
    BY DEF SessionOK, PipesOK, TypeOK, HeldOK
  <2> QED
    BY <2>1, Sizes DEF SessionOK
<1> DEFINE After(i) == i <= Taken' /\ (input'.at = "refuse" => i < Taken')
<1>2. ASSUME NEW i \in Line, Before(i) PROVE After(i)
  <2>1. i \in Nat /\ i <= Taken
    BY <1>1, <1>2 DEF Before
  <2>2. i <= Taken'
    BY <1>1, <2>1
  <2>3. Taken' > Taken => i < Taken'
    BY <1>1, <2>1
  <2> QED
    BY <1>2, <2>2, <2>3 DEF Before
<1> HIDE DEF After
<1>3. \A i \in Line : Replied(i)' =>
         /\ After(i)
         /\ output.at = "error" => i < output.line
         /\ \A m \in 1 .. Len(errors) : i < errors[m]
  BY <1>2 DEF OrderOK
<1>4. output.at = "error" =>
         /\ After(output.line)
         /\ \A m \in 1 .. Len(errors) : output.line < errors[m]
  BY <1>1, <1>2 DEF OrderOK
<1>5. \A m \in 1 .. Len(errors) : After(errors[m])
  BY <1>1, <1>2 DEF OrderOK
<1>6. \A l, m \in 1 .. Len(errors) : l < m => errors[l] < errors[m]
  BY DEF OrderOK
<1>7. CASE output' = output
  BY <1>3, <1>4, <1>5, <1>6, <1>7 DEF OrderOK, Before, After
<1>8. CASE output'.at # "error"
  BY <1>3, <1>4, <1>5, <1>6, <1>8 DEF OrderOK, Before, After
<1> QED
  BY <1>7, <1>8

(* The steps outside output, but for a line that is refused and the pieces *)
(* of an answer. *)
LEMMA OtherLines ==
    ASSUME SessionOK, SessionOK', LinesOK,
           UNCHANGED <<stdout, outbound, partial, errors>>,
           Taken' >= Taken,
           input'.at # "refuse" \/ Taken' > Taken
             \/ (input' = input /\ Taken' = Taken),
           output' = output \/ output'.at = "aborted",
           service = "stopped" => service' = "stopped",
           \A i \in Line : /\ call[i] = "answering" <=> call'[i] = "answering"
                           /\ call[i] = "answered" <=> call'[i] = "answered"
    PROVE  LinesOK'
<1>1. StdoutIsWholeLines'
  BY DEF LinesOK, StdoutIsWholeLines
<1>2. Rest' = Rest /\ \A i : Replied(i)' => Replied(i)
  BY DEF Rest, Replied
<1>3. Taken' \in Nat
  <2>1. PipesOK'
    BY DEF SessionOK
  <2>2. Len(sent') \in Nat /\ Len(stdin') \in Nat /\ Len(stdin') <= Len(sent')
    BY <2>1 DEF PipesOK, TypeOK, NumbersOK
  <2> QED
    BY <2>2 DEF Taken
<1>4. ASSUME ~OutputOver' PROVE (Drained' \/ FlowOK') /\ OrderOK'
  <2>1. output' = output /\ ~OutputOver
    BY <1>4
  <2>2. (Drained \/ FlowOK) /\ OrderOK
    BY <2>1 DEF LinesOK
  <2>3. Drained' \/ FlowOK'
    <3>1. CASE Drained
      BY <3>1 DEF Drained
    <3>2. CASE FlowOK
      BY <1>2, <2>1, <3>2, SameFlow DEF FlowOK
    <3> QED
      BY <2>2, <3>1, <3>2
  <2>4. OrderOK'
    BY <1>2, <1>3, <2>1, <2>2, SameOrder
  <2> QED
    BY <2>3, <2>4
<1> QED
  BY <1>1, <1>4 DEF LinesOK

LEMMA ClientLines ==
    ASSUME SessionOK, SessionOK', LinesOK,
           Send \/ CloseInput \/ Receive \/ GoDeaf \/ ReadLine
    PROVE  LinesOK'
<1>1. UNCHANGED <<stdout, outbound, partial, errors, output, service, call>>
  BY DEF Send, CloseInput, Receive, GoDeaf, ReadLine, InputStep
<1>2. CASE Send \/ CloseInput \/ Receive \/ GoDeaf
  <2>1. UNCHANGED input
    BY <1>2 DEF Send, CloseInput, Receive, GoDeaf
  <2>2. Taken' = Taken /\ Taken \in Nat
    <3>1. CASE Send
      <4>1. PICK kind \in Kind : sent' = Append(sent, kind)
        BY <3>1 DEF Send
      <4>2. sent \in Seq(Kind) /\ stdin \in Seq(Line)
        BY DEF SessionOK, PipesOK, TypeOK
      <4>3. Len(sent') = Len(sent) + 1 /\ Len(stdin') = Len(stdin) + 1
        BY <3>1, <4>1, <4>2 DEF Send
      <4> QED
        BY <4>3, Sizes DEF SessionOK, Taken
    <3>2. CASE CloseInput \/ Receive \/ GoDeaf
      BY <3>2, Sizes DEF CloseInput, Receive, GoDeaf, SessionOK, Taken
    <3> QED
      BY <1>2, <3>1, <3>2
  <2> QED
    BY <1>1, <2>1, <2>2, OtherLines
<1>3. CASE ReadLine
  <2>1. Taken' = Taken + 1 /\ Taken \in Nat
    <3>1. Len(stdin') = Len(stdin) - 1
      BY <1>3, HeadTailProperties DEF SessionOK, PipesOK, TypeOK, ReadLine
    <3>2. sent' = sent
      BY <1>3 DEF ReadLine, InputStep
    <3> QED
      BY <3>1, <3>2, Sizes DEF SessionOK, Taken
  <2>2. Taken' >= Taken /\ Taken' > Taken
    BY <2>1
  <2> QED
    BY <1>1, <2>2, OtherLines
<1> QED
  BY <1>2, <1>3

(* A refused line is the last one taken, so its reply is the last in the   *)
(* queue.                                                                  *)
LEMMA RefuseOrder ==
    ASSUME SessionOK, OrderOK, RefuseLine,
           errors' = Append(errors, input.line), input' = Idle
    PROVE  OrderOK'
<1>1. /\ UNCHANGED <<stdout, output>> /\ Taken' = Taken /\ input.at = "refuse"
      /\ input.line = Taken /\ Taken \in Nat
      /\ errors \in Seq(Line) /\ Len(errors) \in Nat
      /\ Line \subseteq Nat /\ Taken \in Line
  <2>1. input.line = Taken /\ input.line \in 1 .. Len(sent) /\ Len(sent) <= MaxLines
    BY DEF RefuseLine, SessionOK, PipesOK, HeldOK, TypeOK
  <2>2. Taken \in Line
    BY <2>1, Sizes, Bounds DEF SessionOK, Line
  <2> QED
    BY <2>1, <2>2, Sizes DEF RefuseLine, InputStep, SessionOK, PipesOK, TypeOK, Taken
<1>2. /\ Len(errors') = Len(errors) + 1
      /\ \A m \in 1 .. Len(errors) : errors'[m] = errors[m] /\ errors[m] \in Line
      /\ errors'[Len(errors) + 1] = Taken
  BY <1>1, AppendProperties
<1>3. \A m \in 1 .. Len(errors') : m \in 1 .. Len(errors) \/ m = Len(errors) + 1
  BY <1>1, <1>2
<1>4. \A i \in Line : Before(i) => i < Taken /\ i <= Taken
  BY <1>1 DEF Before
<1>5. \A i \in Line : Replied(i) =>
         /\ i <= Taken
         /\ output.at = "error" => i < output.line
         /\ \A m \in 1 .. Len(errors') : i < errors'[m]
  BY <1>2, <1>3, <1>4 DEF OrderOK
<1>6. output.at = "error" =>
         /\ output.line <= Taken
         /\ \A m \in 1 .. Len(errors') : output.line < errors'[m]
  <2>1. output.at = "error" => output.line \in Line
    BY DEF SessionOK, PipesOK, HeldOK
  <2> QED
    BY <1>2, <1>3, <1>4, <2>1 DEF OrderOK
<1>7. \A m \in 1 .. Len(errors') : errors'[m] <= Taken
  <2>1. Taken <= Taken
    BY <1>1
  <2>2. \A m \in 1 .. Len(errors) : errors'[m] <= Taken
    BY <1>2, <1>4 DEF OrderOK
  <2> QED
    BY <1>2, <1>3, <2>1, <2>2
<1>8. ASSUME NEW l \in 1 .. Len(errors'), NEW m \in 1 .. Len(errors'), l < m
      PROVE  errors'[l] < errors'[m]
  <2>1. l \in 1 .. Len(errors)
    BY <1>1, <1>2, <1>8
  <2>2. CASE m \in 1 .. Len(errors)
    BY <1>2, <1>8, <2>1, <2>2 DEF OrderOK
  <2>3. CASE m = Len(errors) + 1
    BY <1>2, <1>4, <2>1, <2>3 DEF OrderOK
  <2> QED
    BY <1>3, <2>2, <2>3
<1>9. input'.at # "refuse" /\ \A i : Replied(i)' <=> Replied(i)
  BY <1>1 DEF Replied
<1> QED
  BY <1>1, <1>5, <1>6, <1>7, <1>8, <1>9 DEF OrderOK, Before

LEMMA InputLines ==
    ASSUME SessionOK, SessionOK', LinesOK, ForwardLine \/ RefuseLine \/ EndInput
    PROVE  LinesOK'
<1>1. /\ UNCHANGED <<stdout, outbound, partial, output, service, call>>
      /\ Taken' = Taken /\ Taken \in Nat /\ input \in InputState
  BY Sizes DEF ForwardLine, RefuseLine, EndInput, InputStep, Taken, SessionOK,
     PipesOK, TypeOK, InputState
<1>2. CASE /\ RefuseLine
           /\ errors' = Append(errors, input.line) /\ input' = Idle
  <2>1. StdoutIsWholeLines'
    BY <1>1 DEF LinesOK, StdoutIsWholeLines
  <2>2. ASSUME ~OutputOver' PROVE (Drained' \/ FlowOK') /\ OrderOK'
    <3>1. (Drained \/ FlowOK) /\ OrderOK /\ Rest' = Rest
      BY <1>1, <2>2 DEF LinesOK, Rest
    <3>2. Drained' \/ FlowOK'
      <4>1. CASE Drained
        BY <1>1, <4>1 DEF Drained
      <4>2. CASE FlowOK
        BY <1>1, <3>1, <4>2, SameFlow DEF FlowOK
      <4> QED
        BY <3>1, <4>1, <4>2
    <3> QED
      BY <1>2, <3>1, <3>2, RefuseOrder
  <2> QED
    BY <2>1, <2>2 DEF LinesOK
<1>3. CASE errors' = errors /\ input'.at # "refuse"
  <2>1. Taken' >= Taken
    BY <1>1
  <2> QED
    BY <1>1, <1>3, <2>1, OtherLines
<1>4. ASSUME input' = Idle \/ input' = [input EXCEPT !.at = "failed"]
               \/ input' = [input EXCEPT !.at = "done"]
      PROVE  input'.at # "refuse"
  BY <1>1, <1>4 DEF InputState
<1>5. \/ input' = Idle
      \/ input' = [input EXCEPT !.at = "failed"]
      \/ input' = [input EXCEPT !.at = "done"]
  BY DEF ForwardLine, RefuseLine, EndInput
<1>6. errors' = errors \/ (RefuseLine /\ errors' = Append(errors, input.line) /\ input' = Idle)
  BY DEF ForwardLine, RefuseLine, EndInput
<1> QED
  BY <1>2, <1>3, <1>4, <1>5, <1>6

(* Steps of the library, of the handlers and of run_stdio that write       *)
(* nothing.                                                                *)
LEMMA QuietLines ==
    ASSUME SessionOK, SessionOK', LinesOK,
           \/ Accept \/ RefuseStart \/ TakeMessage \/ Stop
           \/ \E i \in Line : Admit(i) \/ WorkerEnds(i)
           \/ Finish
           \/ UNCHANGED vars
    PROVE  LinesOK'
<1>1. /\ UNCHANGED <<stdout, outbound, partial, errors>>
      /\ Taken' = Taken /\ Taken \in Nat
      /\ call \in [Line -> CallState] /\ inbound \in Seq(Line)
      /\ service = "stopped" => service' = "stopped"
  BY Sizes DEF Accept, RefuseStart, Greeting, TakeMessage, Stop, ServiceStep, Admit, WorkerEnds,
     Finish, Join, Abandon, vars, Taken, SessionOK
<1>2. input' = input \/ input'.at # "refuse"
  BY DEF Accept, RefuseStart, TakeMessage, Stop, ServiceStep, Admit, WorkerEnds,
     Finish, Join, Abandon, vars
<1>3. output' = output \/ output'.at = "aborted"
  <2>1. CASE RefuseStart
    <3>1. output \in OutputState
      BY DEF SessionOK, PipesOK, TypeOK, OutputState
    <3>2. [output EXCEPT !.at = "aborted"].at = "aborted"
      BY <3>1 DEF OutputState
    <3> QED
      BY <2>1, <3>2 DEF RefuseStart
  <2>2. CASE ~RefuseStart
    BY <2>2 DEF Accept, TakeMessage, Stop, ServiceStep, Admit, WorkerEnds,
       Finish, Join, Abandon, vars
  <2> QED
    BY <2>1, <2>2
<1> DEFINE Written == {"answering", "answered"}
<1>4. \/ call' = call
      \/ \E i \in Line : \E v \in CallState \ Written :
           call[i] \notin Written /\ call' = [call EXCEPT ![i] = v]
  <2>1. ASSUME inbound # <<>>
        PROVE  Head(inbound) \in Line /\ call[Head(inbound)] = "none"
    <3>1. /\ Head(inbound) = inbound[1] /\ 1 \in 1 .. Len(inbound)
          /\ Head(inbound) \in Line
      BY <1>1, <2>1, HeadTailProperties, EmptySeq
    <3> QED
      BY <3>1 DEF SessionOK, CallsOK
  <2>2. CASE Accept
    BY <2>1, <2>2 DEF Accept, CallState
  <2>3. CASE TakeMessage
    <3>1. CASE call' = [call EXCEPT ![Head(inbound)] = "waiting"]
      BY <2>1, <2>3, <3>1 DEF TakeMessage, CallState
    <3>2. CASE /\ call[Head(inbound) - 1] \in {"waiting", "working", "answer"}
               /\ call' = [call EXCEPT ![Head(inbound) - 1] = "cancelled"]
      <4>1. CASE Head(inbound) - 1 \in Line
        BY <3>2, <4>1 DEF CallState
      <4>2. CASE Head(inbound) - 1 \notin Line
        BY <1>1, <3>2, <4>2
      <4> QED
        BY <4>1, <4>2
    <3> QED
      BY <2>3, <3>1, <3>2 DEF TakeMessage
  <2>4. ASSUME NEW i \in Line, Admit(i) \/ WorkerEnds(i)
        PROVE  \/ call' = call
               \/ \E v \in CallState \ Written :
                    call[i] \notin Written /\ call' = [call EXCEPT ![i] = v]
    <3>1. CASE Admit(i)
      BY <3>1 DEF Admit, CallState
    <3>2. CASE WorkerEnds(i) /\ call[i] = "working"
      BY <3>2 DEF WorkerEnds, CallState
    <3>3. CASE WorkerEnds(i) /\ call[i] # "working"
      BY <1>1, <3>3 DEF WorkerEnds
    <3> QED
      BY <2>4, <3>1, <3>2, <3>3
  <2>5. CASE RefuseStart \/ Stop \/ Finish \/ UNCHANGED vars
    BY <2>5 DEF RefuseStart, Stop, ServiceStep, Finish, Join, Abandon, vars
  <2> QED
    BY <2>2, <2>3, <2>4, <2>5
<1>5. \A i \in Line : /\ call[i] = "answering" <=> call'[i] = "answering"
                      /\ call[i] = "answered" <=> call'[i] = "answered"
  BY <1>1, <1>4
<1>6. Taken' >= Taken
  BY <1>1
<1> QED
  BY <1>1, <1>2, <1>3, <1>5, <1>6, OtherLines

(* One more piece is on its way. *)
LEMMA MorePieces ==
    ASSUME PipesOK, NEW piece \in Piece,
           outbound' = Append(outbound, piece), partial' = partial
    PROVE  /\ Len(Rest') = Len(Rest) + 1
           /\ \A k \in 1 .. Len(Rest) : Rest'[k] = Rest[k]
           /\ Rest'[Len(Rest) + 1] = piece
<1>1. /\ partial \in Seq(Piece) /\ outbound \in Seq(Piece)
      /\ Len(partial) \in Nat /\ Len(outbound) \in Nat
      /\ Len(Rest) = Len(partial) + Len(outbound)
      /\ \A k \in 1 .. Len(Rest) :
           Rest[k] = IF k <= Len(partial) THEN partial[k]
                     ELSE outbound[k - Len(partial)]
  BY RestType
<1>2. /\ outbound' \in Seq(Piece) /\ Len(outbound') = Len(outbound) + 1
      /\ \A k \in 1 .. Len(outbound) : outbound'[k] = outbound[k]
      /\ outbound'[Len(outbound) + 1] = piece
  BY <1>1, AppendProperties
<1> DEFINE rest == partial \o outbound'
<1>3. /\ Len(rest) = Len(partial) + Len(outbound')
      /\ \A k \in 1 .. Len(partial) + Len(outbound') :
           rest[k] = IF k <= Len(partial) THEN partial[k]
                     ELSE outbound'[k - Len(partial)]
  <2>1. partial \in Seq(Piece) /\ outbound' \in Seq(Piece)
    BY <1>1, <1>2
  <2> QED
    BY <2>1, ConcatProperties
<1>8. Rest' = rest
  BY DEF Rest
<1> HIDE DEF rest
<1>4. /\ Len(Rest') = Len(partial) + Len(outbound')
      /\ \A k \in 1 .. Len(partial) + Len(outbound') :
           Rest'[k] = IF k <= Len(partial) THEN partial[k]
                      ELSE outbound'[k - Len(partial)]
  BY <1>3, <1>8
<1>5. Len(Rest') = Len(Rest) + 1
  BY <1>1, <1>2, <1>4
<1>6. ASSUME NEW k \in 1 .. Len(Rest) PROVE Rest'[k] = Rest[k]
  <2>1. k \in 1 .. Len(partial) + Len(outbound')
    BY <1>1, <1>2
  <2>2. CASE k <= Len(partial)
    BY <1>1, <1>4, <2>1, <2>2
  <2>3. CASE ~(k <= Len(partial))
    <3>1. k - Len(partial) \in 1 .. Len(outbound)
      BY <1>1, <2>3
    <3> QED
      BY <1>1, <1>2, <1>4, <2>1, <2>3, <3>1
  <2> QED
    BY <2>2, <2>3
<1>7. Rest'[Len(Rest) + 1] = piece
  <2>1. /\ Len(Rest) + 1 \in 1 .. Len(partial) + Len(outbound')
        /\ ~(Len(Rest) + 1 <= Len(partial))
        /\ Len(Rest) + 1 - Len(partial) = Len(outbound) + 1
    BY <1>1, <1>2
  <2> QED
    BY <1>2, <1>4, <2>1
<1> QED
  BY <1>5, <1>6, <1>7

(* A piece that is on its way was written by the handler it names. *)
LEMMA PiecesNameWriters ==
    ASSUME PipesOK, FlowOK, NEW k \in 1 .. Len(Rest)
    PROVE  /\ Rest[k][2] = "tail" => call[Rest[k][1]] = "answered"
           /\ k < Len(Rest) => call[Rest[k][1]] = "answered"
           /\ call[Rest[k][1]] \in {"answering", "answered"}
<1>1. Len(Rest) \in Nat
  BY RestType
<1>2. Rest[k][2] = "tail" => call[Rest[k][1]] = "answered"
  BY DEF FlowOK, WritersOK
<1>3. ASSUME k < Len(Rest), Rest[k][2] = "head"
      PROVE  call[Rest[k][1]] = "answered"
  <2>1. Rest[k + 1] = <<Rest[k][1], "tail">>
    BY <1>3 DEF FlowOK, ShapeOK
  <2>2. k + 1 \in 1 .. Len(Rest)
    BY <1>1, <1>3
  <2>3. Rest[k + 1][2] = "tail" /\ Rest[k + 1][1] = Rest[k][1]
    BY <2>1
  <2> QED
    BY <2>2, <2>3 DEF FlowOK, WritersOK
<1>4. k < Len(Rest) \/ k = Len(Rest)
  BY <1>1
<1>5. Rest[k][2] \in {"head", "tail"}
  BY DEF FlowOK, ShapeOK
<1> QED
  BY <1>2, <1>3, <1>4, <1>5 DEF FlowOK, WritersOK

LEMMA AnswerBeginsFlow ==
    ASSUME SessionOK, FlowOK, NEW i \in Line, AnswerBegins(i)
    PROVE  FlowOK'
<1> DEFINE n == Len(Rest)
           piece == <<i, "head">>
<1>1. /\ UNCHANGED <<stdout, partial, output>>
      /\ call[i] = "answer" /\ \A j \in Line : call[j] # "answering"
      /\ outbound' = Append(outbound, piece) /\ piece \in Piece
      /\ call \in [Line -> CallState] /\ call' = [call EXCEPT ![i] = "answering"]
  BY Sizes DEF AnswerBegins, ServiceStep, SessionOK, Piece
<1>2. n \in Nat /\ \A k \in 1 .. n : Rest[k][1] \in Line
  BY RestType DEF SessionOK
<1>3. /\ Len(Rest') = n + 1
      /\ \A k \in 1 .. n : Rest'[k] = Rest[k]
      /\ Rest'[n + 1] = piece
  BY <1>1, MorePieces DEF SessionOK
<1>4. \A k \in 1 .. n : call[Rest[k][1]] = "answered" /\ Rest[k][1] # i
  BY <1>1, <1>2, PiecesNameWriters DEF SessionOK
<1>5. \A k \in 1 .. n : k = n => Rest[k][2] = "tail"
  BY <1>4 DEF FlowOK, ShapeOK, WritersOK
<1>6. ShapeOK
  BY DEF FlowOK
<1>7. \A k \in 1 .. n : call'[Rest[k][1]] = "answered"
  BY <1>1, <1>2, <1>4
<1>8. call'[i] = "answering" /\ \A j \in Line : call'[j] = "answering" => j = i
  BY <1>1
<1>9. piece[1] = i /\ piece[2] = "head"
  OBVIOUS
<1> HIDE DEF piece
<1>10. ShapeOK'
  <2>1. ASSUME NEW k \in 1 .. n + 1
        PROVE  /\ Rest'[k][2] \in {"head", "tail"}
               /\ k = 1 => Rest'[k][2] = "head"
               /\ k < n + 1 /\ Rest'[k][2] = "head" =>
                    Rest'[k + 1] = <<Rest'[k][1], "tail">>
               /\ k < n + 1 /\ Rest'[k][2] = "tail" => Rest'[k + 1][2] = "head"
    <3>1. CASE k < n
      <4>1. k \in 1 .. n /\ k + 1 \in 1 .. n
        BY <1>2, <3>1
      <4> QED
        BY <1>3, <1>6, <3>1, <4>1 DEF ShapeOK
    <3>2. CASE k = n
      <4>1. k \in 1 .. n
        BY <1>2, <3>2
      <4> QED
        BY <1>3, <1>5, <1>6, <1>9, <3>2, <4>1 DEF ShapeOK
    <3>3. CASE k = n + 1
      BY <1>2, <1>3, <1>9, <3>3
    <3> QED
      BY <1>2, <3>1, <3>2, <3>3
  <2>2. ASSUME NEW j \in 1 .. n + 1, NEW k \in 1 .. n + 1, Rest'[j] = Rest'[k]
        PROVE  j = k
    <3>1. \A l \in 1 .. n : Rest'[l] # piece
      BY <1>3, <1>4, <1>9
    <3>2. \A l \in 1 .. n + 1 : l \in 1 .. n \/ l = n + 1
      BY <1>2
    <3> QED
      BY <1>3, <1>6, <2>2, <3>1, <3>2 DEF ShapeOK
  <2> QED
    BY <1>3, <2>1, <2>2 DEF ShapeOK
<1>11. WritersOK'
  <2>1. ASSUME NEW k \in 1 .. n + 1
        PROVE  /\ Rest'[k][2] = "tail" => call'[Rest'[k][1]] = "answered"
               /\ k = n + 1 /\ Rest'[k][2] = "head" => call'[Rest'[k][1]] = "answering"
    <3>1. CASE k \in 1 .. n
      BY <1>2, <1>3, <1>7, <3>1
    <3>2. CASE k = n + 1
      BY <1>3, <1>8, <1>9, <3>2
    <3> QED
      BY <1>2, <3>1, <3>2
  <2>2. \A j \in Line : call'[j] = "answering" => n + 1 > 0 /\ Rest'[n + 1] = <<j, "head">>
    BY <1>2, <1>3, <1>8 DEF piece
  <2> QED
    BY <1>3, <2>1, <2>2 DEF WritersOK
<1>12. WrittenOK'
  <2>1. stdout \in Seq(Piece) /\ \A k \in 1 .. Len(stdout) : stdout[k][1] \in Line
    <3>1. stdout \in Seq(Piece)
      BY DEF SessionOK, PipesOK, TypeOK
    <3> QED
      BY <3>1 DEF Piece
  <2>2. ASSUME NEW k \in 1 .. Len(stdout), stdout[k][2] # "error"
        PROVE  /\ call'[stdout[k][1]] = "answered"
               /\ \A j \in 1 .. n + 1 : stdout[k] # Rest'[j]
    <3>1. call[stdout[k][1]] = "answered" /\ \A j \in 1 .. n : stdout[k] # Rest[j]
      BY <2>2 DEF FlowOK, WrittenOK
    <3>2. stdout[k][1] # i
      BY <1>1, <3>1
    <3>3. stdout[k] # piece
      BY <1>9, <3>2
    <3>4. \A j \in 1 .. n + 1 : j \in 1 .. n \/ j = n + 1
      BY <1>2
    <3> QED
      BY <1>1, <1>3, <2>1, <3>1, <3>2, <3>3, <3>4
  <2> QED
    BY <1>1, <1>3, <2>2 DEF WrittenOK
<1> QED
  BY <1>1, <1>10, <1>11, <1>12 DEF FlowOK

LEMMA AnswerEndsFlow ==
    ASSUME SessionOK, FlowOK, NEW i \in Line, AnswerEnds(i)
    PROVE  FlowOK'
<1> DEFINE n == Len(Rest)
           piece == <<i, "tail">>
<1>1. /\ UNCHANGED <<stdout, partial, output>>
      /\ call[i] = "answering"
      /\ outbound' = Append(outbound, piece) /\ piece \in Piece
      /\ call \in [Line -> CallState] /\ call' = [call EXCEPT ![i] = "answered"]
  BY Sizes DEF AnswerEnds, ServiceStep, SessionOK, Piece
<1>2. n \in Nat /\ \A k \in 1 .. n : Rest[k][1] \in Line
  BY RestType DEF SessionOK
<1>3. /\ Len(Rest') = n + 1
      /\ \A k \in 1 .. n : Rest'[k] = Rest[k]
      /\ Rest'[n + 1] = piece
  BY <1>1, MorePieces DEF SessionOK
<1>4. n \in 1 .. n /\ Rest[n] = <<i, "head">>
  BY <1>1, <1>2 DEF FlowOK, WritersOK
<1>5. \A k \in 1 .. n : Rest[k] # piece
  BY <1>1, <1>2 DEF FlowOK, WritersOK
<1>6. ShapeOK
  BY DEF FlowOK
<1>7. \A j \in Line : call[j] = "answered" => call'[j] = "answered"
  BY <1>1
<1>8. call'[i] = "answered" /\ \A j \in Line : call'[j] # "answering"
  BY <1>1, <1>4 DEF FlowOK, WritersOK
<1>9. piece[1] = i /\ piece[2] = "tail"
  OBVIOUS
<1>10. ShapeOK'
  <2>1. ASSUME NEW k \in 1 .. n + 1
        PROVE  /\ Rest'[k][2] \in {"head", "tail"}
               /\ k = 1 => Rest'[k][2] = "head"
               /\ k < n + 1 /\ Rest'[k][2] = "head" =>
                    Rest'[k + 1] = <<Rest'[k][1], "tail">>
               /\ k < n + 1 /\ Rest'[k][2] = "tail" => Rest'[k + 1][2] = "head"
    <3>1. CASE k < n
      <4>1. k \in 1 .. n /\ k + 1 \in 1 .. n
        BY <1>2, <3>1
      <4> QED
        BY <1>3, <1>6, <3>1, <4>1 DEF ShapeOK
    <3>2. CASE k = n
      BY <1>3, <1>4, <1>6, <3>2 DEF ShapeOK
    <3>3. CASE k = n + 1
      BY <1>2, <1>3, <1>4, <1>9, <3>3
    <3> QED
      BY <1>2, <3>1, <3>2, <3>3
  <2>2. ASSUME NEW j \in 1 .. n + 1, NEW k \in 1 .. n + 1, Rest'[j] = Rest'[k]
        PROVE  j = k
    <3>1. \A l \in 1 .. n + 1 : l \in 1 .. n \/ l = n + 1
      BY <1>2
    <3> QED
      BY <1>3, <1>5, <1>6, <2>2, <3>1 DEF ShapeOK
  <2> QED
    BY <1>3, <2>1, <2>2 DEF ShapeOK
<1> HIDE DEF piece
<1>11. WritersOK'
  <2>1. ASSUME NEW k \in 1 .. n + 1
        PROVE  /\ Rest'[k][2] = "tail" => call'[Rest'[k][1]] = "answered"
               /\ k = n + 1 /\ Rest'[k][2] = "head" => call'[Rest'[k][1]] = "answering"
    <3>1. CASE k \in 1 .. n
      BY <1>2, <1>3, <1>7, <3>1 DEF FlowOK, WritersOK
    <3>2. CASE k = n + 1
      BY <1>3, <1>8, <1>9, <3>2
    <3> QED
      BY <1>2, <3>1, <3>2
  <2> QED
    BY <1>3, <1>8, <2>1 DEF WritersOK
<1>12. WrittenOK'
  <2>1. stdout \in Seq(Piece) /\ \A k \in 1 .. Len(stdout) : stdout[k][1] \in Line
    <3>1. stdout \in Seq(Piece)
      BY DEF SessionOK, PipesOK, TypeOK
    <3> QED
      BY <3>1 DEF Piece
  <2>2. ASSUME NEW k \in 1 .. Len(stdout), stdout[k][2] # "error"
        PROVE  /\ call'[stdout[k][1]] = "answered"
               /\ \A j \in 1 .. n + 1 : stdout[k] # Rest'[j]
    <3>1. call[stdout[k][1]] = "answered" /\ \A j \in 1 .. n : stdout[k] # Rest[j]
      BY <2>2 DEF FlowOK, WrittenOK
    <3>2. stdout[k][1] # i
      BY <1>1, <3>1
    <3>3. stdout[k] # piece
      BY <1>9, <3>2
    <3>4. \A j \in 1 .. n + 1 : j \in 1 .. n \/ j = n + 1
      BY <1>2
    <3> QED
      BY <1>3, <1>7, <2>1, <3>1, <3>3, <3>4
  <2> QED
    BY <1>1, <1>3, <2>2 DEF WrittenOK
<1> QED
  BY <1>1, <1>10, <1>11, <1>12 DEF FlowOK

LEMMA AnswerLines ==
    ASSUME SessionOK, SessionOK', LinesOK, NEW i \in Line,
           AnswerBegins(i) \/ AnswerEnds(i)
    PROVE  LinesOK'
<1>1. /\ UNCHANGED <<sent, stdin, stdout, output, errors, input>>
      /\ Taken' = Taken /\ Taken \in Nat
  BY Sizes DEF AnswerBegins, AnswerEnds, ServiceStep, Taken, SessionOK
<1>2. StdoutIsWholeLines'
  BY <1>1 DEF LinesOK, StdoutIsWholeLines
<1>3. ASSUME ~OutputOver' PROVE FlowOK' /\ OrderOK'
  <2>1. FlowOK /\ OrderOK
    BY <1>1, <1>3 DEF LinesOK, AnswerBegins, AnswerEnds, Drained
  <2>2. FlowOK'
    BY <2>1, AnswerBeginsFlow, AnswerEndsFlow
  <2>3. OrderOK'
    BY <1>1, <2>1 DEF OrderOK, Before, Replied
  <2> QED
    BY <2>2, <2>3
<1> QED
  BY <1>2, <1>3 DEF LinesOK

(* What output has read it holds, in the same order. *)
LEMMA TakeAnswerRest ==
    ASSUME PipesOK, TakeAnswer
    PROVE  Rest' = Rest
<1>1. PICK n \in 1 .. Len(outbound) :
         /\ partial' = partial \o SubSeq(outbound, 1, n)
         /\ outbound' = SubSeq(outbound, n + 1, Len(outbound))
  BY DEF TakeAnswer
<1> DEFINE a == SubSeq(outbound, 1, n)
           b == SubSeq(outbound, n + 1, Len(outbound))
<1>2. partial \in Seq(Piece) /\ outbound \in Seq(Piece) /\ Len(outbound) \in Nat
  BY RestType
<1>3. a \in Seq(Piece) /\ b \in Seq(Piece)
  <2>1. n \in 0 .. Len(outbound)
    BY <1>2
  <2> QED
    BY <1>2, <2>1, PrefixType
<1>4. a \o b = outbound
  <2>1. 1 \in 1 .. Len(outbound) + 1 /\ n \in 1 - 1 .. Len(outbound)
        /\ Len(outbound) \in n .. Len(outbound)
    BY <1>2
  <2>2. a \o b = SubSeq(outbound, 1, Len(outbound))
    BY <1>2, <2>1, ConcatAdjacentSubSeq
  <2> QED
    BY <1>2, <2>2, SubSeqFull
<1>5. Rest' = (partial \o a) \o b
  BY <1>1 DEF Rest
<1> HIDE DEF a, b
<1>6. (partial \o a) \o b = partial \o (a \o b)
  <2>1. partial \in Seq(Piece) /\ a \in Seq(Piece) /\ b \in Seq(Piece)
    BY <1>2, <1>3
  <2>2. \A x, y, z \in Seq(Piece) : (x \o y) \o z = x \o (y \o z)
    BY ConcatAssociative
  <2> QED
    BY <2>1, <2>2
<1> QED
  BY <1>4, <1>5, <1>6 DEF Rest

(* A line that is written leaves the front. *)
LEMMA FewerPieces ==
    ASSUME PipesOK, NEW n \in 0 .. Len(partial),
           partial' = SubSeq(partial, n + 1, Len(partial)), outbound' = outbound
    PROVE  /\ Len(Rest') = Len(Rest) - n
           /\ \A k \in 1 .. Len(Rest) - n : Rest'[k] = Rest[k + n]
<1>1. /\ partial \in Seq(Piece) /\ outbound \in Seq(Piece)
      /\ Len(partial) \in Nat /\ Len(outbound) \in Nat /\ n \in Nat /\ n <= Len(partial)
      /\ Len(Rest) = Len(partial) + Len(outbound)
      /\ \A k \in 1 .. Len(Rest) :
           Rest[k] = IF k <= Len(partial) THEN partial[k]
                     ELSE outbound[k - Len(partial)]
  BY RestType
<1>2. /\ partial' \in Seq(Piece) /\ Len(partial') = Len(partial) - n
      /\ \A k \in 1 .. Len(partial) - n : partial'[k] = partial[n + k]
  BY <1>1, PrefixType
<1> DEFINE rest == partial' \o outbound
<1>3. /\ Len(rest) = Len(partial') + Len(outbound)
      /\ \A k \in 1 .. Len(partial') + Len(outbound) :
           rest[k] = IF k <= Len(partial') THEN partial'[k]
                     ELSE outbound[k - Len(partial')]
  <2>1. partial' \in Seq(Piece) /\ outbound \in Seq(Piece)
    BY <1>1, <1>2
  <2> QED
    BY <2>1, ConcatProperties
<1>4. Rest' = rest
  BY DEF Rest
<1> HIDE DEF rest
<1> DEFINE p == Len(partial)
           o == Len(outbound)
           q == Len(partial')
<1>7. p \in Nat /\ o \in Nat /\ n \in Nat /\ n <= p /\ q = p - n /\ Len(Rest) = p + o
  BY <1>1, <1>2
<1>8. Len(Rest') = q + o
  BY <1>3, <1>4
<1> HIDE DEF p, o, q
<1>5. Len(Rest') = Len(Rest) - n
  BY <1>7, <1>8
<1>6. ASSUME NEW k \in 1 .. Len(Rest) - n PROVE Rest'[k] = Rest[k + n]
  <2>1. k \in 1 .. q + o /\ k + n \in 1 .. Len(Rest) /\ n + k = k + n
    BY <1>7
  <2>2. CASE k <= q
    <3>1. k \in 1 .. p - n /\ k + n <= p
      BY <1>7, <2>1, <2>2
    <3>2. Rest[k + n] = partial[k + n]
      BY <1>1, <2>1, <3>1 DEF p
    <3>3. Rest'[k] = partial'[k]
      BY <1>3, <1>4, <2>1, <2>2 DEF q, o
    <3>4. partial'[k] = partial[n + k]
      BY <1>2, <3>1 DEF p
    <3> QED
      BY <2>1, <3>2, <3>3, <3>4
  <2>3. CASE ~(k <= q)
    <3>1. ~(k + n <= p) /\ k - q = k + n - p
      BY <1>7, <2>1, <2>3
    <3>2. Rest[k + n] = outbound[k + n - p]
      BY <1>1, <2>1, <3>1 DEF p
    <3>3. Rest'[k] = outbound[k - q]
      BY <1>3, <1>4, <2>1, <2>3 DEF q, o
    <3> QED
      BY <3>1, <3>2, <3>3
  <2> QED
    BY <2>2, <2>3
<1> QED
  BY <1>5, <1>6

LEMMA Wrote ==
    ASSUME PipesOK, NEW pieces \in Seq(Piece), stdout' = stdout \o pieces
    PROVE  \A k \in 1 .. Len(stdout') :
             \/ k \in 1 .. Len(stdout) /\ stdout'[k] = stdout[k]
             \/ \E m \in 1 .. Len(pieces) : stdout'[k] = pieces[m]
<1>1. /\ stdout \in Seq(Piece) /\ Len(stdout) \in Nat /\ Len(pieces) \in Nat
      /\ Len(stdout') = Len(stdout) + Len(pieces)
      /\ \A k \in 1 .. Len(stdout) + Len(pieces) :
           stdout'[k] = IF k <= Len(stdout) THEN stdout[k]
                        ELSE pieces[k - Len(stdout)]
  BY RestType, ConcatProperties
<1> SUFFICES ASSUME NEW k \in 1 .. Len(stdout')
             PROVE  \/ k \in 1 .. Len(stdout) /\ stdout'[k] = stdout[k]
                    \/ \E m \in 1 .. Len(pieces) : stdout'[k] = pieces[m]
  OBVIOUS
<1>2. CASE k <= Len(stdout)
  BY <1>1, <1>2
<1>3. CASE ~(k <= Len(stdout))
  <2>1. k - Len(stdout) \in 1 .. Len(pieces) /\ k \in 1 .. Len(stdout) + Len(pieces)
    BY <1>1, <1>3
  <2> QED
    BY <1>1, <1>3, <2>1
<1> QED
  BY <1>2, <1>3

(* What output holds begins with a head, so a first whole line is two      *)
(* pieces long.                                                            *)
LEMMA FirstTwo ==
    ASSUME PipesOK, ShapeOK, Len(partial) >= 2
    PROVE  /\ Len(Rest) >= 2
           /\ partial[1] = Rest[1] /\ partial[2] = Rest[2]
           /\ Rest[1][2] = "head" /\ Rest[2] = <<Rest[1][1], "tail">>
<1>1. /\ Len(partial) \in Nat /\ Len(outbound) \in Nat
      /\ Len(Rest) = Len(partial) + Len(outbound)
      /\ \A k \in 1 .. Len(Rest) :
           Rest[k] = IF k <= Len(partial) THEN partial[k]
                     ELSE outbound[k - Len(partial)]
  BY RestType
<1>2. 1 \in 1 .. Len(Rest) /\ 2 \in 1 .. Len(Rest) /\ 1 < Len(Rest) /\ Len(Rest) >= 2
      /\ 1 <= Len(partial) /\ 2 <= Len(partial) /\ 1 + 1 = 2
  BY <1>1
<1>3. Rest[1][2] = "head"
  BY <1>2 DEF ShapeOK
<1>4. Rest[2] = <<Rest[1][1], "tail">>
  BY <1>2, <1>3 DEF ShapeOK
<1> QED
  BY <1>1, <1>2, <1>3, <1>4

LEMMA NoWholeLine ==
    ASSUME PipesOK, ShapeOK, Whole = {}
    PROVE  Len(partial) <= 1
<1>1. partial \in Seq(Piece) /\ Len(partial) \in Nat
  BY RestType
<1> SUFFICES ASSUME Len(partial) >= 2 PROVE FALSE
  BY <1>1
<1>2. partial[2][2] = "tail"
  BY FirstTwo
<1>3. 2 \in DOMAIN partial
  BY <1>1
<1> QED
  BY <1>2, <1>3 DEF Whole

LEMMA PassLines ==
    ASSUME SessionOK, SessionOK', LinesOK, TakeAnswer \/ LinesWritten
    PROVE  LinesOK'
<1>1. /\ UNCHANGED <<sent, stdin, input, stdout, errors, call>>
      /\ output.at \in {"read", "lines"} /\ output \in OutputState
      /\ Taken' = Taken /\ Taken \in Nat
      /\ PipesOK /\ (Drained \/ FlowOK) /\ OrderOK
  BY Sizes DEF TakeAnswer, LinesWritten, OutputStep, SessionOK, PipesOK, TypeOK,
     OutputState, Taken, LinesOK
<1>2. Rest' = Rest
  BY <1>1, TakeAnswerRest DEF LinesWritten, Rest
<1>3. output'.at \in {"read", "lines"}
  BY <1>1 DEF TakeAnswer, LinesWritten, OutputState
<1>4. Drained' \/ FlowOK'
  <2>1. CASE TakeAnswer
    <3>1. FlowOK /\ output'.at = "lines"
      BY <1>1, <2>1 DEF TakeAnswer, Drained, OutputState
    <3> QED
      BY <1>1, <1>2, <3>1, SameFlow
  <2>2. CASE LinesWritten /\ Drained
    BY <2>2 DEF LinesWritten, OutputStep, Drained
  <2>3. CASE LinesWritten /\ FlowOK
    <3>1. output'.at = "read" /\ partial' = partial
      BY <1>1, <2>3 DEF LinesWritten, OutputState
    <3>2. Len(partial) <= 1
      BY <1>1, <2>3, NoWholeLine DEF LinesWritten, FlowOK
    <3> QED
      BY <1>1, <1>2, <2>3, <3>1, <3>2, SameFlow
  <2> QED
    BY <1>1, <2>1, <2>2, <2>3
<1>5. OrderOK'
  <2>1. Taken' >= Taken /\ \A i : Replied(i)' => Replied(i)
    BY <1>1 DEF Replied
  <2> QED
    BY <1>1, <1>3, <2>1, SameOrder
<1>6. StdoutIsWholeLines'
  BY <1>1 DEF LinesOK, StdoutIsWholeLines
<1> QED
  BY <1>4, <1>5, <1>6 DEF LinesOK

LEMMA WriteLineLines ==
    ASSUME SessionOK, SessionOK', LinesOK, WriteLine
    PROVE  LinesOK'
<1>1. /\ UNCHANGED <<sent, stdin, input, errors, call, outbound>>
      /\ output.at = "lines" /\ output \in OutputState /\ Whole # {}
      /\ Taken' = Taken /\ Taken \in Nat
      /\ PipesOK /\ FlowOK /\ OrderOK /\ StdoutIsWholeLines
  <2>1. /\ UNCHANGED <<sent, stdin, input, errors, call, outbound>>
        /\ output.at = "lines" /\ output \in OutputState /\ Whole # {}
        /\ Taken' = Taken /\ Taken \in Nat
        /\ PipesOK /\ (Drained \/ FlowOK) /\ OrderOK /\ StdoutIsWholeLines
    BY Sizes DEF WriteLine, OutputStep, SessionOK, PipesOK, TypeOK, OutputState,
       Taken, LinesOK
  <2>2. partial # <<>>
    BY <2>1 DEF Whole
  <2>3. ~Drained
    BY <2>1, <2>2 DEF Drained
  <2> QED
    BY <2>1, <2>3
<1>2. PICK end \in 1 .. Len(partial) :
         /\ partial[end][2] = "tail"
         /\ \A j \in 1 .. Len(partial) : j < end => partial[j][2] # "tail"
         /\ Write(SubSeq(partial, 1, end), "lines")
         /\ partial' = SubSeq(partial, end + 1, Len(partial))
  BY <1>1, FirstWhole DEF WriteLine
<1>3. /\ partial \in Seq(Piece) /\ Len(partial) \in Nat /\ Len(Rest) \in Nat
      /\ stdout \in Seq(Piece)
      /\ Len(Rest) = Len(partial) + Len(outbound) /\ Len(outbound) \in Nat
      /\ \A k \in 1 .. Len(Rest) :
           Rest[k] = IF k <= Len(partial) THEN partial[k]
                     ELSE outbound[k - Len(partial)]
  BY <1>1, RestType
<1>4. end # 1 /\ Len(partial) >= 2
  <2>1. 1 \in 1 .. Len(Rest) /\ 1 <= Len(partial)
    BY <1>2, <1>3
  <2>2. Rest[1][2] = "head" /\ Rest[1] = partial[1]
    BY <1>1, <1>3, <2>1 DEF FlowOK, ShapeOK
  <2>3. end # 1
    BY <1>2, <2>2
  <2> QED
    BY <1>2, <1>3, <2>3
<1>5. /\ Len(Rest) >= 2
      /\ partial[1] = Rest[1] /\ partial[2] = Rest[2]
      /\ Rest[1][2] = "head" /\ Rest[2] = <<Rest[1][1], "tail">>
  BY <1>1, <1>4, FirstTwo DEF FlowOK
<1>6. end = 2
  <2>1. 2 \in 1 .. Len(partial) /\ partial[2][2] = "tail"
    BY <1>3, <1>4, <1>5
  <2>2. ~(2 < end)
    BY <1>2, <2>1
  <2> QED
    BY <1>2, <1>4, <2>2
<1> DEFINE line == SubSeq(partial, 1, 2)
<1>7. 2 \in 0 .. Len(partial) /\ partial' = SubSeq(partial, 2 + 1, Len(partial))
  BY <1>2, <1>3, <1>4, <1>6
<1>8. /\ line \in Seq(Piece) /\ Len(line) = 2
      /\ line[1] = Rest[1] /\ line[2] = Rest[2]
  <2>1. /\ line \in Seq(Piece) /\ Len(line) = 2
        /\ \A i \in 1 .. 2 : line[i] = partial[i]
    BY <1>3, <1>7, PrefixType
  <2> HIDE DEF line
  <2> QED
    BY <1>5, <2>1
<1>9. Write(line, "lines")
  BY <1>2, <1>6
<1> HIDE DEF line
<1>10. \A m \in 1 .. Len(line) : m \in {1, 2}
  BY <1>8
<1>11. 1 \in 1 .. Len(Rest) /\ 2 \in 1 .. Len(Rest) /\ 1 < Len(Rest)
  BY <1>3, <1>5
<1>12. CASE stdout' = stdout \o line /\ output' = [output EXCEPT !.at = "lines"]
  <2>1. StdoutIsWholeLines'
    <3>1. \A k \in 1 .. Len(line) : line[k][2] = "head" =>
             k < Len(line) /\ line[k + 1] = <<line[k][1], "tail">>
      <4>1. line[2][2] = "tail" /\ 1 < Len(line) /\ line[1 + 1] = <<line[1][1], "tail">>
        BY <1>5, <1>8
      <4> QED
        BY <1>10, <4>1
    <3>2. line[1] # line[2]
      BY <1>5, <1>8
    <3>3. \A j, k \in 1 .. Len(line) : line[j] = line[k] => j = k
      BY <1>10, <3>2
    <3>4. \A j \in 1 .. Len(stdout), k \in 1 .. Len(line) : stdout[j] # line[k]
      <4>1. \A k \in {1, 2} : line[k][2] # "error" /\ line[k] = Rest[k]
        BY <1>5, <1>8
      <4>2. ASSUME NEW j \in 1 .. Len(stdout), NEW k \in {1, 2}
            PROVE  stdout[j] # line[k]
        BY <1>1, <1>11, <4>1 DEF FlowOK, WrittenOK
      <4> QED
        BY <1>10, <4>2
    <3> QED
      BY <1>1, <1>8, <1>12, <3>1, <3>3, <3>4, WriteLines
  <2>2. /\ Len(Rest') = Len(Rest) - 2
        /\ \A k \in 1 .. Len(Rest) - 2 : Rest'[k] = Rest[k + 2]
    BY <1>1, <1>7, FewerPieces
  <2>3. \A k \in 1 .. Len(Rest) - 2 : k + 2 \in 1 .. Len(Rest) /\ k + 2 # 1 /\ k + 2 # 2
    BY <1>3
  <2>4. ShapeOK'
    <3>1. ASSUME NEW k \in 1 .. Len(Rest) - 2
          PROVE  /\ Rest'[k][2] \in {"head", "tail"}
                 /\ k = 1 => Rest'[k][2] = "head"
                 /\ k < Len(Rest) - 2 /\ Rest'[k][2] = "head" =>
                      Rest'[k + 1] = <<Rest'[k][1], "tail">>
                 /\ k < Len(Rest) - 2 /\ Rest'[k][2] = "tail" => Rest'[k + 1][2] = "head"
      <4>1. Rest'[k] = Rest[k + 2] /\ Rest[k + 2][2] \in {"head", "tail"}
        BY <1>1, <2>2, <2>3 DEF FlowOK, ShapeOK
      <4>2. k = 1 => Rest'[k][2] = "head"
        <5>1. k = 1 => 2 < Len(Rest) /\ k + 2 = 2 + 1
          BY <1>3
        <5>2. Rest[2][2] = "tail"
          BY <1>5
        <5> QED
          BY <1>1, <1>11, <4>1, <5>1, <5>2 DEF FlowOK, ShapeOK
      <4>3. ASSUME k < Len(Rest) - 2
            PROVE  /\ Rest'[k][2] = "head" => Rest'[k + 1] = <<Rest'[k][1], "tail">>
                   /\ Rest'[k][2] = "tail" => Rest'[k + 1][2] = "head"
        <5>1. /\ k + 1 \in 1 .. Len(Rest) - 2 /\ (k + 1) + 2 = (k + 2) + 1
              /\ k + 2 < Len(Rest)
          BY <1>3, <4>3
        <5>2. Rest'[k + 1] = Rest[(k + 2) + 1]
          BY <2>2, <5>1
        <5> QED
          BY <1>1, <2>3, <4>1, <5>1, <5>2 DEF FlowOK, ShapeOK
      <4> QED
        BY <4>1, <4>2, <4>3
    <3>2. ASSUME NEW j \in 1 .. Len(Rest) - 2, NEW k \in 1 .. Len(Rest) - 2,
                 Rest'[j] = Rest'[k]
          PROVE  j = k
      <4>1. Rest[j + 2] = Rest[k + 2]
        BY <2>2, <3>2
      <4>2. j + 2 = k + 2
        BY <1>1, <2>3, <4>1 DEF FlowOK, ShapeOK
      <4> QED
        BY <1>3, <4>2
    <3> QED
      BY <2>2, <3>1, <3>2 DEF ShapeOK
  <2>5. WritersOK'
    <3>1. ASSUME NEW k \in 1 .. Len(Rest) - 2
          PROVE  /\ Rest'[k][2] = "tail" => call[Rest'[k][1]] = "answered"
                 /\ k = Len(Rest) - 2 /\ Rest'[k][2] = "head" =>
                      call[Rest'[k][1]] = "answering"
      <4>1. k = Len(Rest) - 2 => k + 2 = Len(Rest)
        BY <1>3
      <4> QED
        BY <1>1, <2>2, <2>3, <4>1 DEF FlowOK, WritersOK
    <3>2. ASSUME NEW i \in Line, call[i] = "answering"
          PROVE  Len(Rest) - 2 > 0 /\ Rest'[Len(Rest) - 2] = <<i, "head">>
      <4>1. Rest[Len(Rest)] = <<i, "head">>
        BY <1>1, <3>2 DEF FlowOK, WritersOK
      <4>2. Rest[2][2] = "tail" /\ Rest[Len(Rest)][2] = "head"
        BY <1>5, <4>1
      <4>3. Len(Rest) # 2
        BY <4>2
      <4>4. /\ Len(Rest) - 2 > 0 /\ Len(Rest) - 2 \in 1 .. Len(Rest) - 2
            /\ (Len(Rest) - 2) + 2 = Len(Rest)
        BY <1>3, <1>5, <4>3
      <4> QED
        BY <2>2, <4>1, <4>4
    <3> QED
      BY <1>1, <2>2, <3>1, <3>2 DEF WritersOK
  <2>6. WrittenOK'
    <3> DEFINE Fresh(piece) ==
                 /\ call[piece[1]] = "answered"
                 /\ \A j \in 1 .. Len(Rest) - 2 : piece # Rest'[j]
    <3>1. \A k \in 1 .. Len(stdout') :
             \/ k \in 1 .. Len(stdout) /\ stdout'[k] = stdout[k]
             \/ \E m \in 1 .. Len(line) : stdout'[k] = line[m]
      BY <1>1, <1>8, <1>12, Wrote
    <3>2. ASSUME NEW k \in 1 .. Len(stdout), stdout[k][2] # "error"
          PROVE  Fresh(stdout[k])
      BY <1>1, <2>2, <2>3, <3>2 DEF FlowOK, WrittenOK
    <3>3. ASSUME NEW m \in {1, 2} PROVE Fresh(line[m])
      <4>1. line[m] = Rest[m] /\ m \in 1 .. Len(Rest)
        BY <1>8, <1>11
      <4>2. call[Rest[1][1]] = "answered"
        BY <1>1, <1>11, PiecesNameWriters
      <4>3. Rest[m][1] = Rest[1][1]
        BY <1>5
      <4>4. ASSUME NEW j \in 1 .. Len(Rest) - 2 PROVE Rest[m] # Rest'[j]
        <5>1. Rest'[j] = Rest[j + 2] /\ j + 2 \in 1 .. Len(Rest) /\ m # j + 2
          BY <2>2, <2>3
        <5> QED
          BY <1>1, <4>1, <5>1 DEF FlowOK, ShapeOK
      <4> QED
        BY <4>1, <4>2, <4>3, <4>4
    <3> HIDE DEF Fresh
    <3>4. \A m \in 1 .. Len(line) : Fresh(line[m])
      BY <1>10, <3>3
    <3>5. \A k \in 1 .. Len(stdout') : stdout'[k][2] # "error" => Fresh(stdout'[k])
      BY <3>1, <3>2, <3>4
    <3>6. call' = call /\ Len(Rest') = Len(Rest) - 2
      BY <1>1, <2>2
    <3> QED
      BY <3>5, <3>6 DEF WrittenOK, Fresh
  <2>7. output'.at = "lines"
    BY <1>1, <1>12 DEF OutputState
  <2>8. FlowOK'
    BY <2>4, <2>5, <2>6, <2>7 DEF FlowOK
  <2>9. OrderOK'
    <3>1. \A i \in Line : Replied(i)' => Replied(i)
      <4>1. \A k \in 1 .. Len(stdout') :
               \/ k \in 1 .. Len(stdout) /\ stdout'[k] = stdout[k]
               \/ \E m \in 1 .. Len(line) : stdout'[k] = line[m]
        BY <1>1, <1>8, <1>12, Wrote
      <4>2. \A m \in 1 .. Len(line) : line[m][2] # "error"
        BY <1>5, <1>8, <1>10
      <4> QED
        BY <4>1, <4>2 DEF Replied
    <3>2. Taken' >= Taken
      BY <1>1
    <3> QED
      BY <1>1, <2>7, <3>1, <3>2, SameOrder
  <2> QED
    BY <2>1, <2>8, <2>9 DEF LinesOK
<1>13. CASE output' = [output EXCEPT !.at = "failed"] /\ UNCHANGED stdout
  <2>1. output'.at = "failed"
    BY <1>1, <1>13 DEF OutputState
  <2>2. StdoutIsWholeLines'
    BY <1>1, <1>13 DEF StdoutIsWholeLines
  <2> QED
    BY <2>1, <2>2 DEF LinesOK
<1> QED
  BY <1>9, <1>12, <1>13 DEF Write

LEMMA TakeErrorLines ==
    ASSUME SessionOK, SessionOK', LinesOK, TakeError
    PROVE  LinesOK'
<1>1. /\ UNCHANGED <<sent, stdin, input, stdout, partial, outbound, service, call>>
      /\ output.at = "read" /\ Taken' = Taken
      /\ output' = [at |-> "error", line |-> Head(errors)]
      /\ errors' = Tail(errors)
      /\ errors \in Seq(Line) /\ errors # <<>>
      /\ (Drained \/ FlowOK) /\ OrderOK /\ StdoutIsWholeLines
  BY DEF TakeError, OutputStep, SessionOK, PipesOK, TypeOK, Taken, LinesOK
<1>2. /\ Len(errors) \in Nat \ {0} /\ Len(errors') = Len(errors) - 1
      /\ \A k \in 1 .. Len(errors') : errors'[k] = errors[k + 1]
      /\ Head(errors) = errors[1] /\ Head(errors) \in Line
  BY <1>1, HeadTailProperties, EmptySeq
<1>3. /\ 1 \in 1 .. Len(errors)
      /\ \A k \in 1 .. Len(errors') : k + 1 \in 1 .. Len(errors) /\ 1 < k + 1
      /\ \A l, k \in 1 .. Len(errors') : l < k => l + 1 < k + 1
  BY <1>2
<1>4. Rest' = Rest /\ output'.at = "error" /\ output'.line = errors[1]
  BY <1>1, <1>2 DEF Rest
<1>5. Drained' \/ FlowOK'
  <2>1. CASE Drained
    BY <1>1, <2>1 DEF Drained
  <2>2. CASE FlowOK
    BY <1>1, <1>4, <2>2, SameFlow DEF FlowOK
  <2> QED
    BY <1>1, <2>1, <2>2
<1>6. OrderOK'
  <2>1. \A i \in Line : Replied(i)' =>
           /\ Before(i)
           /\ i < errors[1]
           /\ \A m \in 1 .. Len(errors') : i < errors'[m]
    BY <1>1, <1>2, <1>3 DEF OrderOK, Replied
  <2>2. Before(errors[1]) /\ \A m \in 1 .. Len(errors') : errors[1] < errors'[m]
    BY <1>1, <1>2, <1>3 DEF OrderOK
  <2>3. \A m \in 1 .. Len(errors') : Before(errors'[m])
    BY <1>1, <1>2, <1>3 DEF OrderOK
  <2>4. \A l, m \in 1 .. Len(errors') : l < m => errors'[l] < errors'[m]
    BY <1>1, <1>2, <1>3 DEF OrderOK
  <2> QED
    BY <1>1, <1>4, <2>1, <2>2, <2>3, <2>4 DEF OrderOK, Before
<1>7. StdoutIsWholeLines'
  BY <1>1 DEF StdoutIsWholeLines
<1> QED
  BY <1>5, <1>6, <1>7 DEF LinesOK

LEMMA WriteErrorLines ==
    ASSUME SessionOK, SessionOK', LinesOK, WriteError
    PROVE  LinesOK'
<1> DEFINE piece == <<output.line, "error">>
           pieces == <<piece>>
<1>1. /\ UNCHANGED <<sent, stdin, input, errors, partial, outbound, service, call>>
      /\ output.at = "error" /\ output \in OutputState /\ output.line \in Line
      /\ Taken' = Taken /\ Write(pieces, "read")
      /\ PipesOK /\ (Drained \/ FlowOK) /\ OrderOK /\ StdoutIsWholeLines
  BY DEF WriteError, OutputStep, SessionOK, PipesOK, TypeOK, HeldOK, OutputState, Taken,
     LinesOK
<1>2. /\ pieces \in Seq(Piece) /\ Len(pieces) = 1 /\ pieces[1] = piece
      /\ piece[1] = output.line /\ piece[2] = "error"
  BY <1>1 DEF Piece
<1> HIDE DEF pieces
<1>3. \A m \in 1 .. Len(pieces) : m = 1
  BY <1>2
<1>4. \A i \in Line : Replied(i) => i < output.line
  BY <1>1 DEF OrderOK
<1>5. Line \subseteq Nat
  BY Sizes DEF SessionOK
<1>6. CASE stdout' = stdout \o pieces /\ output' = [output EXCEPT !.at = "read"]
  <2>1. StdoutIsWholeLines'
    <3>1. \A j \in 1 .. Len(stdout) : stdout[j] # piece
      <4>1. output.line \in Line
        BY <1>1
      <4>2. \A n \in Nat : ~(n < n)
        OBVIOUS
      <4>3. ~(output.line < output.line)
        BY <1>5, <4>1, <4>2
      <4>4. ~Replied(output.line)
        BY <1>4, <4>1, <4>3
      <4> QED
        BY <4>4 DEF Replied
    <3> QED
      BY <1>1, <1>2, <1>3, <1>6, <3>1, WriteLines
  <2>2. \A k \in 1 .. Len(stdout') :
           (k \in 1 .. Len(stdout) /\ stdout'[k] = stdout[k]) \/ stdout'[k] = piece
    BY <1>1, <1>2, <1>3, <1>6, Wrote
  <2>3. Rest' = Rest /\ output'.at = "read"
    BY <1>1, <1>6 DEF Rest, OutputState
  <2>4. ASSUME FlowOK PROVE FlowOK'
    <3>1. WrittenOK'
      BY <1>1, <1>2, <2>2, <2>3, <2>4 DEF FlowOK, WrittenOK
    <3>2. ShapeOK'
      BY <1>1, <2>3, <2>4 DEF FlowOK, ShapeOK
    <3>3. WritersOK'
      BY <1>1, <2>3, <2>4 DEF FlowOK, WritersOK
    <3>4. Len(partial') <= 1
      BY <1>1, <2>4 DEF FlowOK
    <3> QED
      BY <3>1, <3>2, <3>3, <3>4 DEF FlowOK
  <2>5. Drained => Drained'
    BY <1>1 DEF Drained
  <2>6. OrderOK'
    <3>1. \A i \in Line : Replied(i)' => Replied(i) \/ i = output.line
      BY <2>2 DEF Replied
    <3>2. \A i \in Line : Replied(i)' =>
             Before(i) /\ \A m \in 1 .. Len(errors) : i < errors[m]
      BY <1>1, <3>1 DEF OrderOK
    <3> QED
      BY <1>1, <2>3, <3>2 DEF OrderOK, Before
  <2> QED
    BY <1>1, <2>1, <2>4, <2>5, <2>6 DEF LinesOK
<1>7. CASE output' = [output EXCEPT !.at = "failed"] /\ UNCHANGED stdout
  <2>1. output'.at = "failed"
    BY <1>1, <1>7 DEF OutputState
  <2>2. StdoutIsWholeLines'
    BY <1>1, <1>7 DEF StdoutIsWholeLines
  <2> QED
    BY <2>1, <2>2 DEF LinesOK
<1> QED
  BY <1>1, <1>6, <1>7 DEF Write

(* What is left of an answer when the service has stopped is ended as a    *)
(* line; its tail was not written before, because its handler never wrote  *)
(* one.                                                                    *)
LEMMA EndOutputLines ==
    ASSUME SessionOK, SessionOK', LinesOK, EndOutput
    PROVE  LinesOK'
<1> DEFINE pieces == [i \in DOMAIN partial |-> <<partial[i][1], "tail">>]
<1>1. /\ output.at = "read" /\ output \in OutputState
      /\ service = "stopped" /\ outbound = <<>> /\ partial' = <<>>
      /\ UNCHANGED <<sent, stdin, input, errors, service, outbound>>
      /\ Taken' = Taken /\ Taken \in Nat
      /\ PipesOK /\ (Drained \/ FlowOK) /\ OrderOK /\ StdoutIsWholeLines
  BY Sizes DEF EndOutput, OutputStep, SessionOK, PipesOK, TypeOK, OutputState,
     LinesOK, Taken
<1>2. PICK then \in {"read", "done"} : Write(pieces, then)
  BY DEF EndOutput
<1>3. /\ partial \in Seq(Piece) /\ Len(partial) \in Nat /\ Len(partial) <= 1
      /\ DOMAIN partial = 1 .. Len(partial) /\ Len(Rest) = Len(partial)
      /\ \A k \in 1 .. Len(Rest) : Rest[k] = partial[k] /\ Rest[k][1] \in Line
  <2>1. Len(outbound) = 0
    BY <1>1
  <2>2. Len(partial) <= 1
    BY <1>1 DEF Drained, FlowOK
  <2> QED
    BY <1>1, <2>1, <2>2, RestType
<1>4. /\ pieces \in Seq(Piece) /\ Len(pieces) = Len(partial)
      /\ \A k \in 1 .. Len(partial) : pieces[k] = <<partial[k][1], "tail">>
  BY <1>1, <1>3, EndedLines
<1> HIDE DEF pieces
<1>5. \A k \in 1 .. Len(pieces) : k = 1
  BY <1>3, <1>4
<1>6. CASE stdout' = stdout \o pieces /\ output' = [output EXCEPT !.at = then]
  <2>1. \A k \in 1 .. Len(pieces) : pieces[k][2] = "tail"
    BY <1>4
  <2>2. ASSUME NEW j \in 1 .. Len(stdout), NEW k \in 1 .. Len(pieces)
        PROVE  stdout[j] # pieces[k]
    <3>1. k = 1 /\ k = Len(Rest) /\ k \in 1 .. Len(Rest) /\ FlowOK
      <4>1. k = 1
        BY <1>5
      <4>2. Len(pieces) = Len(Rest) /\ Len(Rest) \in Nat /\ Len(Rest) <= 1
        BY <1>3, <1>4
      <4>3. Len(partial) # 0
        BY <1>3, <1>4
      <4>4. FlowOK
        BY <1>1, <4>3 DEF Drained
      <4> QED
        BY <4>1, <4>2, <4>4
    <3>2. Rest[k][2] = "head"
      BY <3>1 DEF FlowOK, ShapeOK
    <3>3. call[Rest[k][1]] = "answering"
      BY <3>1, <3>2 DEF FlowOK, WritersOK
    <3>4. pieces[k] = <<Rest[k][1], "tail">>
      BY <1>3, <1>4, <3>1
    <3>5. pieces[k][1] = Rest[k][1] /\ pieces[k][2] = "tail"
      BY <3>4
    <3>6. stdout[j][2] # "error" => call[stdout[j][1]] = "answered"
      BY <3>1 DEF FlowOK, WrittenOK
    <3> QED
      BY <3>3, <3>5, <3>6
  <2>3. StdoutIsWholeLines'
    BY <1>1, <1>4, <1>5, <1>6, <2>1, <2>2, WriteLines
  <2>4. Drained'
    BY <1>1 DEF Drained
  <2>5. OrderOK'
    <3>1. \A i \in Line : Replied(i)' => Replied(i)
      <4>1. \A k \in 1 .. Len(stdout') :
               \/ k \in 1 .. Len(stdout) /\ stdout'[k] = stdout[k]
               \/ \E m \in 1 .. Len(pieces) : stdout'[k] = pieces[m]
        BY <1>1, <1>4, <1>6, Wrote
      <4> QED
        BY <2>1, <4>1 DEF Replied
    <3>2. Taken' >= Taken /\ output'.at # "error"
      BY <1>1, <1>6 DEF OutputState
    <3> QED
      BY <1>1, <3>1, <3>2, SameOrder
  <2> QED
    BY <2>3, <2>4, <2>5 DEF LinesOK
<1>7. CASE output' = [output EXCEPT !.at = "failed"] /\ UNCHANGED stdout
  <2>1. output'.at = "failed"
    BY <1>1, <1>7 DEF OutputState
  <2>2. StdoutIsWholeLines'
    BY <1>1, <1>7 DEF StdoutIsWholeLines
  <2> QED
    BY <2>1, <2>2 DEF LinesOK
<1> QED
  BY <1>2, <1>6, <1>7 DEF Write

LEMMA InitLines == Init => LinesOK
<1> SUFFICES ASSUME Init PROVE LinesOK
  OBVIOUS
<1>1. /\ Len(stdout) = 0 /\ DOMAIN stdout = {} /\ Len(errors) = 0 /\ Len(partial) = 0
      /\ output.at = "read" /\ \A i \in Line : call[i] = "none"
  BY DEF Init
<1>2. Rest = <<>>
  <2>1. partial = <<>> /\ outbound = <<>> /\ <<>> \in Seq(Piece)
    BY EmptySeq DEF Init
  <2> QED
    BY <2>1, ConcatEmptySeq DEF Rest
<1>3. Len(Rest) = 0
  BY <1>2
<1>4. FlowOK
  BY <1>1, <1>3 DEF FlowOK, ShapeOK, WritersOK, WrittenOK
<1>5. OrderOK
  BY <1>1 DEF OrderOK, Replied
<1>6. StdoutIsWholeLines
  BY <1>1 DEF StdoutIsWholeLines
<1> QED
  BY <1>4, <1>5, <1>6 DEF LinesOK

LEMMA NextLines ==
    SessionOK /\ SessionOK' /\ LinesOK /\ [Next]_vars => LinesOK'
<1> SUFFICES ASSUME SessionOK, SessionOK', LinesOK, [Next]_vars PROVE LinesOK'
  OBVIOUS
<1>1. CASE Send \/ CloseInput \/ Receive \/ GoDeaf
  BY <1>1, ClientLines
<1>2. CASE Input
  BY <1>2, ClientLines, InputLines DEF Input
<1>3. CASE Output
  BY <1>3, PassLines, WriteLineLines, TakeErrorLines, WriteErrorLines,
     EndOutputLines DEF Output
<1>4. CASE Library \/ Finish
  BY <1>4, QuietLines DEF Library
<1>5. ASSUME NEW i \in Line, Handler(i) PROVE LinesOK'
  BY <1>5, QuietLines, AnswerLines DEF Handler
<1>6. CASE Over \/ UNCHANGED vars
  BY <1>6, QuietLines DEF Over
<1> QED
  BY <1>1, <1>2, <1>3, <1>4, <1>5, <1>6 DEF Next

(* Error replies overtake answers, but never land inside one, and nothing  *)
(* is written twice, whatever the order in which output finds its sources  *)
(* ready and wherever the pieces of an answer are cut.                     *)
THEOREM LinesStayWhole == Spec => []StdoutIsWholeLines
<1>1. LinesOK => StdoutIsWholeLines
  BY DEF LinesOK
<1> QED
  BY <1>1, InitSession, NextSession, InitLines, NextLines, PTL DEF Spec
=============================================================================
