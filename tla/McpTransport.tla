---------------------------- MODULE McpTransport ----------------------------
(***************************************************************************)
(* The stdio transport of `mant --mcp` (crates/mant/src/mcp/transport.rs)  *)
(* around the query gate (mcp/service.rs).                                 *)
(*                                                                         *)
(*   client --stdin--> input --inbound--> service --outbound--> output     *)
(*                       \------------errors--------------------^  |       *)
(*   client <-------------------------stdout-----------------------/       *)
(*                                                                         *)
(* Two proxy tasks stand between the client's pipes and the protocol       *)
(* library: input frames and checks lines, output merges the service's     *)
(* answers with the error replies input queues for lines the library must  *)
(* not see.  Every arrow is bounded, so every sender may have to wait.     *)
(*                                                                         *)
(* The client, the pipes and the library (rmcp) are external: the library  *)
(* may give up the handshake, starts a handler for each call, drops the    *)
(* handler of a cancelled one and, when its input ends, stops with or      *)
(* without the answers still under way.  A line is its number; what it     *)
(* says is only whether it is a call, a cancellation or no valid JSON      *)
(* (malformed, too deep or too long).  An answer reaches output in pieces. *)
(***************************************************************************)
EXTENDS Naturals, Sequences, FiniteSets, SequencesExt

CONSTANTS
    Permits,    \* the semaphore of QueryService: 4 in the code
    ErrorRoom,  \* ERROR_QUEUE_CAPACITY
    PipeRoom,   \* lines or pieces a pipe or duplex stream holds
    MaxLines    \* bound: lines the client sends

ASSUME TransportAssumption ==
    /\ Permits \in Nat \ {0} /\ ErrorRoom \in Nat \ {0}
    /\ PipeRoom \in Nat \ {0, 1} /\ MaxLines \in Nat

Line == 1 .. MaxLines

(* What a line is.  A cancellation names the line before it. *)
Kind == {"call", "cancel", "bad"}

(* Pieces of standard output: an answer in two, an error reply in one. *)
Piece == Line \X {"head", "tail", "error"}

VARIABLES
    sent,       \* the kind of each line the client has written
    stdin,      \* lines in the input pipe
    inputEnd,   \* the client has closed it
    stdout,     \* every piece written to standard output
    unread,     \* how many of them the client has not read
    deaf,       \* the client has closed its end of standard output
    input,      \* the input task: what it does, with which line
    inbound,    \* the stream from input to the service
    inboundEnd, \* input has shut it down or dropped it
    errors,     \* the queue of error replies
    service,    \* the library: starting, serving, stopped, refused
    call,       \* the handler of each call
    worker,     \* the blocking workers that run
    free,       \* the permits nobody holds
    outbound,   \* the stream from the service to output
    output,     \* the output task: what it does, with which error
    partial,    \* output's `pending`: pieces of a line not yet whole
    process     \* run_stdio: serving, joining, or the exit status

client == <<sent, inputEnd, unread, deaf>>
gate == <<worker, free>>
vars == <<client, stdin, stdout, input, inbound, inboundEnd, errors, service,
          call, gate, outbound, output, partial, process>>

Idle == [at |-> "read", line |-> 0]
InputOver  == input.at \in {"done", "failed", "aborted"}
OutputOver == output.at \in {"done", "failed", "aborted"}

Init ==
    /\ sent = <<>> /\ stdin = <<>> /\ inputEnd = FALSE
    /\ stdout = <<>> /\ unread = 0 /\ deaf = FALSE
    /\ input = Idle
    /\ inbound = <<>> /\ inboundEnd = FALSE
    /\ errors = <<>>
    /\ service = "starting"
    /\ call = [i \in Line |-> "none"]
    /\ worker = {} /\ free = Permits
    /\ outbound = <<>>
    /\ output = Idle
    /\ partial = <<>>
    /\ process = "serving"

Running == process \in {"serving", "joinInput", "joinOutput", "aborting"}

-----------------------------------------------------------------------------
(* The client. *)

Send ==
    /\ Running
    /\ ~inputEnd
    /\ Len(sent) < MaxLines
    /\ Len(stdin) < PipeRoom
    /\ \E kind \in Kind :
         /\ kind = "cancel" => sent # <<>>
         /\ sent' = Append(sent, kind)
    /\ stdin' = Append(stdin, Len(sent) + 1)
    /\ UNCHANGED <<inputEnd, unread, deaf, stdout, input, inbound, inboundEnd,
                   errors, service, call, gate, outbound, output, partial,
                   process>>

CloseInput ==
    /\ Running
    /\ ~inputEnd
    /\ inputEnd' = TRUE
    /\ UNCHANGED <<sent, unread, deaf, stdin, stdout, input, inbound,
                   inboundEnd, errors, service, call, gate, outbound, output,
                   partial, process>>

Receive ==
    /\ ~deaf
    /\ unread > 0
    /\ unread' = unread - 1
    /\ UNCHANGED <<sent, inputEnd, deaf, stdin, stdout, input, inbound,
                   inboundEnd, errors, service, call, gate, outbound, output,
                   partial, process>>

GoDeaf ==
    /\ Running
    /\ ~deaf
    /\ deaf' = TRUE
    /\ UNCHANGED <<sent, inputEnd, unread, stdin, stdout, input, inbound,
                   inboundEnd, errors, service, call, gate, outbound, output,
                   partial, process>>

-----------------------------------------------------------------------------
(* proxy_input. *)

InputStep == Running /\ UNCHANGED <<client, stdout, service, call, gate,
                                    outbound, output, partial, process>>

(* A whole line was read: JSON goes to the service, anything else is       *)
(* answered here. *)
ReadLine ==
    /\ InputStep
    /\ input.at = "read"
    /\ stdin # <<>>
    /\ stdin' = Tail(stdin)
    /\ input' = [at |-> IF sent[Head(stdin)] = "bad" THEN "refuse" ELSE "forward",
                 line |-> Head(stdin)]
    /\ UNCHANGED <<inbound, inboundEnd, errors>>

(* write_all to the duplex stream, which breaks once the service is gone. *)
ForwardLine ==
    /\ InputStep
    /\ input.at = "forward"
    /\ \/ /\ service \in {"starting", "serving"}
          /\ Len(inbound) < PipeRoom
          /\ inbound' = Append(inbound, input.line)
          /\ input' = Idle
          /\ UNCHANGED inboundEnd
       \/ /\ service \in {"stopped", "refused"}
          /\ input' = [input EXCEPT !.at = "failed"]
          /\ inboundEnd' = TRUE
          /\ UNCHANGED inbound
    /\ UNCHANGED <<stdin, errors>>

\* Mutant: error replies are queued without waiting for room.
RefuseLineUnbounded ==
    /\ InputStep
    /\ input.at = "refuse"
    /\ \/ /\ ~OutputOver
          /\ errors' = Append(errors, input.line)
          /\ input' = Idle
          /\ UNCHANGED inboundEnd
       \/ /\ OutputOver
          /\ input' = [input EXCEPT !.at = "failed"]
          /\ inboundEnd' = TRUE
          /\ UNCHANGED errors
    /\ UNCHANGED <<stdin, inbound>>

\* Mutant: an error reply that finds the queue full is dropped.
RefuseLineDropping ==
    /\ InputStep
    /\ input.at = "refuse"
    /\ \/ /\ ~OutputOver
          /\ errors' = IF Len(errors) < ErrorRoom
                        THEN Append(errors, input.line) ELSE errors
          /\ input' = Idle
          /\ UNCHANGED inboundEnd
       \/ /\ OutputOver
          /\ input' = [input EXCEPT !.at = "failed"]
          /\ inboundEnd' = TRUE
          /\ UNCHANGED errors
    /\ UNCHANGED <<stdin, inbound>>

(* send_input_error: wait for room, or fail once output is gone. *)
RefuseLine ==
    /\ InputStep
    /\ input.at = "refuse"
    /\ \/ /\ ~OutputOver
          /\ Len(errors) < ErrorRoom
          /\ errors' = Append(errors, input.line)
          /\ input' = Idle
          /\ UNCHANGED inboundEnd
       \/ /\ OutputOver
          /\ input' = [input EXCEPT !.at = "failed"]
          /\ inboundEnd' = TRUE
          /\ UNCHANGED errors
    /\ UNCHANGED <<stdin, inbound>>

\* Mutant: the stream to the service is not shut down.
EndInputOpen ==
    /\ InputStep
    /\ input.at = "read"
    /\ stdin = <<>> /\ inputEnd
    /\ input' = [input EXCEPT !.at = "done"]
    /\ UNCHANGED <<stdin, inbound, inboundEnd, errors>>

(* End of input: shut the stream down; the error queue closes with it. *)
EndInput ==
    /\ InputStep
    /\ input.at = "read"
    /\ stdin = <<>> /\ inputEnd
    /\ input' = [input EXCEPT !.at = "done"]
    /\ inboundEnd' = TRUE
    /\ UNCHANGED <<stdin, inbound, errors>>

-----------------------------------------------------------------------------
(* The library and QueryService. *)

ServiceStep == Running /\ UNCHANGED <<client, stdin, stdout, input, inboundEnd,
                                      errors, output, partial>>

(* The handshake begins: the first message is accepted and answered.       *)
Accept ==
    /\ ServiceStep
    /\ service = "starting"
    /\ inbound # <<>>
    /\ sent[Head(inbound)] = "call"
    /\ service' = "serving"
    /\ call' = [call EXCEPT ![Head(inbound)] = "answer"]
    /\ inbound' = Tail(inbound)
    /\ UNCHANGED <<gate, outbound, process>>

(* It is not over before the client has acknowledged the answer: until a   *)
(* second call is taken it may still be under way.                         *)
Greeting ==
    /\ service = "serving"
    /\ \A i, j \in Line : call[i] # "none" /\ call[j] # "none" => i = j
    /\ \A i \in Line : call[i] \in {"none", "answer", "answering", "answered"}

(* serve fails: a message that does not fit the handshake, a client that   *)
(* leaves instead, an answer that cannot be written.  run_stdio aborts     *)
(* both proxies and fails.                                                 *)
RefuseStart ==
    /\ Running /\ UNCHANGED <<client, stdin, stdout, errors, call, gate,
                              outbound, partial>>
    /\ \/ service = "starting" /\ (inbound # <<>> \/ inboundEnd)
       \/ Greeting /\ (inbound # <<>> \/ inboundEnd \/ OutputOver)
    /\ service' = "refused"
    /\ process' = "aborting"
    /\ inbound' = <<>> /\ inboundEnd' = TRUE
    /\ input' = IF InputOver THEN input
                ELSE [at |-> "aborted", line |-> IF input.at = "read" THEN 0
                                                 ELSE input.line]
    /\ output' = IF OutputOver THEN output ELSE [output EXCEPT !.at = "aborted"]

(* A call waits for a permit; a cancellation drops the handler of the line *)
(* before it, but not its worker.                                          *)
TakeMessage ==
    /\ ServiceStep
    /\ service = "serving"
    /\ inbound # <<>>
    /\ LET i == Head(inbound) IN
         call' = IF sent[i] = "call" THEN [call EXCEPT ![i] = "waiting"]
                 ELSE IF call[i - 1] \in {"waiting", "working", "answer"}
                 THEN [call EXCEPT ![i - 1] = "cancelled"]
                 ELSE call
    /\ inbound' = Tail(inbound)
    /\ UNCHANGED <<service, gate, outbound, process>>

(* acquire_owned, then spawn_blocking takes the permit with it. *)
Admit(i) ==
    /\ ServiceStep
    /\ call[i] = "waiting"
    /\ service = "serving"
    /\ free > 0
    /\ call' = [call EXCEPT ![i] = "working"]
    /\ worker' = worker \cup {i} /\ free' = free - 1
    /\ UNCHANGED <<inbound, service, outbound, process>>

\* Mutant: the permit belongs to the request, not to the worker.
WorkerEndsLeaking(i) ==
    /\ ServiceStep
    /\ i \in worker
    /\ worker' = worker \ {i} /\ free' = IF call[i] = "working" THEN free + 1 ELSE free
    /\ call' = [call EXCEPT ![i] = IF @ = "working" THEN "answer" ELSE @]
    /\ UNCHANGED <<inbound, service, outbound, process>>

(* A worker returns or panics: its permit is dropped either way, and its   *)
(* handler, if there still is one, has something to answer.                *)
WorkerEnds(i) ==
    /\ ServiceStep
    /\ i \in worker
    /\ worker' = worker \ {i} /\ free' = free + 1
    /\ call' = [call EXCEPT ![i] = IF @ = "working" THEN "answer" ELSE @]
    /\ UNCHANGED <<inbound, service, outbound, process>>

(* The library writes one answer at a time; the stream may be full between *)
(* two pieces.                                                             *)
AnswerBegins(i) ==
    /\ ServiceStep
    /\ service = "serving" /\ ~OutputOver
    /\ call[i] = "answer"
    /\ \A j \in Line : call[j] # "answering"
    /\ Len(outbound) < PipeRoom
    /\ outbound' = Append(outbound, <<i, "head">>)
    /\ call' = [call EXCEPT ![i] = "answering"]
    /\ UNCHANGED <<inbound, service, gate, process>>

AnswerEnds(i) ==
    /\ ServiceStep
    /\ service = "serving" /\ ~OutputOver
    /\ call[i] = "answering"
    /\ Len(outbound) < PipeRoom
    /\ outbound' = Append(outbound, <<i, "tail">>)
    /\ call' = [call EXCEPT ![i] = "answered"]
    /\ UNCHANGED <<inbound, service, gate, process>>

(* The service stops when its input has ended or its output broke, with    *)
(* or without the answers it still owes; run_stdio then joins the tasks.   *)
Stop ==
    /\ ServiceStep
    /\ service = "serving"
    /\ \/ inbound = <<>> /\ inboundEnd
       \/ OutputOver
    /\ service' = "stopped"
    /\ process' = "joinInput"
    /\ inbound' = <<>>
    /\ UNCHANGED <<call, gate, outbound>>

-----------------------------------------------------------------------------
(* proxy_output: one of its two sources at a time, whole lines only. *)

OutputStep == Running /\ UNCHANGED <<sent, inputEnd, deaf, stdin, input,
                                     inbound, inboundEnd, service, call,
                                     gate, process>>

\* Mutant: pieces are forwarded as they are read.
WholeAtOnce == DOMAIN partial

Whole == {i \in DOMAIN partial : partial[i][2] = "tail"}

(* Every write to a client that closed its end fails, and so does output:  *)
(* what it held is lost and the queue has no receiver any more.            *)
Write(pieces, then) ==
    \/ /\ ~deaf
       /\ unread + Len(pieces) <= PipeRoom
       /\ stdout' = stdout \o pieces
       /\ unread' = unread + Len(pieces)
       /\ output' = [output EXCEPT !.at = then]
    \/ /\ deaf
       /\ output' = [output EXCEPT !.at = "failed"]
       /\ UNCHANGED <<stdout, unread>>

TakeAnswer ==
    /\ OutputStep
    /\ output.at = "read"
    /\ outbound # <<>>
    /\ \E n \in 1 .. Len(outbound) :
         /\ partial' = partial \o SubSeq(outbound, 1, n)
         /\ outbound' = SubSeq(outbound, n + 1, Len(outbound))
    /\ output' = [output EXCEPT !.at = "lines"]
    /\ UNCHANGED <<stdout, unread, errors>>

WriteLine ==
    /\ OutputStep
    /\ output.at = "lines"
    /\ Whole # {}
    /\ LET end == CHOOSE i \in Whole : \A j \in Whole : i <= j IN
         /\ Write(SubSeq(partial, 1, end), "lines")
         /\ partial' = SubSeq(partial, end + 1, Len(partial))
    /\ UNCHANGED <<outbound, errors>>

LinesWritten ==
    /\ OutputStep
    /\ output.at = "lines"
    /\ Whole = {}
    /\ output' = [output EXCEPT !.at = "read"]
    /\ UNCHANGED <<stdout, unread, partial, outbound, errors>>

TakeError ==
    /\ OutputStep
    /\ output.at = "read"
    /\ errors # <<>>
    /\ output' = [at |-> "error", line |-> Head(errors)]
    /\ errors' = Tail(errors)
    /\ UNCHANGED <<stdout, unread, partial, outbound>>

WriteError ==
    /\ OutputStep
    /\ output.at = "error"
    /\ Write(<<<<output.line, "error">>>>, "read")
    /\ UNCHANGED <<partial, outbound, errors>>

\* Mutant: output ends with the service, not with the error queue.
EndOutputEarly ==
    /\ OutputStep
    /\ output.at = "read"
    /\ service = "stopped" /\ outbound = <<>>
    /\ Write([i \in DOMAIN partial |-> <<partial[i][1], "tail">>], "done")
    /\ partial' = <<>>
    /\ UNCHANGED <<outbound, errors>>

(* The service's stream has ended: what is left of an answer it did not    *)
(* finish is ended as a line.  When the queue has ended too, so does       *)
(* output, with a flush.                                                   *)
EndOutput ==
    /\ OutputStep
    /\ output.at = "read"
    /\ service = "stopped" /\ outbound = <<>>
    /\ \E then \in {"read", "done"} :
         /\ then = "read" => partial # <<>>
         /\ then = "done" => partial = <<>> /\ InputOver /\ errors = <<>>
         /\ Write([i \in DOMAIN partial |-> <<partial[i][1], "tail">>], then)
    /\ partial' = <<>>
    /\ UNCHANGED <<outbound, errors>>

-----------------------------------------------------------------------------
(* run_stdio. *)

Join ==
    /\ UNCHANGED <<client, stdin, stdout, input, inbound, inboundEnd, errors,
                   service, call, gate, outbound, output, partial>>
    /\ \/ /\ process = "joinInput" /\ InputOver
          /\ process' = "joinOutput"
       \/ /\ process = "joinOutput" /\ OutputOver
          /\ worker = {}
          /\ process' = IF input.at = "done" /\ output.at = "done"
                        THEN "success" ELSE "failure"

(* After an abort the runtime is dropped, which waits for the workers and  *)
(* for a read of standard input that is under way.                         *)
Abandon ==
    /\ process = "aborting"
    /\ worker = {}
    /\ stdin # <<>> \/ inputEnd \/ input.line # 0
    /\ process' = "failure"
    /\ UNCHANGED <<client, stdin, stdout, input, inbound, inboundEnd, errors,
                   service, call, gate, outbound, output, partial>>

Input   == ReadLine \/ ForwardLine \/ RefuseLine \/ EndInput
Library == Accept \/ RefuseStart \/ TakeMessage \/ Stop
Handler(i) == Admit(i) \/ WorkerEnds(i) \/ AnswerBegins(i) \/ AnswerEnds(i)
Output  ==
    TakeAnswer \/ WriteLine \/ LinesWritten \/ TakeError \/ WriteError
    \/ EndOutput
Finish  == Join \/ Abandon

(* The process is over: nothing happens any more. *)
Over == ~Running /\ (deaf \/ unread = 0) /\ UNCHANGED vars

Next ==
    \/ Send \/ CloseInput \/ Receive \/ GoDeaf
    \/ Input
    \/ Library
    \/ \E i \in Line : Handler(i)
    \/ Output
    \/ Finish
    \/ Over

Spec == Init /\ [][Next]_vars

(* Tasks and workers are scheduled, and the client keeps reading what it   *)
(* has not closed.  select! polls its ready branches in random order, so   *)
(* neither source of output starves the other.                             *)
FairSpec ==
    /\ Spec
    /\ WF_vars(Receive)
    /\ WF_vars(Input)
    /\ WF_vars(Library)
    /\ \A i \in Line : SF_vars(Handler(i))
    /\ SF_vars(TakeError) /\ SF_vars(TakeAnswer)
    /\ WF_vars(WriteLine \/ LinesWritten \/ WriteError \/ EndOutput)
    /\ WF_vars(Finish)

-----------------------------------------------------------------------------
(* Properties. *)

(* Every variable has its type. *)
TypeOK ==
    /\ sent \in Seq(Kind) /\ Len(sent) <= MaxLines
    /\ stdin \in Seq(Line) /\ Len(stdin) <= PipeRoom
    /\ stdout \in Seq(Piece) /\ unread \in 0 .. PipeRoom
    /\ inputEnd \in BOOLEAN /\ deaf \in BOOLEAN /\ inboundEnd \in BOOLEAN
    /\ input \in [at : {"read", "forward", "refuse", "done", "failed",
                        "aborted"}, line : 0 .. MaxLines]
    /\ inbound \in Seq(Line) /\ Len(inbound) <= PipeRoom
    /\ errors \in Seq(Line) /\ Len(errors) <= ErrorRoom
    /\ service \in {"starting", "serving", "stopped", "refused"}
    /\ call \in [Line -> {"none", "waiting", "working", "cancelled", "answer",
                          "answering", "answered"}]
    /\ worker \subseteq Line /\ free \in 0 .. Permits
    /\ outbound \in Seq(Piece) /\ Len(outbound) <= PipeRoom
    /\ output \in [at : {"read", "lines", "error", "done", "failed",
                         "aborted"}, line : 0 .. MaxLines]
    /\ partial \in Seq(Piece)
    /\ process \in {"serving", "joinInput", "joinOutput", "aborting",
                    "success", "failure"}

(* Error replies overtake answers, but never land inside one: on standard  *)
(* output the head of an answer is followed by its tail.                   *)
StdoutIsWholeLines ==
    /\ \A i \in DOMAIN stdout :
         stdout[i][2] = "head" =>
             /\ i < Len(stdout)
             /\ stdout[i + 1] = <<stdout[i][1], "tail">>
    /\ \A i, j \in DOMAIN stdout : stdout[i] = stdout[j] => i = j

(* A blocking worker keeps its permit when its request is cancelled or     *)
(* its answer is lost, and gives it back when it ends, by a panic too: the *)
(* permits in use are those of the workers that run, and whoever asked for *)
(* a worker that has not ended still waits for it.                         *)
WorkersHoldThePermits ==
    /\ Cardinality(worker) = Permits - free
    /\ \A i \in Line : call[i] = "working" => i \in worker

Answered(i) == \E piece \in ToSet(stdout) : piece[1] = i /\ piece[2] # "head"

(* A zero exit status says that standard input was read to its end and     *)
(* that every line the transport itself had to answer was answered.        *)
SuccessAnswersEveryBadLine ==
    process = "success" =>
        /\ stdin = <<>> /\ errors = <<>> /\ partial = <<>>
        /\ \A i \in DOMAIN sent : sent[i] = "bad" => Answered(i)

(* Nothing is promised to a client that does not listen, nor after a       *)
(* failed start, which drops the replies the proxies still hold.           *)
Broken == deaf \/ service = "refused"

(* Every line is answered, however many are under way: a bad line even     *)
(* after the client has closed its end of standard input, a call unless it *)
(* was cancelled or the input was closed, which ends the session.          *)
Excused(i) ==
    sent[i] # "bad" /\ (inputEnd \/ sent[i] = "cancel" \/ call[i] = "cancelled")

LinesAreAnswered ==
    \A i \in Line : (i \in DOMAIN sent)
        ~> (Broken \/ (i \in DOMAIN sent /\ (Answered(i) \/ Excused(i))))

(* Closing standard input ends the process, whatever waits for whatever,   *)
(* and also after a failed start or a broken output.                       *)
ClosedInputEndsProcess == inputEnd ~> ~Running
=============================================================================
