----------------------------- MODULE CgiRunProofs -----------------------------
(***************************************************************************)
(* Theorems about CgiRun, for every set of clients, whichever scripts can  *)
(* be started, and all sizes.                                              *)
(***************************************************************************)
EXTENDS CgiRun, TLAPS

\* A script is between fork() and execve() only while startCGI waits for it.
ForkedOnlyInStart ==
  \A s \in Client :
    child[s] = "forked" => at = [fn |-> "startCGI", of |-> s]

\* startCGI and readOutput run for a client that has a CGIHandler.
BusyWithLive == at # InLoop => handler[at.of].state = "live"

\* Without a CGIHandler there is no script yet, and no answer.
Unborn(s) ==
  handler[s].state = "none" => child[s] = "none" /\ reply[s].kind = "none"

\* With one there is a script that nobody has waited for, all it has written is in
\* the buffer or in the pipe, and its client has no answer yet.
Counted(s) ==
  handler[s].state = "live" =>
    /\ child[s] \in {"forked", "running", "silent", "zombie"}
    /\ reply[s].kind = "none"
    /\ handler[s].buffer + pipe[s] = written[s]

\* A script starts with nothing written.
Fresh(s) ==
  handler[s].state = "none" =>
    handler[s].buffer = 0 /\ pipe[s] = 0 /\ written[s] = 0

IInv ==
  /\ TypeOK /\ ForkedOnlyInStart /\ BusyWithLive
  /\ \A s \in Client : Unborn(s) /\ Counted(s) /\ Fresh(s)
  /\ NoRunaway /\ WholeOutput

LEMMA InitIInv == Init => IInv
  BY SizeAssumption, ClientAssumption
  DEF Init, IInv, TypeOK, ForkedOnlyInStart, BusyWithLive, Unborn, Counted, Fresh,
      NoRunaway, WholeOutput, InLoop, NoHandler, Nothing

\* A new client has neither script nor answer.
LEMMA AcceptKeeps == ASSUME IInv, NEW c \in Client, Accept(c) PROVE IInv'
<1>. USE SizeAssumption, ClientAssumption DEF IInv, Accept
<1>1. TypeOK'
  BY DEF TypeOK, InLoop
<1>2. ForkedOnlyInStart'
  BY DEF TypeOK, ForkedOnlyInStart, BusyWithLive, Unborn, Counted, NoRunaway, InLoop
<1>3. BusyWithLive'
  BY DEF TypeOK, BusyWithLive, InLoop
<1>4. ASSUME NEW s \in Client PROVE (Unborn(s) /\ Counted(s) /\ Fresh(s))'
  BY <1>4 DEF TypeOK, ForkedOnlyInStart, BusyWithLive, Unborn, Counted, Fresh, NoRunaway, InLoop
<1>5. NoRunaway'
  BY DEF TypeOK, NoRunaway, ForkedOnlyInStart, BusyWithLive, Unborn, Counted, InLoop
<1>6. WholeOutput'
  BY DEF TypeOK, WholeOutput, BusyWithLive, Unborn, Counted, InLoop, Smaller
<1>. QED BY <1>1, <1>2, <1>3, <1>4, <1>5, <1>6

\* Nor has one that asked for none.
LEMMA ServeOtherKeeps == ASSUME IInv, NEW c \in Client, ServeOther(c) PROVE IInv'
<1>. USE SizeAssumption, ClientAssumption DEF IInv, ServeOther
<1>1. TypeOK'
  BY DEF TypeOK, InLoop
<1>2. ForkedOnlyInStart'
  BY DEF TypeOK, ForkedOnlyInStart, BusyWithLive, Unborn, Counted, NoRunaway, InLoop
<1>3. BusyWithLive'
  BY DEF TypeOK, BusyWithLive, InLoop
<1>4. ASSUME NEW s \in Client PROVE (Unborn(s) /\ Counted(s) /\ Fresh(s))'
  BY <1>4 DEF TypeOK, ForkedOnlyInStart, BusyWithLive, Unborn, Counted, Fresh, NoRunaway, InLoop
<1>5. NoRunaway'
  BY DEF TypeOK, NoRunaway, ForkedOnlyInStart, BusyWithLive, Unborn, Counted, InLoop
<1>6. WholeOutput'
  BY DEF TypeOK, WholeOutput, BusyWithLive, Unborn, Counted, InLoop, Smaller
<1>. QED BY <1>1, <1>2, <1>3, <1>4, <1>5, <1>6

\* The handler is made with the script, and startCGI waits for it.
LEMMA StartCGIKeeps == ASSUME IInv, NEW c \in Client, StartCGI(c) PROVE IInv'
<1>. USE SizeAssumption, ClientAssumption DEF IInv, StartCGI
<1>0. /\ handler[c] \in [state : {"none", "live", "deleted"}, buffer : Nat]
      /\ written[c] \in 0 .. MaxOutput /\ pipe[c] \in 0 .. PipeSize
  BY DEF TypeOK
<1>1. TypeOK'
  <2>1. handler' \in [Client -> [state : {"none", "live", "deleted"}, buffer : Nat]]
    BY <1>0 DEF TypeOK
  <2>2. at' \in {InLoop} \cup [fn : {"startCGI", "readOutput"}, of : Client]
    OBVIOUS
  <2>3. inherited' \in [Client -> SUBSET Client]
    BY DEF TypeOK
  <2>. QED BY <2>1, <2>2, <2>3 DEF TypeOK
<1>2. ForkedOnlyInStart'
  BY DEF TypeOK, ForkedOnlyInStart, BusyWithLive, Unborn, Counted, NoRunaway, InLoop
<1>3. BusyWithLive'
  BY DEF TypeOK, BusyWithLive, InLoop
<1>4. ASSUME NEW s \in Client PROVE (Unborn(s) /\ Counted(s) /\ Fresh(s))'
  <2>1. CASE s = c
    <3>1. Unborn(c) /\ Counted(c) /\ Fresh(c)
      OBVIOUS
    <3>2. /\ child[c] = "none" /\ reply[c].kind = "none"
          /\ handler[c].buffer = 0 /\ pipe[c] = 0 /\ written[c] = 0
      BY <1>0, <3>1 DEF TypeOK, Unborn, Counted, Fresh, NoRunaway, BusyWithLive, InLoop
    <3>3. /\ handler'[c].state = "live" /\ handler'[c].buffer = handler[c].buffer
          /\ child'[c] = "forked" /\ pipe'[c] = pipe[c]
          /\ reply'[c] = reply[c] /\ written'[c] = written[c]
      BY <1>0 DEF TypeOK
    <3>. QED BY <1>0, <2>1, <3>1, <3>2, <3>3 DEF Unborn, Counted, Fresh
  <2>2. CASE s # c
    BY <2>2 DEF TypeOK, Unborn, Counted, Fresh
  <2>. QED BY <2>1, <2>2
<1>5. NoRunaway'
  <2>1. handler'[c].state = "live"
    BY <1>0 DEF TypeOK, BusyWithLive, InLoop
  <2>2. \A s \in Client : s # c => handler'[s] = handler[s] /\ child'[s] = child[s]
    BY DEF TypeOK
  <2>. QED BY <2>1, <2>2 DEF NoRunaway
<1>6. WholeOutput'
  BY DEF TypeOK, WholeOutput, BusyWithLive, Unborn, Counted, InLoop, Smaller
<1>. QED BY <1>1, <1>2, <1>3, <1>4, <1>5, <1>6

\* startCGI goes on only once the script is no longer between fork and exec.
LEMMA StartReturnsKeeps == ASSUME IInv, NEW c \in Client, StartReturns(c) PROVE IInv'
<1>. USE SizeAssumption, ClientAssumption DEF IInv, StartReturns, ErrPipeHeld
<1>0. /\ handler[c] \in [state : {"none", "live", "deleted"}, buffer : Nat]
      /\ written[c] \in 0 .. MaxOutput /\ pipe[c] \in 0 .. PipeSize
  BY DEF TypeOK
<1>1. TypeOK'
  BY DEF TypeOK, InLoop
<1>2. ForkedOnlyInStart'
  BY DEF TypeOK, ForkedOnlyInStart, BusyWithLive, Unborn, Counted, NoRunaway, InLoop
<1>3. BusyWithLive'
  BY DEF TypeOK, BusyWithLive, InLoop
<1>4. ASSUME NEW s \in Client PROVE (Unborn(s) /\ Counted(s) /\ Fresh(s))'
  <2>1. CASE s = c
    BY <1>0, <2>1 DEF TypeOK, Unborn, Counted, Fresh, BusyWithLive, ForkedOnlyInStart, NoRunaway, InLoop
  <2>2. CASE s # c
    BY <2>2 DEF TypeOK, Unborn, Counted, Fresh
  <2>. QED BY <2>1, <2>2
<1>5. NoRunaway'
  BY DEF TypeOK, NoRunaway, ForkedOnlyInStart, BusyWithLive, Unborn, Counted, InLoop
<1>6. WholeOutput'
  BY DEF TypeOK, WholeOutput, BusyWithLive, Unborn, Counted, InLoop, Smaller
<1>. QED BY <1>1, <1>2, <1>3, <1>4, <1>5, <1>6

\* The handler is there.
LEMMA ContinueCGIKeeps == ASSUME IInv, NEW c \in Client, ContinueCGI(c) PROVE IInv'
<1>. USE SizeAssumption, ClientAssumption DEF IInv, ContinueCGI
<1>1. TypeOK'
  BY DEF TypeOK, InLoop
<1>2. ForkedOnlyInStart'
  BY DEF TypeOK, ForkedOnlyInStart, BusyWithLive, Unborn, Counted, NoRunaway, InLoop
<1>3. BusyWithLive'
  BY DEF TypeOK, BusyWithLive, InLoop
<1>4. ASSUME NEW s \in Client PROVE (Unborn(s) /\ Counted(s) /\ Fresh(s))'
  BY <1>4 DEF TypeOK, ForkedOnlyInStart, BusyWithLive, Unborn, Counted, Fresh, NoRunaway, InLoop
<1>5. NoRunaway'
  BY DEF TypeOK, NoRunaway, ForkedOnlyInStart, BusyWithLive, Unborn, Counted, InLoop
<1>6. WholeOutput'
  BY DEF TypeOK, WholeOutput, BusyWithLive, Unborn, Counted, InLoop, Smaller
<1>. QED BY <1>1, <1>2, <1>3, <1>4, <1>5, <1>6

\* What leaves the pipe enters the buffer.
LEMMA ReadSomeKeeps == ASSUME IInv, NEW c \in Client, ReadSome(c) PROVE IInv'
<1>. USE SizeAssumption, ClientAssumption DEF IInv, ReadSome, Reading, Got, Smaller
<1>0. /\ handler[c] \in [state : {"none", "live", "deleted"}, buffer : Nat]
      /\ written[c] \in 0 .. MaxOutput /\ pipe[c] \in 0 .. PipeSize
  BY DEF TypeOK
<1>1. TypeOK'
  <2>1. handler[c].buffer + Got(c) \in Nat /\ pipe[c] - Got(c) \in 0 .. PipeSize
    BY <1>0
  <2>. HIDE DEF Got
  <2>. QED BY <1>0, <2>1 DEF TypeOK, InLoop
<1>2. ForkedOnlyInStart'
  BY DEF TypeOK, ForkedOnlyInStart, BusyWithLive, Unborn, Counted, NoRunaway, InLoop
<1>3. BusyWithLive'
  BY ZenonT(90) DEF TypeOK, BusyWithLive, InLoop
<1>4. ASSUME NEW s \in Client PROVE (Unborn(s) /\ Counted(s) /\ Fresh(s))'
  <2>1. CASE s = c
    <3>1. Unborn(c) /\ Counted(c) /\ Fresh(c)
      OBVIOUS
    <3>2. handler[c].state = "live"
      BY <1>0, <3>1 DEF TypeOK, Unborn, Counted, Fresh, NoRunaway, BusyWithLive, InLoop
    <3>4. Got(c) \in Nat
      BY <1>0
    <3>. HIDE DEF Got
    <3>3. /\ handler'[c].state = handler[c].state
          /\ handler'[c].buffer = handler[c].buffer + Got(c)
          /\ pipe'[c] = pipe[c] - Got(c)
          /\ child'[c] = child[c] /\ reply'[c] = reply[c] /\ written'[c] = written[c]
      BY <1>0 DEF TypeOK
    <3>. QED BY <1>0, <3>4, <2>1, <3>1, <3>2, <3>3 DEF Unborn, Counted, Fresh
  <2>2. CASE s # c
    BY <2>2 DEF TypeOK, Unborn, Counted, Fresh
  <2>. QED BY <2>1, <2>2
<1>5. NoRunaway'
  <2>1. handler'[c].state = "live"
    BY <1>0 DEF TypeOK, BusyWithLive, InLoop
  <2>2. \A s \in Client : s # c => handler'[s] = handler[s] /\ child'[s] = child[s]
    BY DEF TypeOK
  <2>. QED BY <2>1, <2>2 DEF NoRunaway
<1>6. WholeOutput'
  BY DEF TypeOK, WholeOutput, BusyWithLive, Unborn, Counted, InLoop, Smaller
<1>. QED BY <1>1, <1>2, <1>3, <1>4, <1>5, <1>6

\* Nothing but the place changes.
LEMMA ReadNothingKeeps == ASSUME IInv, NEW c \in Client, ReadNothing(c) PROVE IInv'
<1>. USE SizeAssumption, ClientAssumption DEF IInv, ReadNothing, Reading, AtEnd
<1>1. TypeOK'
  BY DEF TypeOK, InLoop
<1>2. ForkedOnlyInStart'
  BY DEF TypeOK, ForkedOnlyInStart, BusyWithLive, Unborn, Counted, NoRunaway, InLoop
<1>3. BusyWithLive'
  BY DEF TypeOK, BusyWithLive, InLoop
<1>4. ASSUME NEW s \in Client PROVE (Unborn(s) /\ Counted(s) /\ Fresh(s))'
  BY <1>4 DEF TypeOK, ForkedOnlyInStart, BusyWithLive, Unborn, Counted, Fresh, NoRunaway, InLoop
<1>5. NoRunaway'
  BY DEF TypeOK, NoRunaway, ForkedOnlyInStart, BusyWithLive, Unborn, Counted, InLoop
<1>6. WholeOutput'
  BY DEF TypeOK, WholeOutput, BusyWithLive, Unborn, Counted, InLoop, Smaller
<1>. QED BY <1>1, <1>2, <1>3, <1>4, <1>5, <1>6

\* The pipe is empty and the script has ended its output: the buffer is all of it.
LEMMA ReadEndKeeps == ASSUME IInv, NEW c \in Client, ReadEnd(c) PROVE IInv'
<1>. USE SizeAssumption, ClientAssumption DEF IInv, ReadEnd, Reading, AtEnd, Waited, Smaller
<1>0. /\ handler[c] \in [state : {"none", "live", "deleted"}, buffer : Nat]
      /\ written[c] \in 0 .. MaxOutput /\ pipe[c] \in 0 .. PipeSize
  BY DEF TypeOK
<1>1. TypeOK'
  <2>1. handler' \in [Client -> [state : {"none", "live", "deleted"}, buffer : Nat]]
    BY <1>0 DEF TypeOK
  <2>2. at' \in {InLoop}
    OBVIOUS
  <2>3. Smaller(SendRoom, handler[c].buffer) \in Nat
    BY <1>0
  <2>4. reply' \in [Client -> [kind : {"none", "200", "time out"}, body : Nat]]
    BY <2>3 DEF TypeOK
  <2>. QED BY <2>1, <2>2, <2>4 DEF TypeOK
<1>2. ForkedOnlyInStart'
  BY DEF TypeOK, ForkedOnlyInStart, BusyWithLive, Unborn, Counted, NoRunaway, InLoop
<1>3. BusyWithLive'
  BY DEF TypeOK, BusyWithLive, InLoop
<1>4. ASSUME NEW s \in Client PROVE (Unborn(s) /\ Counted(s) /\ Fresh(s))'
  <2>1. CASE s = c
    BY ZenonT(90), <1>0, <2>1 DEF TypeOK, Unborn, Counted, Fresh, BusyWithLive, ForkedOnlyInStart, NoRunaway, InLoop
  <2>2. CASE s # c
    BY ZenonT(90), <2>2 DEF TypeOK, Unborn, Counted, Fresh
  <2>. QED BY <2>1, <2>2
<1>5. NoRunaway'
  BY DEF TypeOK, NoRunaway, ForkedOnlyInStart, BusyWithLive, Unborn, Counted, InLoop
<1>6. WholeOutput'
  <2>1. handler[c].state = "live"
    BY DEF BusyWithLive, InLoop
  <2>2. Counted(c)
    OBVIOUS
  <2>3. handler[c].buffer = written[c]
    BY <1>0, <2>1, <2>2 DEF Counted
  <2>4. /\ reply'[c].body = Smaller(SendRoom, written[c])
        /\ child'[c] \notin {"forked", "running"} /\ written'[c] = written[c]
    BY <2>3 DEF TypeOK
  <2>5. \A s \in Client : s # c => /\ reply'[s] = reply[s] /\ child'[s] = child[s]
                                   /\ written'[s] = written[s]
    BY DEF TypeOK
  <2>. QED BY <2>4, <2>5 DEF WholeOutput
<1>. QED BY <1>1, <1>2, <1>3, <1>4, <1>5, <1>6

\* The script is killed and waited for.
LEMMA TimeOutKeeps == ASSUME IInv, NEW c \in Client, TimeOut(c) PROVE IInv'
<1>. USE SizeAssumption, ClientAssumption DEF IInv, TimeOut, KilledAndWaited
<1>0. /\ handler[c] \in [state : {"none", "live", "deleted"}, buffer : Nat]
      /\ written[c] \in 0 .. MaxOutput /\ pipe[c] \in 0 .. PipeSize
  BY DEF TypeOK
<1>1. TypeOK'
  <2>1. handler' \in [Client -> [state : {"none", "live", "deleted"}, buffer : Nat]]
    BY <1>0 DEF TypeOK
  <2>2. reply' \in [Client -> [kind : {"none", "200", "time out"}, body : Nat]]
    BY DEF TypeOK
  <2>. QED BY <2>1, <2>2 DEF TypeOK
<1>2. ForkedOnlyInStart'
  BY DEF TypeOK, ForkedOnlyInStart, BusyWithLive, Unborn, Counted, NoRunaway, InLoop
<1>3. BusyWithLive'
  BY DEF TypeOK, BusyWithLive, InLoop
<1>4. ASSUME NEW s \in Client PROVE (Unborn(s) /\ Counted(s) /\ Fresh(s))'
  <2>1. CASE s = c
    BY <1>0, <2>1 DEF TypeOK, Unborn, Counted, Fresh, BusyWithLive, ForkedOnlyInStart, NoRunaway, InLoop
  <2>2. CASE s # c
    BY <2>2 DEF TypeOK, Unborn, Counted, Fresh
  <2>. QED BY <2>1, <2>2
<1>5. NoRunaway'
  BY DEF TypeOK, NoRunaway, ForkedOnlyInStart, BusyWithLive, Unborn, Counted, InLoop
<1>6. WholeOutput'
  BY ZenonT(90) DEF TypeOK, WholeOutput, BusyWithLive, Unborn, Counted, InLoop, Smaller
<1>. QED BY <1>1, <1>2, <1>3, <1>4, <1>5, <1>6

\* A script is forked only in startCGI.
LEMMA ExecKeeps == ASSUME IInv, NEW c \in Client, Exec(c) PROVE IInv'
<1>. USE SizeAssumption, ClientAssumption DEF IInv, Exec
<1>1. TypeOK'
  BY DEF TypeOK, InLoop
<1>2. ForkedOnlyInStart'
  BY DEF TypeOK, ForkedOnlyInStart, BusyWithLive, Unborn, Counted, NoRunaway, InLoop
<1>3. BusyWithLive'
  BY DEF TypeOK, BusyWithLive, InLoop
<1>4. ASSUME NEW s \in Client PROVE (Unborn(s) /\ Counted(s) /\ Fresh(s))'
  BY <1>4 DEF TypeOK, ForkedOnlyInStart, BusyWithLive, Unborn, Counted, Fresh, NoRunaway, InLoop
<1>5. NoRunaway'
  BY DEF TypeOK, NoRunaway, ForkedOnlyInStart, BusyWithLive, Unborn, Counted, InLoop
<1>6. WholeOutput'
  BY DEF TypeOK, WholeOutput, BusyWithLive, Unborn, Counted, InLoop, Smaller
<1>. QED BY <1>1, <1>2, <1>3, <1>4, <1>5, <1>6

\* A script is forked only in startCGI.
LEMMA ExecFailsKeeps == ASSUME IInv, NEW c \in Client, ExecFails(c) PROVE IInv'
<1>. USE SizeAssumption, ClientAssumption DEF IInv, ExecFails
<1>1. TypeOK'
  BY DEF TypeOK, InLoop
<1>2. ForkedOnlyInStart'
  BY DEF TypeOK, ForkedOnlyInStart, BusyWithLive, Unborn, Counted, NoRunaway, InLoop
<1>3. BusyWithLive'
  BY DEF TypeOK, BusyWithLive, InLoop
<1>4. ASSUME NEW s \in Client PROVE (Unborn(s) /\ Counted(s) /\ Fresh(s))'
  BY <1>4 DEF TypeOK, ForkedOnlyInStart, BusyWithLive, Unborn, Counted, Fresh, NoRunaway, InLoop
<1>5. NoRunaway'
  BY DEF TypeOK, NoRunaway, ForkedOnlyInStart, BusyWithLive, Unborn, Counted, InLoop
<1>6. WholeOutput'
  BY DEF TypeOK, WholeOutput, BusyWithLive, Unborn, Counted, InLoop, Smaller
<1>. QED BY <1>1, <1>2, <1>3, <1>4, <1>5, <1>6

\* What is written enters the pipe, and only a script with a handler runs.
LEMMA WriteKeeps == ASSUME IInv, NEW c \in Client, Write(c) PROVE IInv'
<1>. USE SizeAssumption, ClientAssumption DEF IInv, Write
<1>0. /\ handler[c] \in [state : {"none", "live", "deleted"}, buffer : Nat]
      /\ written[c] \in 0 .. MaxOutput /\ pipe[c] \in 0 .. PipeSize
  BY DEF TypeOK
<1>1. TypeOK'
  <2>1. written[c] + 1 \in 0 .. MaxOutput /\ pipe[c] + 1 \in 0 .. PipeSize
    BY <1>0
  <2>. QED BY <2>1 DEF TypeOK, InLoop
<1>2. ForkedOnlyInStart'
  BY DEF TypeOK, ForkedOnlyInStart, BusyWithLive, Unborn, Counted, NoRunaway, InLoop
<1>3. BusyWithLive'
  BY DEF TypeOK, BusyWithLive, InLoop
<1>4. ASSUME NEW s \in Client PROVE (Unborn(s) /\ Counted(s) /\ Fresh(s))'
  <2>1. CASE s = c
    <3>1. Unborn(c) /\ Counted(c) /\ Fresh(c)
      OBVIOUS
    <3>2. handler[c].state = "live"
      BY <1>0, <3>1 DEF TypeOK, Unborn, Counted, Fresh, NoRunaway, BusyWithLive, InLoop
    <3>3. /\ handler'[c] = handler[c] /\ child'[c] = child[c] /\ reply'[c] = reply[c]
          /\ written'[c] = written[c] + 1 /\ pipe'[c] = pipe[c] + 1
      BY <1>0 DEF TypeOK
    <3>. QED BY <1>0, <2>1, <3>1, <3>2, <3>3 DEF Unborn, Counted, Fresh
  <2>2. CASE s # c
    BY <2>2 DEF TypeOK, Unborn, Counted, Fresh
  <2>. QED BY <2>1, <2>2
<1>5. NoRunaway'
  BY DEF TypeOK, NoRunaway, ForkedOnlyInStart, BusyWithLive, Unborn, Counted, InLoop
<1>6. WholeOutput'
  <2>1. ASSUME NEW s \in Client, reply[s].kind = "200"
        PROVE  /\ child[s] \notin {"forked", "running"}
               /\ reply[s].body = Smaller(SendRoom, written'[s])
    <3>1. /\ child[s] \notin {"forked", "running"}
          /\ reply[s].body = Smaller(SendRoom, written[s])
      BY <2>1 DEF WholeOutput
    <3>. QED BY <3>1 DEF TypeOK
  <2>. QED BY <2>1 DEF WholeOutput
<1>. QED BY <1>1, <1>2, <1>3, <1>4, <1>5, <1>6

\* A script that runs has a handler.
LEMMA EndOutputKeeps == ASSUME IInv, NEW c \in Client, EndOutput(c) PROVE IInv'
<1>. USE SizeAssumption, ClientAssumption DEF IInv, EndOutput
<1>1. TypeOK'
  BY DEF TypeOK, InLoop
<1>2. ForkedOnlyInStart'
  BY DEF TypeOK, ForkedOnlyInStart, BusyWithLive, Unborn, Counted, NoRunaway, InLoop
<1>3. BusyWithLive'
  BY DEF TypeOK, BusyWithLive, InLoop
<1>4. ASSUME NEW s \in Client PROVE (Unborn(s) /\ Counted(s) /\ Fresh(s))'
  BY <1>4 DEF TypeOK, ForkedOnlyInStart, BusyWithLive, Unborn, Counted, Fresh, NoRunaway, InLoop
<1>5. NoRunaway'
  BY DEF TypeOK, NoRunaway, ForkedOnlyInStart, BusyWithLive, Unborn, Counted, InLoop
<1>6. WholeOutput'
  BY ZenonT(90) DEF TypeOK, WholeOutput, BusyWithLive, Unborn, Counted, InLoop, Smaller
<1>. QED BY <1>1, <1>2, <1>3, <1>4, <1>5, <1>6

\* A script that exits has a handler or had ended its output.
LEMMA ExitKeeps == ASSUME IInv, NEW c \in Client, Exit(c) PROVE IInv'
<1>. USE SizeAssumption, ClientAssumption DEF IInv, Exit
<1>1. TypeOK'
  BY DEF TypeOK, InLoop
<1>2. ForkedOnlyInStart'
  BY DEF TypeOK, ForkedOnlyInStart, BusyWithLive, Unborn, Counted, NoRunaway, InLoop
<1>3. BusyWithLive'
  BY DEF TypeOK, BusyWithLive, InLoop
<1>4. ASSUME NEW s \in Client PROVE (Unborn(s) /\ Counted(s) /\ Fresh(s))'
  BY <1>4 DEF TypeOK, ForkedOnlyInStart, BusyWithLive, Unborn, Counted, Fresh, NoRunaway, InLoop
<1>5. NoRunaway'
  BY DEF TypeOK, NoRunaway, ForkedOnlyInStart, BusyWithLive, Unborn, Counted, InLoop
<1>6. WholeOutput'
  BY DEF TypeOK, WholeOutput, BusyWithLive, Unborn, Counted, InLoop, Smaller
<1>. QED BY <1>1, <1>2, <1>3, <1>4, <1>5, <1>6

\* Every step keeps the invariant.
LEMMA NextIInv == IInv /\ [Next]_vars => IInv'
<1>. SUFFICES ASSUME IInv, [Next]_vars PROVE IInv'
  OBVIOUS
<1>1. CASE \E c \in Client : Accept(c) \/ ServeOther(c)
  BY <1>1, AcceptKeeps, ServeOtherKeeps
<1>2. CASE \E s \in Client : StartCGI(s) \/ StartReturns(s) \/ ContinueCGI(s) \/ TimeOut(s)
  BY <1>2, StartCGIKeeps, StartReturnsKeeps, ContinueCGIKeeps, TimeOutKeeps
<1>3. CASE \E s \in Client : ReadOutput(s)
  BY <1>3, ReadSomeKeeps, ReadNothingKeeps, ReadEndKeeps DEF ReadOutput
<1>4. CASE \E s \in Client :
             Exec(s) \/ ExecFails(s) \/ Write(s) \/ EndOutput(s) \/ Exit(s)
  BY <1>4, ExecKeeps, ExecFailsKeeps, WriteKeeps, EndOutputKeeps, ExitKeeps
<1>5. CASE UNCHANGED vars
  BY <1>5 DEF vars, IInv, TypeOK, ForkedOnlyInStart, BusyWithLive, Unborn, Counted,
              Fresh, NoRunaway, WholeOutput
<1>. QED BY <1>1, <1>2, <1>3, <1>4, <1>5 DEF Next

LEMMA AlwaysIInv == Spec => []IInv
<1>. QED BY InitIInv, NextIInv, PTL DEF Spec

\* Every variable keeps its type.
THEOREM TypeCorrect == Spec => []TypeOK
<1>1. IInv => TypeOK
  BY DEF IInv
<1>. QED BY <1>1, AlwaysIInv, PTL

\* The answer to a request for a script holds all the script ever writes, up to
\* what one send() takes, whatever the sizes of pipe, buffer and output are.
THEOREM OutputWhole == Spec => []WholeOutput
<1>1. IInv => WholeOutput
  BY DEF IInv
<1>. QED BY <1>1, AlwaysIInv, PTL

\* No script runs on without its CGIHandler.
THEOREM NoneRunsAway == Spec => []NoRunaway
<1>1. IInv => NoRunaway
  BY DEF IInv
<1>. QED BY <1>1, AlwaysIInv, PTL
=============================================================================
