---------------------------- MODULE SocketProofs ----------------------------
(***************************************************************************)
(* Proofs about the simpleSocket, for every capacity of its channels and   *)
(* every number of calls and messages.                                     *)
(***************************************************************************)
EXTENDS SimpleSocket, FiniteSetTheorems, TLAPS

-----------------------------------------------------------------------------
(* The inductive invariant *)

\* A caller that waits for an answer has made a call, and none calls more often
\* than the bounds say. Stop ends both callers.
CallsInv ==
    /\ \A c \in Callers : /\ writes[c] <= MaxWrites(c)
                          /\ call[c] = "write" => writes[c] >= 1
                          /\ (call[c] = "stop") = (call[Owner] = "stop")
    /\ call[Owner] = "read" => reads >= 1

Working == run \in {"writing", "flushing"}
Closing == run \in {"flush", "flushing", "waitRemote", "stopped"}

\* How far Run is: it leaves its loop only for a caller's Stop, closes only
\* when the pump has ended, and then flushes what there is.
RunInv ==
    /\ Working => cur \in Writes
    /\ run \notin {"loop", "writing"} => call[Owner] = "stop"
    /\ Closing => pump = "stopped"
    /\ run \in {"flush", "flushing"} => remaining = Len(outbound)
    /\ run \in {"waitRemote", "stopped"} => outbound = <<>>
    /\ run \notin {"waitRemote", "stopped"} => ~closeSent

\* Write requests taken from outbound, and those of them that were answered.
Taken == Len(given) - Len(outbound)
Handled == IF Working THEN Taken - 1 ELSE Taken

\* The outbound channel holds the requests given last, and Run works on the
\* one before them.
OutboundInv ==
    /\ Len(outbound) <= Len(given)
    /\ \A j \in 1..Len(outbound) : outbound[j] = given[Taken + j]
    /\ Working => Taken >= 1 /\ cur = given[Taken]

On(q) == {q[k] : k \in DOMAIN q}

\* A request is named by the call that gave it.
GivenInv ==
    \A c \in Callers : /\ \A n \in 1..MaxWrites(c) : <<c, n>> \in On(given) => n <= writes[c]
                       /\ call[c] = "write" => <<c, writes[c]>> \in On(given)

\* Every request handled is answered, and what is on the wire was handled.
AnswerInv ==
    /\ \A k \in 1..Handled : wresp[given[k]] # "none"
    /\ \A w \in Writes : wresp[w] = "ok" => w \in On(wire)
    /\ \A w \in On(wire) : \E k \in 1..Handled : w = given[k]

\* What a call of Write returned: "ok" for what is on the wire, and nothing as
\* long as it has not returned.
ToldInv ==
    /\ \A w \in Writes : wres[w] = "ok" => w \in On(wire)
    /\ \A c \in Callers : \A n \in 1..MaxWrites(c) :
          wres[<<c, n>>] # "nothing" =>
              n <= writes[c] /\ ~(call[c] = "write" /\ n = writes[c])

WriteInv == OutboundInv /\ GivenInv /\ AnswerInv /\ ToldInv

\* Read requests taken from inbound, and those of them that were answered.
RTaken == reads - Len(inbound)
RHandled == IF pump = "reading" THEN RTaken - 1 ELSE RTaken

\* The inbound channel holds the latest reads, the pump works on the one before.
InboundInv ==
    /\ Len(inbound) <= reads
    /\ \A j \in 1..Len(inbound) : inbound[j] = RTaken + j
    /\ pump = "reading" => RTaken >= 1 /\ rcur = RTaken

\* The messages received and not read are the latest ones; as long as reading
\* works, every read that was handled took one.
IncomingInv ==
    /\ Len(incoming) <= arrived
    /\ \A j \in 1..Len(incoming) : incoming[j] = (arrived - Len(incoming)) + j
    /\ pump # "stopped" /\ ~rbroken => arrived - Len(incoming) = RHandled

\* The n-th read is answered with the n-th message, until an error, which is final.
ReadAnswerInv ==
    /\ \A r \in Reads : r > RHandled => rresp[r] = Unanswered
    /\ \A r \in Reads : rresp[r] \in {Unanswered, r, ReadError}
    /\ \A r, s \in Reads : r < s /\ rresp[r] = ReadError => rresp[s] # s
    /\ \A r \in Reads : rresp[r] = ReadError => rbroken

\* The calls of Read returned what they were answered with, or a timeout.
GotInv ==
    /\ Len(got) = IF call[Owner] = "read" THEN reads - 1 ELSE reads
    /\ \A k \in 1..Len(got) : got[k] \in {Unanswered, rresp[k]}

ReadInv == InboundInv /\ IncomingInv /\ ReadAnswerInv /\ GotInv

SocketInv == TypeOK /\ CallsInv /\ RunInv /\ WriteInv /\ ReadInv
-----------------------------------------------------------------------------
(* Lemmas about the operators *)

LEMMA WriteIds ==
    /\ Owner \in Callers /\ Reporter \in Callers
    /\ \A c \in Callers : MaxWrites(c) \in Nat
    /\ \A c \in Callers : \A n \in 1..MaxWrites(c) : <<c, n>> \in Writes
    /\ \A w \in Writes : \E c \in Callers : \E n \in 1..MaxWrites(c) : w = <<c, n>>
  BY SocketAssumption DEF Callers, MaxWrites, Writes

LEMMA Appended ==
    ASSUME NEW S, NEW q \in Seq(S), NEW e \in S
    PROVE  /\ Append(q, e) \in Seq(S) /\ Len(q) \in Nat
           /\ Len(Append(q, e)) = Len(q) + 1
           /\ \A j \in 1..Len(q) : Append(q, e)[j] = q[j]
           /\ Append(q, e)[Len(q) + 1] = e
           /\ On(Append(q, e)) = On(q) \cup {e}
  <1>1. /\ Append(q, e) \in Seq(S) /\ Len(q) \in Nat
        /\ Len(Append(q, e)) = Len(q) + 1
        /\ \A j \in 1..Len(q) : Append(q, e)[j] = q[j]
        /\ Append(q, e)[Len(q) + 1] = e
    OBVIOUS
  <1>2. DOMAIN q = 1..Len(q) /\ DOMAIN Append(q, e) = 1..(Len(q) + 1)
    OBVIOUS
  <1> QED
    BY <1>1, <1>2 DEF On

LEMMA HeadTail ==
    ASSUME NEW S, NEW q \in Seq(S), q # <<>>
    PROVE  /\ Len(q) \in Nat /\ Len(q) >= 1
           /\ Head(q) \in S /\ Head(q) = q[1]
           /\ Tail(q) \in Seq(S) /\ Len(Tail(q)) = Len(q) - 1
           /\ \A j \in 1..Len(Tail(q)) : Tail(q)[j] = q[j + 1]
  <1>1. Len(q) \in Nat /\ Len(q) >= 1
    OBVIOUS
  <1>2. Head(q) \in S /\ Head(q) = q[1] /\ Tail(q) \in Seq(S) /\ Len(Tail(q)) = Len(q) - 1
    BY <1>1
  <1>3. \A j \in 1..Len(Tail(q)) : Tail(q)[j] = q[j + 1]
    BY <1>1, <1>2
  <1> QED
    BY <1>1, <1>2, <1>3

\* The empty channel.
LEMMA Empty == Len(<<>>) = 0 /\ On(<<>>) = {}
  BY DEF On

-----------------------------------------------------------------------------
(* Types *)

ShapeInv == TypeOK /\ CallsInv /\ RunInv /\ (pump = "reading" => rcur \in Reads)

LEMMA ShapeInit == Init => ShapeInv
  <1> SUFFICES ASSUME Init PROVE ShapeInv
    OBVIOUS
  <1>1. Len(<<>>) = 0 /\ <<>> \in Seq(Writes) /\ <<>> \in Seq(Reads)
        /\ <<>> \in Seq(1..MaxIncoming) /\ <<>> \in Seq(ReadError..MaxIncoming)
    OBVIOUS
  <1>2. Unanswered \in ReadError..MaxIncoming /\ 0 \in 0..MaxReads /\ 0 \in 0..Cap
        /\ 0 \in 0..MaxIncoming /\ 0 <= Cap
    BY SocketAssumption DEF Unanswered, ReadError
  <1>3. TypeOK
    BY <1>1, <1>2 DEF Init, TypeOK
  <1>4. CallsInv
    BY WriteIds DEF Init, CallsInv
  <1>5. RunInv
    BY DEF Init, RunInv, Working, Closing
  <1> QED
    BY <1>3, <1>4, <1>5 DEF ShapeInv, Init
\* The calls of the socket's users.
LEMMA ShapeCalls ==
    ASSUME ShapeInv,
           \/ \E c \in Callers : Write(c) \/ WriteReturns(c)
           \/ Read \/ ReadReturns \/ Stop
    PROVE  ShapeInv'
  <1> USE DEF ShapeInv
  <1>t. TypeOK
    OBVIOUS
  <1>1. ASSUME NEW c \in Callers, Write(c) PROVE ShapeInv'
    <2>1. /\ writes[c] + 1 \in 1..MaxWrites(c) /\ <<c, writes[c] + 1>> \in Writes
      <3>1. writes[c] \in Nat /\ MaxWrites(c) \in Nat /\ writes[c] < MaxWrites(c)
        BY <1>1, WriteIds DEF Write, TypeOK
      <3>2. writes[c] + 1 \in 1..MaxWrites(c)
        BY <3>1
      <3> QED
        BY <3>2, WriteIds
    <2>2. /\ outbound' \in Seq(Writes) /\ Len(outbound') <= Cap /\ given' \in Seq(Writes)
      BY <1>1, <2>1, Appended, SocketAssumption DEF Write, Room, TypeOK
    <2>3. TypeOK'
      BY <1>1, <2>1, <2>2 DEF Write, TypeOK, callVars, runVars, pumpVars, netVars
    <2>4. call[Owner] # "stop"
      BY <1>1 DEF Write, CallsInv
    <2>5. CallsInv'
      <3>1. /\ \A d \in Callers : d # c => writes'[d] = writes[d] /\ call'[d] = call[d]
            /\ writes'[c] = writes[c] + 1 /\ call'[c] = "write" /\ UNCHANGED reads
        BY <1>1 DEF Write, TypeOK
      <3>2. writes[c] + 1 >= 1 /\ writes[c] + 1 <= MaxWrites(c)
        BY <2>1, WriteIds
      <3>3. \A d \in Callers : (call'[d] = "stop") = (call'[Owner] = "stop")
        BY <3>1, <2>4, WriteIds DEF CallsInv
      <3> QED
        BY <3>1, <3>2, <3>3, WriteIds DEF CallsInv
    <2>6. RunInv'
      BY <1>1, <2>4 DEF Write, RunInv, Working, Closing, runVars, pumpVars
    <2> QED
      BY <1>1, <2>3, <2>5, <2>6 DEF Write, pumpVars
  <1>2. ASSUME NEW c \in Callers, WriteReturns(c) PROVE ShapeInv'
    <2>1. <<c, writes[c]>> \in Writes
      BY <1>2, WriteIds DEF WriteReturns, TypeOK, CallsInv
    <2>2. \A a \in Answer(c) \cup {"error"} : a \in {"ok", "error"}
      BY <2>1 DEF Answer, TypeOK
    <2>3. TypeOK'
      BY <1>2, <2>1, <2>2 DEF WriteReturns, TypeOK, callVars, runVars, pumpVars, netVars
    <2>4. call[Owner] # "stop"
      BY <1>2 DEF WriteReturns, CallsInv
    <2>5. CallsInv'
      BY <1>2, <2>4, WriteIds DEF WriteReturns, CallsInv, TypeOK
    <2>6. RunInv'
      BY <1>2, <2>4 DEF WriteReturns, RunInv, Working, Closing, runVars, pumpVars
    <2> QED
      BY <1>2, <2>3, <2>5, <2>6 DEF WriteReturns, pumpVars
  <1>3. ASSUME Read PROVE ShapeInv'
    <2>1. reads + 1 \in Reads /\ reads + 1 \in 0..MaxReads
      BY <1>3, SocketAssumption DEF Read, TypeOK, Reads
    <2>2. inbound' \in Seq(Reads) /\ Len(inbound') <= Cap
      BY <1>3, <2>1, Appended, SocketAssumption DEF Read, Room, TypeOK
    <2>3. TypeOK'
      BY <1>3, <2>1, <2>2 DEF Read, TypeOK, runVars, pumpVars, netVars
    <2>4. CallsInv'
      BY <1>3, <2>1, WriteIds DEF Read, CallsInv, TypeOK, Callers, Reads
    <2>5. RunInv'
      BY <1>3, WriteIds DEF Read, RunInv, Working, Closing, runVars, pumpVars, TypeOK
    <2> QED
      BY <1>3, <2>3, <2>4, <2>5 DEF Read, pumpVars
  <1>4. ASSUME ReadReturns PROVE ShapeInv'
    <2>1. reads \in Reads
      BY <1>4, SocketAssumption DEF ReadReturns, TypeOK, CallsInv, Reads
    <2>2. \A a \in ReadAnswer \cup {Unanswered} : a \in ReadError..MaxIncoming
      BY <2>1, SocketAssumption DEF ReadAnswer, TypeOK, Unanswered, ReadError
    <2>3. got' \in Seq(ReadError..MaxIncoming)
      BY <1>4, <2>2, Appended DEF ReadReturns, TypeOK
    <2>4. TypeOK'
      BY <1>4, <2>3 DEF ReadReturns, TypeOK, runVars, pumpVars, netVars
    <2>5. CallsInv'
      BY <1>4, WriteIds DEF ReadReturns, CallsInv, TypeOK
    <2>6. RunInv'
      BY <1>4, WriteIds DEF ReadReturns, RunInv, Working, Closing, runVars, pumpVars, TypeOK
    <2> QED
      BY <1>4, <2>4, <2>5, <2>6 DEF ReadReturns, pumpVars
  <1>5. ASSUME Stop PROVE ShapeInv'
    <2>1. TypeOK'
      BY <1>5 DEF Stop, TypeOK, runVars, pumpVars, netVars
    <2>2. CallsInv'
      BY <1>5, WriteIds DEF Stop, CallsInv
    <2>3. RunInv'
      BY <1>5, WriteIds DEF Stop, RunInv, Working, Closing, runVars, pumpVars
    <2> QED
      BY <1>5, <2>1, <2>2, <2>3 DEF Stop, pumpVars
  <1> QED
    BY <1>1, <1>2, <1>3, <1>4, <1>5

\* What Run does.
LEMMA ShapeRun == ASSUME ShapeInv, RunStep PROVE ShapeInv'
  <1> USE DEF ShapeInv
  <1>t. TypeOK
    OBVIOUS
  <1>1. ASSUME TakeWrite PROVE ShapeInv'
    <2>1. /\ Len(outbound) \in Nat /\ Len(outbound) >= 1
          /\ outbound' \in Seq(Writes) /\ Len(outbound') = Len(outbound) - 1
          /\ cur' \in Writes
      BY <1>1, HeadTail DEF TakeWrite, TypeOK
    <2>2. remaining' \in 0..Cap
      BY <1>1, SocketAssumption DEF TakeWrite, TypeOK
    <2>3. TypeOK'
      BY <1>1, <2>1, <2>2, SocketAssumption DEF TakeWrite, TypeOK, callVars, pumpVars, netVars
    <2>4. CallsInv'
      BY <1>1 DEF TakeWrite, CallsInv, callVars
    <2>5. RunInv'
      BY <1>1, <2>1 DEF TakeWrite, RunInv, Working, Closing, callVars, pumpVars
    <2> QED
      BY <1>1, <2>3, <2>4, <2>5 DEF TakeWrite, pumpVars
  <1>2. ASSUME NEW ok \in BOOLEAN, WriteDone(ok) PROVE ShapeInv'
    <2>1. cur \in Writes
      BY <1>2 DEF WriteDone, RunInv, Working
    <2>2. wire' \in Seq(Writes)
      <3>1. wire \in Seq(Writes)
        BY DEF TypeOK
      <3>2. Append(wire, cur) \in Seq(Writes)
        BY <2>1, <3>1, Appended
      <3> QED
        BY <1>2, <3>1, <3>2 DEF WriteDone
    <2>3. TypeOK'
      BY <1>2, <2>1, <2>2 DEF WriteDone, TypeOK, callVars, pumpVars, netVars
    <2>4. CallsInv'
      BY <1>2 DEF WriteDone, CallsInv, callVars
    <2>5. RunInv'
      BY <1>2 DEF WriteDone, RunInv, Working, Closing, callVars, pumpVars
    <2> QED
      BY <1>2, <2>3, <2>4, <2>5 DEF WriteDone, pumpVars
  <1>3. ASSUME StopNoticed PROVE ShapeInv'
    <2>1. TypeOK'
      BY <1>3 DEF StopNoticed, TypeOK, callVars, pumpVars, netVars
    <2>2. CallsInv'
      BY <1>3 DEF StopNoticed, CallsInv, callVars
    <2>3. RunInv'
      BY <1>3 DEF StopNoticed, RunInv, Working, Closing, callVars, pumpVars
    <2> QED
      BY <1>3, <2>1, <2>2, <2>3 DEF StopNoticed, pumpVars
  <1>4. ASSUME PumpJoined PROVE ShapeInv'
    <2>1. opt.flushOnStop
      BY DEF TypeOK, Options
    <2>2. remaining' = Len(outbound) /\ Len(outbound) \in Nat
      BY <1>4, <2>1 DEF PumpJoined, TypeOK
    <2>3. TypeOK'
      BY <1>4, <2>2, SocketAssumption DEF PumpJoined, TypeOK, callVars, pumpVars, netVars
    <2>4. CallsInv'
      BY <1>4 DEF PumpJoined, CallsInv, callVars
    <2>5. RunInv'
      BY <1>4, <2>2 DEF PumpJoined, PumpEnded, RunInv, Working, Closing, callVars, pumpVars
    <2> QED
      BY <1>4, <2>3, <2>4, <2>5 DEF PumpJoined, pumpVars
  <1>5. ASSUME NEW ok \in BOOLEAN, SendCloseFrame(ok) PROVE ShapeInv'
    <2>1. outbound = <<>>
      BY <1>5 DEF SendCloseFrame, Flushed, RunInv, TypeOK
    <2>2. TypeOK'
      <3>1. opt.sendCloseMessage \in BOOLEAN
        <4>1. opt \in Options
          BY DEF TypeOK
        <4>2. opt.sendCloseMessage = TRUE \/ opt.sendCloseMessage = FALSE
          BY <4>1 DEF Options
        <4> QED
          BY <4>2, Zenon
      <3>2. wbroken' \in BOOLEAN /\ closeSent' \in BOOLEAN
        BY <1>5, <3>1 DEF SendCloseFrame, TypeOK
      <3>3. run' \in {"waitRemote", "stopped"}
        BY <1>5 DEF SendCloseFrame
      <3> QED
        BY <1>5, <3>2, <3>3 DEF SendCloseFrame, TypeOK, callVars, pumpVars, netVars
    <2>3. CallsInv'
      BY <1>5 DEF SendCloseFrame, CallsInv, callVars
    <2>4. RunInv'
      <3>1. run = "flush" /\ run' \in {"waitRemote", "stopped"}
        BY <1>5 DEF SendCloseFrame, Flushed
      <3> QED
        BY <1>5, <2>1, <3>1 DEF SendCloseFrame, RunInv, Working, Closing, callVars, pumpVars
    <2> QED
      BY <1>5, <2>2, <2>3, <2>4 DEF SendCloseFrame, pumpVars
  <1>6. ASSUME RemoteCloseAwaited PROVE ShapeInv'
    <2>1. incoming' \in Seq(1..MaxIncoming)
      <3>1. incoming \in Seq(1..MaxIncoming)
        BY DEF TypeOK
      <3>2. incoming # <<>> => Tail(incoming) \in Seq(1..MaxIncoming)
        BY <3>1, HeadTail
      <3> QED
        BY <1>6, <3>1, <3>2 DEF RemoteCloseAwaited
    <2>2. TypeOK'
      BY <1>6, <2>1 DEF RemoteCloseAwaited, TypeOK, callVars, pumpVars
    <2>3. CallsInv'
      BY <1>6 DEF RemoteCloseAwaited, CallsInv, callVars
    <2>4. RunInv'
      BY <1>6 DEF RemoteCloseAwaited, RunInv, Working, Closing, callVars, pumpVars
    <2> QED
      BY <1>6, <2>2, <2>3, <2>4 DEF RemoteCloseAwaited, pumpVars
  <1> QED
    BY <1>1, <1>2, <1>3, <1>4, <1>5, <1>6 DEF RunStep

\* What readPump and the remote end do.
LEMMA ShapePump == ASSUME ShapeInv, PumpStep \/ Remote PROVE ShapeInv'
  <1> USE DEF ShapeInv
  <1>t. TypeOK
    OBVIOUS
  <1>1. ASSUME TakeRead PROVE ShapeInv'
    <2>1. /\ Len(inbound) \in Nat /\ Len(inbound) >= 1
          /\ inbound' \in Seq(Reads) /\ Len(inbound') = Len(inbound) - 1
          /\ rcur' \in Reads
      BY <1>1, HeadTail DEF TakeRead, TypeOK
    <2>2. TypeOK'
      BY <1>1, <2>1, SocketAssumption DEF TakeRead, TypeOK, callVars, runVars, netVars
    <2>3. CallsInv'
      BY <1>1 DEF TakeRead, CallsInv, callVars
    <2>4. RunInv'
      BY <1>1 DEF TakeRead, RunInv, Working, Closing, callVars, runVars
    <2> QED
      BY <2>1, <2>2, <2>3, <2>4
  <1>2. ASSUME ReadDone PROVE ShapeInv'
    <2>1. ReadError \in ReadError..MaxIncoming /\ 1..MaxIncoming \subseteq ReadError..MaxIncoming
      BY SocketAssumption DEF ReadError
    <2>2. /\ rresp' \in [Reads -> ReadError..MaxIncoming]
          /\ incoming' \in Seq(1..MaxIncoming)
          /\ rbroken' \in BOOLEAN
      <3>1. /\ incoming \in Seq(1..MaxIncoming) /\ rbroken \in BOOLEAN
            /\ rresp \in [Reads -> ReadError..MaxIncoming]
        BY DEF TypeOK
      <3>2. incoming # <<>> =>
                Head(incoming) \in 1..MaxIncoming /\ Tail(incoming) \in Seq(1..MaxIncoming)
        BY <3>1, HeadTail
      <3> QED
        BY <1>2, <2>1, <3>1, <3>2 DEF ReadDone
    <2>3. wbroken' \in BOOLEAN
      BY <1>2 DEF ReadDone, TypeOK
    <2>4. TypeOK'
      BY <1>2, <2>2, <2>3 DEF ReadDone, TypeOK, callVars, runVars
    <2>5. CallsInv'
      BY <1>2 DEF ReadDone, CallsInv, callVars
    <2>6. RunInv'
      BY <1>2 DEF ReadDone, RunInv, Working, Closing, callVars, runVars
    <2> QED
      BY <1>2, <2>4, <2>5, <2>6 DEF ReadDone
  <1>3. ASSUME PumpStops PROVE ShapeInv'
    <2>1. TypeOK'
      BY <1>3 DEF PumpStops, TypeOK, callVars, runVars, netVars
    <2>2. CallsInv'
      BY <1>3 DEF PumpStops, CallsInv, callVars
    <2>3. RunInv'
      BY <1>3 DEF PumpStops, RunInv, Working, Closing, callVars, runVars
    <2> QED
      BY <1>3, <2>1, <2>2, <2>3 DEF PumpStops
  <1>4. ASSUME Remote PROVE ShapeInv'
    <2>1. incoming' \in Seq(1..MaxIncoming) /\ arrived' \in 0..MaxIncoming
      <3>1. arrived < MaxIncoming => arrived + 1 \in 1..MaxIncoming
        BY SocketAssumption DEF TypeOK
      <3>2. incoming \in Seq(1..MaxIncoming) /\ arrived \in 0..MaxIncoming
        BY DEF TypeOK
      <3>3. arrived < MaxIncoming => Append(incoming, arrived + 1) \in Seq(1..MaxIncoming)
        BY <3>1, <3>2, Appended
      <3>4. arrived < MaxIncoming => arrived + 1 \in 0..MaxIncoming
        BY <3>1
      <3> QED
        BY <1>4, <3>2, <3>3, <3>4 DEF Remote
    <2>2. TypeOK'
      BY <1>4, <2>1 DEF Remote, TypeOK, callVars, runVars, pumpVars
    <2>3. CallsInv'
      BY <1>4 DEF Remote, CallsInv, callVars
    <2>4. RunInv'
      BY <1>4 DEF Remote, RunInv, Working, Closing, callVars, runVars, pumpVars
    <2> QED
      BY <1>4, <2>2, <2>3, <2>4 DEF Remote, pumpVars
  <1> QED
    BY <1>1, <1>2, <1>3, <1>4 DEF PumpStep

LEMMA ShapeStutters == ASSUME ShapeInv, UNCHANGED vars PROVE ShapeInv'
  <1>1. TypeOK'
    BY DEF ShapeInv, TypeOK, vars, callVars, runVars, pumpVars, netVars
  <1>2. CallsInv' /\ RunInv'
    BY DEF ShapeInv, CallsInv, RunInv, Working, Closing, vars, callVars, runVars, pumpVars
  <1> QED
    BY <1>1, <1>2 DEF ShapeInv, vars, pumpVars

LEMMA ShapeNext == ASSUME ShapeInv, [Next]_vars PROVE ShapeInv'
  BY ShapeCalls, ShapeRun, ShapePump, ShapeStutters DEF Next, Ended

\* Every variable of the socket has its type, and neither request channel ever
\* holds more than its capacity (newSimpleSocket).
THEOREM TypeCorrect == Spec => []TypeOK
  <1> QED
    BY ShapeInit, ShapeNext, PTL DEF Spec, ShapeInv

\* One reader at a time: when close() reads from the connection, readPump has
\* returned (Run, readPump, close).
THEOREM ReadsDoNotMeet == Spec => []OneReader
  <1>1. ShapeInv => OneReader
    BY DEF ShapeInv, RunInv, Closing, OneReader
  <1> QED
    BY <1>1, ShapeInit, ShapeNext, PTL DEF Spec
-----------------------------------------------------------------------------
(* Writing                                                                  *)

LEMMA WriteInit == Init => WriteInv
  <1> SUFFICES ASSUME Init PROVE WriteInv
    OBVIOUS
  <1>1. /\ Len(given) = 0 /\ Len(outbound) = 0 /\ ~Working /\ Taken = 0 /\ Handled = 0
        /\ On(given) = {} /\ On(wire) = {}
    BY Empty DEF Init, Working, Taken, Handled
  <1>2. \A c \in Callers : call[c] # "write"
    BY DEF Init
  <1>3. \A w \in Writes : wresp[w] = "none" /\ wres[w] = "nothing"
    BY DEF Init
  <1>4. OutboundInv
    BY <1>1 DEF OutboundInv
  <1>5. GivenInv
    BY <1>1, <1>2 DEF GivenInv
  <1>6. AnswerInv
    BY <1>1, <1>3 DEF AnswerInv
  <1>7. ToldInv
    BY <1>3, WriteIds DEF ToldInv
  <1> QED
    BY <1>4, <1>5, <1>6, <1>7 DEF WriteInv

\* Steps that neither write nor begin or end a call of Write.
LEMMA WriteKept ==
    ASSUME UNCHANGED <<given, outbound, wresp, wire, wres, writes>>,
           Working' = Working, Working => cur' = cur,
           \A c \in Callers : call'[c] = "write" <=> call[c] = "write",
           WriteInv
    PROVE  WriteInv'
  <1>1. Taken' = Taken /\ Handled' = Handled
    BY DEF Taken, Handled
  <1>2. On(given)' = On(given) /\ On(wire)' = On(wire)
    BY DEF On
  <1>3. OutboundInv'
    BY <1>1 DEF WriteInv, OutboundInv
  <1>4. GivenInv'
    BY <1>2 DEF WriteInv, GivenInv
  <1>5. AnswerInv'
    BY <1>1, <1>2 DEF WriteInv, AnswerInv
  <1>6. ToldInv'
    BY <1>2 DEF WriteInv, ToldInv
  <1> QED
    BY <1>3, <1>4, <1>5, <1>6 DEF WriteInv

\* How long the two sequences are.
LEMMA WriteCounts ==
    ASSUME TypeOK, OutboundInv
    PROVE  /\ given \in Seq(Writes) /\ outbound \in Seq(Writes) /\ wire \in Seq(Writes)
           /\ Len(given) \in Nat /\ Len(outbound) \in Nat /\ Taken \in Nat /\ Handled \in Nat
           /\ Taken + Len(outbound) = Len(given) /\ Handled <= Taken
  <1>1. /\ given \in Seq(Writes) /\ outbound \in Seq(Writes) /\ wire \in Seq(Writes)
        /\ Len(given) \in Nat /\ Len(outbound) \in Nat
    BY DEF TypeOK
  <1> QED
    BY <1>1 DEF OutboundInv, Taken, Handled

LEMMA WriteGives ==
    ASSUME ShapeInv, WriteInv, NEW c \in Callers, Write(c) PROVE WriteInv'
  <1> DEFINE w == <<c, writes[c] + 1>>
  <1>t. TypeOK /\ CallsInv /\ OutboundInv /\ GivenInv /\ AnswerInv /\ ToldInv
    BY DEF ShapeInv, WriteInv
  <1>a. /\ outbound' = Append(outbound, w) /\ given' = Append(given, w)
        /\ call[c] = "idle" /\ writes[c] < MaxWrites(c)
        /\ call' = [call EXCEPT ![c] = "write"]
        /\ writes' = [writes EXCEPT ![c] = writes[c] + 1]
        /\ UNCHANGED <<wresp, wire, wres, cur, run>>
    BY DEF Write, runVars
  <1>b. /\ writes[c] \in Nat /\ MaxWrites(c) \in Nat
        /\ writes[c] + 1 \in 1..MaxWrites(c) /\ w \in Writes
    <2>1. writes[c] \in Nat /\ MaxWrites(c) \in Nat
      BY <1>t, WriteIds DEF TypeOK
    <2>2. writes[c] + 1 \in 1..MaxWrites(c)
      BY <1>a, <2>1
    <2> QED
      BY <2>1, <2>2, WriteIds
  <1>c. /\ Len(given) \in Nat /\ Len(outbound) \in Nat /\ Taken \in Nat /\ Handled \in Nat
        /\ Taken + Len(outbound) = Len(given) /\ Handled <= Taken
        /\ given \in Seq(Writes) /\ outbound \in Seq(Writes)
    BY <1>t, WriteCounts
  <1> HIDE DEF w
  <1>d. /\ Len(given') = Len(given) + 1 /\ given'[Len(given) + 1] = w
        /\ \A k \in 1..Len(given) : given'[k] = given[k]
        /\ On(given') = On(given) \cup {w}
    BY <1>a, <1>b, <1>c, Appended
  <1>e. /\ Len(outbound') = Len(outbound) + 1 /\ outbound'[Len(outbound) + 1] = w
        /\ \A k \in 1..Len(outbound) : outbound'[k] = outbound[k]
    BY <1>a, <1>b, <1>c, Appended
  <1>f. Working' = Working /\ Taken' = Taken /\ Handled' = Handled /\ On(wire)' = On(wire)
    BY <1>a, <1>c, <1>d, <1>e DEF Working, Taken, Handled, On
  <1>1. OutboundInv'
    <2>1. Len(outbound') <= Len(given')
      BY <1>c, <1>d, <1>e
    <2>2. ASSUME NEW j \in 1..Len(outbound') PROVE outbound'[j] = given'[Taken + j]
      <3>1. CASE j = Len(outbound) + 1
        BY <3>1, <1>c, <1>d, <1>e
      <3>2. CASE j # Len(outbound) + 1
        <4>1. j \in 1..Len(outbound) /\ Taken + j \in 1..Len(given)
          BY <3>2, <1>c, <1>e
        <4> QED
          BY <4>1, <1>t, <1>d, <1>e DEF OutboundInv
      <3> QED
        BY <3>1, <3>2
    <2>3. Working' => Taken >= 1 /\ cur' = given'[Taken]
      BY <1>t, <1>a, <1>c, <1>d, <1>f DEF OutboundInv
    <2> QED
      BY <2>1, <2>2, <2>3, <1>f DEF OutboundInv
  <1>2. GivenInv'
    <2> SUFFICES ASSUME NEW d \in Callers
                 PROVE  /\ \A n \in 1..MaxWrites(d) : <<d, n>> \in On(given') => n <= writes'[d]
                        /\ call'[d] = "write" => <<d, writes'[d]>> \in On(given')
      BY DEF GivenInv
    <2>1. CASE d = c
      <3>1. writes'[c] = writes[c] + 1
        BY <1>t, <1>a DEF TypeOK
      <3>2. ASSUME NEW n \in 1..MaxWrites(c), <<c, n>> \in On(given') PROVE n <= writes[c] + 1
        <4>1. CASE <<c, n>> \in On(given)
          <5>1. n <= writes[c]
            BY <4>1, <1>t DEF GivenInv
          <5> QED
            BY <5>1, <1>b
        <4>2. CASE <<c, n>> = w
          BY <4>2, <1>b DEF w
        <4> QED
          BY <3>2, <4>1, <4>2, <1>d
      <3>3. <<c, writes[c] + 1>> \in On(given')
        BY <1>d DEF w
      <3> QED
        BY <2>1, <3>1, <3>2, <3>3
    <2>2. CASE d # c
      <3>1. writes'[d] = writes[d] /\ call'[d] = call[d]
        BY <2>2, <1>t, <1>a DEF TypeOK
      <3>2. \A n \in 1..MaxWrites(d) : <<d, n>> # w
        BY <2>2 DEF w
      <3> QED
        BY <3>1, <3>2, <1>t, <1>d DEF GivenInv
    <2> QED
      BY <2>1, <2>2
  <1>3. AnswerInv'
    <2>1. \A k \in 1..Handled : k \in 1..Len(given) /\ given'[k] = given[k]
      BY <1>c, <1>d
    <2> QED
      BY <2>1, <1>t, <1>a, <1>f DEF AnswerInv
  <1>4. ToldInv'
    <2>1. ASSUME NEW d \in Callers, NEW n \in 1..MaxWrites(d), wres[<<d, n>>] # "nothing"
          PROVE  n <= writes'[d] /\ ~(call'[d] = "write" /\ n = writes'[d])
      <3>1. n <= writes[d] /\ ~(call[d] = "write" /\ n = writes[d])
        BY <2>1, <1>t DEF ToldInv
      <3>2. CASE d = c
        BY <3>1, <3>2, <1>t, <1>a, <1>b DEF TypeOK
      <3>3. CASE d # c
        BY <3>1, <3>3, <1>t, <1>a DEF TypeOK
      <3> QED
        BY <3>2, <3>3
    <2> QED
      BY <2>1, <1>t, <1>a, <1>f DEF ToldInv
  <1> QED
    BY <1>1, <1>2, <1>3, <1>4 DEF WriteInv

LEMMA WriteAnswered ==
    ASSUME ShapeInv, WriteInv, NEW c \in Callers, WriteReturns(c) PROVE WriteInv'
  <1> DEFINE w == <<c, writes[c]>>
  <1>t. TypeOK /\ CallsInv /\ OutboundInv /\ GivenInv /\ AnswerInv /\ ToldInv
    BY DEF ShapeInv, WriteInv
  <1>a. /\ call[c] = "write" /\ call' = [call EXCEPT ![c] = "idle"]
        /\ UNCHANGED <<outbound, given, writes, wresp, wire, cur, run>>
    BY DEF WriteReturns, runVars
  <1>b. w \in Writes
    BY <1>t, <1>a, WriteIds DEF TypeOK, CallsInv
  <1>c. PICK a \in Answer(c) \cup {"error"} : wres' = [wres EXCEPT ![w] = a]
    BY DEF WriteReturns
  <1>d. a = "ok" => w \in On(wire)
    BY <1>t, <1>b, <1>c DEF Answer, AnswerInv
  <1>e. /\ Working' = Working /\ Taken' = Taken /\ Handled' = Handled
        /\ On(wire)' = On(wire) /\ On(given)' = On(given)
    BY <1>a DEF Working, Taken, Handled, On
  <1>1. OutboundInv'
    BY <1>t, <1>a, <1>e DEF OutboundInv
  <1>2. GivenInv'
    BY <1>t, <1>a, <1>e DEF GivenInv, TypeOK
  <1>3. AnswerInv'
    BY <1>t, <1>a, <1>e DEF AnswerInv
  <1>4. ToldInv'
    <2>1. \A v \in Writes : wres'[v] = IF v = w THEN a ELSE wres[v]
      BY <1>t, <1>b, <1>c DEF TypeOK
    <2> HIDE DEF w
    <2>2. \A v \in Writes : wres'[v] = "ok" => v \in On(wire')
      BY <2>1, <1>t, <1>d, <1>e DEF ToldInv
    <2> USE DEF w
    <2>3. ASSUME NEW d \in Callers, NEW n \in 1..MaxWrites(d), wres'[<<d, n>>] # "nothing"
          PROVE  n <= writes'[d] /\ ~(call'[d] = "write" /\ n = writes'[d])
      <3>1. <<d, n>> \in Writes
        BY WriteIds
      <3>2. CASE <<d, n>> = w
        <4>1. d = c /\ n = writes[c]
          BY <3>2
        <4>2. call'[c] = "idle"
          BY <1>t, <1>a DEF TypeOK
        <4> QED
          BY <4>1, <4>2, <1>t, <1>a DEF TypeOK
      <3>3. CASE <<d, n>> # w
        <4>1. wres[<<d, n>>] # "nothing"
          BY <2>1, <2>3, <3>1, <3>3
        <4>2. n <= writes[d] /\ ~(call[d] = "write" /\ n = writes[d])
          BY <4>1, <1>t DEF ToldInv
        <4> QED
          BY <4>2, <1>t, <1>a DEF TypeOK
      <3> QED
        BY <3>2, <3>3
    <2> QED
      BY <2>2, <2>3 DEF ToldInv
  <1> QED
    BY <1>1, <1>2, <1>3, <1>4 DEF WriteInv

LEMMA WriteTaken == ASSUME ShapeInv, WriteInv, TakeWrite PROVE WriteInv'
  <1>t. TypeOK /\ OutboundInv /\ GivenInv /\ AnswerInv /\ ToldInv
    BY DEF ShapeInv, WriteInv
  <1>a. /\ outbound # <<>> /\ outbound' = Tail(outbound) /\ cur' = Head(outbound)
        /\ UNCHANGED <<call, writes, given, wresp, wire, wres>>
        /\ ~Working /\ Working'
    BY DEF TakeWrite, callVars, Working
  <1>c. /\ Len(given) \in Nat /\ Len(outbound) \in Nat /\ Taken \in Nat /\ Handled \in Nat
        /\ Taken + Len(outbound) = Len(given) /\ Handled <= Taken
        /\ outbound \in Seq(Writes)
    BY <1>t, WriteCounts
  <1>d. /\ Len(outbound) >= 1 /\ cur' = outbound[1] /\ Len(outbound') = Len(outbound) - 1
        /\ \A j \in 1..Len(outbound') : outbound'[j] = outbound[j + 1]
    BY <1>a, <1>c, HeadTail
  <1>e. /\ Taken' = Taken + 1 /\ Handled' = Handled
        /\ On(wire)' = On(wire) /\ On(given)' = On(given)
    BY <1>a, <1>c, <1>d DEF Taken, Handled, On
  <1>1. OutboundInv'
    <2>1. cur' = given[Taken + 1]
      BY <1>t, <1>c, <1>d DEF OutboundInv
    <2>2. ASSUME NEW j \in 1..Len(outbound') PROVE outbound'[j] = given[Taken + 1 + j]
      <3>1. j + 1 \in 1..Len(outbound) /\ Taken + 1 + j = Taken + (j + 1)
        BY <1>c, <1>d
      <3> QED
        BY <3>1, <1>t, <1>d DEF OutboundInv
    <2> QED
      <3>1. Len(outbound') <= Len(given) /\ Taken + 1 >= 1
        BY <1>c, <1>d
      <3> QED
        BY <2>1, <2>2, <3>1, <1>a, <1>e DEF OutboundInv
  <1>2. GivenInv'
    BY <1>t, <1>a, <1>e DEF GivenInv
  <1>3. AnswerInv'
    BY <1>t, <1>a, <1>e DEF AnswerInv
  <1>4. ToldInv'
    BY <1>t, <1>a, <1>e DEF ToldInv
  <1> QED
    BY <1>1, <1>2, <1>3, <1>4 DEF WriteInv

LEMMA WriteHandled ==
    ASSUME ShapeInv, WriteInv, NEW ok \in BOOLEAN, WriteDone(ok) PROVE WriteInv'
  <1>t. TypeOK /\ RunInv /\ OutboundInv /\ GivenInv /\ AnswerInv /\ ToldInv
    BY DEF ShapeInv, WriteInv
  <1>a. /\ Working /\ ~Working'
        /\ wire' = IF ok THEN Append(wire, cur) ELSE wire
        /\ wresp' = [wresp EXCEPT ![cur] = IF ok THEN "ok" ELSE "error"]
        /\ UNCHANGED <<call, writes, given, outbound, wres>>
    BY DEF WriteDone, callVars, Working
  <1>b. cur \in Writes /\ wire \in Seq(Writes)
    BY <1>t, <1>a DEF RunInv, TypeOK
  <1>c. /\ Len(given) \in Nat /\ Taken \in Nat /\ Taken >= 1 /\ cur = given[Taken]
        /\ Handled = Taken - 1
    BY <1>t, <1>a, WriteCounts DEF OutboundInv, Handled
  <1>d. On(wire') = IF ok THEN On(wire) \cup {cur} ELSE On(wire)
    <2>1. On(Append(wire, cur)) = On(wire) \cup {cur}
      BY <1>b, Appended
    <2> QED
      BY <2>1, <1>a
  <1>e. Taken' = Taken /\ Handled' = Taken /\ On(given)' = On(given)
    BY <1>a DEF Taken, Handled, On
  <1>f. \A v \in Writes : wresp'[v] = IF v = cur THEN IF ok THEN "ok" ELSE "error"
                                      ELSE wresp[v]
    BY <1>t, <1>a, <1>b DEF TypeOK
  <1>1. OutboundInv'
    BY <1>t, <1>a, <1>e DEF OutboundInv
  <1>2. GivenInv'
    BY <1>t, <1>a, <1>e DEF GivenInv
  <1>3. AnswerInv'
    <2>1. ASSUME NEW k \in 1..Taken PROVE wresp'[given[k]] # "none"
      <3>1. given[k] \in Writes
        BY <1>t, WriteCounts, <1>c
      <3>2. CASE given[k] = cur
        BY <3>1, <3>2, <1>f
      <3>3. CASE given[k] # cur
        <4>1. k \in 1..Handled
          BY <3>3, <1>c
        <4> QED
          BY <3>1, <3>3, <4>1, <1>t, <1>f DEF AnswerInv
      <3> QED
        BY <3>2, <3>3
    <2>2. \A v \in Writes : wresp'[v] = "ok" => v \in On(wire')
      BY <1>t, <1>d, <1>f DEF AnswerInv
    <2>3. \A v \in On(wire') : \E k \in 1..Taken : v = given[k]
      <3>1. Taken \in 1..Taken /\ 1..Handled \subseteq 1..Taken
        BY <1>c
      <3> QED
        BY <3>1, <1>t, <1>c, <1>d DEF AnswerInv
    <2> QED
      BY <2>1, <2>2, <2>3, <1>a, <1>e DEF AnswerInv
  <1>4. ToldInv'
    <2>1. On(wire) \subseteq On(wire')
      BY <1>d
    <2> QED
      BY <2>1, <1>t, <1>a DEF ToldInv
  <1> QED
    BY <1>1, <1>2, <1>3, <1>4 DEF WriteInv

LEMMA WriteNext == ASSUME ShapeInv, WriteInv, [Next]_vars PROVE WriteInv'
  <1>1. ASSUME Read \/ ReadReturns \/ Stop PROVE WriteInv'
    <2>1. /\ UNCHANGED <<given, outbound, wresp, wire, wres, writes, run, cur>>
          /\ \A c \in Callers : call'[c] = "write" <=> call[c] = "write"
      <3>1. \A c \in Callers : call'[c] \in {call[c], "read", "idle", "stop"}
        BY <1>1, WriteIds DEF ShapeInv, TypeOK, Read, ReadReturns, Stop
      <3>2. \A c \in Callers : call[c] = "write" => call'[c] = "write"
        BY <1>1, WriteIds DEF ShapeInv, TypeOK, Read, ReadReturns, Stop
      <3>3. UNCHANGED <<given, outbound, wresp, wire, wres, writes, run, cur>>
        BY <1>1 DEF Read, ReadReturns, Stop, runVars
      <3> QED
        BY <3>1, <3>2, <3>3
    <2> QED
      BY <2>1, WriteKept DEF Working
  <1>2. ASSUME \/ StopNoticed \/ PumpJoined \/ RemoteCloseAwaited
               \/ \E ok \in BOOLEAN : SendCloseFrame(ok)
        PROVE  WriteInv'
    <2>1. /\ UNCHANGED <<given, outbound, wresp, wire, wres, writes, call>>
          /\ ~Working /\ ~Working'
      BY <1>2 DEF StopNoticed, PumpJoined, RemoteCloseAwaited, SendCloseFrame, Flushed,
                  callVars, Working
    <2>2. Working' = Working
      BY <2>1 DEF Working
    <2> QED
      BY <2>1, <2>2, WriteKept
  <1>3. ASSUME PumpStep \/ Remote \/ UNCHANGED vars PROVE WriteInv'
    <2>1. UNCHANGED <<given, outbound, wresp, wire, wres, writes, call, run, cur>>
      BY <1>3 DEF PumpStep, TakeRead, ReadDone, PumpStops, Remote, vars, callVars, runVars
    <2> QED
      BY <2>1, WriteKept DEF Working
  <1> QED
    BY <1>1, <1>2, <1>3, WriteGives, WriteAnswered, WriteTaken, WriteHandled
    DEF Next, RunStep, Ended

LEMMA WritesInOrder == Spec => [](ShapeInv /\ WriteInv)
  BY ShapeInit, ShapeNext, WriteInit, WriteNext, PTL DEF Spec

\* When Stop has returned, every request that entered the outbound channel has
\* been attempted and answered: close() takes as many as there are when it
\* begins, and no caller can add one any more.
THEOREM StopLeavesNothing == Spec => []NothingLeftBehind
  <1>1. ShapeInv /\ WriteInv => NothingLeftBehind
    <2> SUFFICES ASSUME ShapeInv, WriteInv, run = "stopped", NEW k \in DOMAIN given
                 PROVE  wresp[given[k]] # "none"
      BY DEF NothingLeftBehind
    <2>1. outbound = <<>> /\ ~Working
      BY DEF ShapeInv, RunInv, Working
    <2>2. given \in Seq(Writes) /\ Handled = Len(given)
      BY <2>1, WriteCounts, Empty DEF ShapeInv, WriteInv, Handled
    <2> QED
      BY <2>2 DEF WriteInv, AnswerInv
  <1> QED
    BY <1>1, WritesInOrder, PTL
-----------------------------------------------------------------------------
(* The socket implements the link                                           *)

Closed == closeSent \/ run = "stopped"

LEMMA LinkInit == Init => Link!Init
  <1> SUFFICES ASSUME Init PROVE Link!Init
    OBVIOUS
  <1>1. wres = [w \in Writes |-> "nothing"] /\ given = <<>> /\ wire = <<>>
    BY DEF Init
  <1>2. closeSent = FALSE /\ run # "stopped"
    BY DEF Init
  <1> QED
    BY <1>1, <1>2 DEF Link!Init

\* Write up to its select hands a message over that was not handed over before.
LEMMA LinkGives ==
    ASSUME ShapeInv, WriteInv, NEW c \in Callers, Write(c) PROVE Link!Next
  <1> DEFINE w == <<c, writes[c] + 1>>
  <1>1. /\ given' = Append(given, w) /\ writes[c] < MaxWrites(c)
        /\ UNCHANGED <<wire, wres, closeSent, run>>
    BY DEF Write, runVars
  <1>2. writes[c] \in Nat /\ MaxWrites(c) \in Nat /\ writes[c] + 1 \in 1..MaxWrites(c)
    <2>1. writes[c] \in Nat /\ MaxWrites(c) \in Nat
      BY WriteIds DEF ShapeInv, TypeOK
    <2> QED
      BY <1>1, <2>1
  <1>3. w \in Writes
    BY <1>2, WriteIds
  <1>4. w \notin On(given)
    <2>1. ASSUME w \in On(given) PROVE FALSE
      <3>1. writes[c] + 1 <= writes[c]
        BY <2>1, <1>2 DEF WriteInv, GivenInv
      <3> QED
        BY <3>1, <1>2
    <2> QED
      BY <2>1
  <1> HIDE DEF w
  <1>5. Link!Give(w)
    BY <1>1, <1>4 DEF Link!Give, Link!On, On
  <1> QED
    BY <1>3, <1>5 DEF Link!Next

\* Write returns what it was answered, or an error.
LEMMA LinkTells ==
    ASSUME ShapeInv, WriteInv, NEW c \in Callers, WriteReturns(c) PROVE Link!Next
  <1> DEFINE w == <<c, writes[c]>>
  <1>1. call[c] = "write" /\ UNCHANGED <<given, wire, closeSent, run>>
    BY DEF WriteReturns, runVars
  <1>2. writes[c] \in 1..MaxWrites(c) /\ w \in Writes
    <2>1. writes[c] \in Nat /\ MaxWrites(c) \in Nat /\ writes[c] >= 1 /\ writes[c] <= MaxWrites(c)
      BY <1>1, WriteIds DEF ShapeInv, TypeOK, CallsInv
    <2>2. writes[c] \in 1..MaxWrites(c)
      BY <2>1
    <2> QED
      BY <2>2, WriteIds
  <1>3. PICK a \in Answer(c) \cup {"error"} : wres' = [wres EXCEPT ![w] = a]
    BY DEF WriteReturns
  <1>4. a \in {"ok", "error"} /\ (a = "ok" => w \in On(wire))
    BY <1>2, <1>3 DEF Answer, ShapeInv, TypeOK, WriteInv, AnswerInv
  <1>5. w \in On(given)
    BY <1>1 DEF WriteInv, GivenInv
  <1>6. wres[w] = "nothing"
    BY <1>1, <1>2 DEF WriteInv, ToldInv
  <1> HIDE DEF w
  <1>7. Link!Tell(w, a)
    BY <1>1, <1>3, <1>4, <1>5, <1>6 DEF Link!Tell, Link!On, On
  <1> QED
    BY <1>2, <1>4, <1>7 DEF Link!Next

\* handleWrite puts the request Run works on behind those it worked on before.
LEMMA LinkTransmits ==
    ASSUME ShapeInv, WriteInv, WriteDone(TRUE) PROVE Link!Next
  <1>1. /\ Working /\ run # "stopped" /\ run' # "stopped" /\ ~closeSent /\ ~closeSent'
        /\ wire' = Append(wire, cur) /\ UNCHANGED <<given, wres>>
    BY DEF WriteDone, callVars, Working, ShapeInv, RunInv
  <1>2. /\ cur \in Writes /\ given \in Seq(Writes) /\ Len(given) \in Nat
        /\ Taken \in 1..Len(given) /\ cur = given[Taken] /\ Handled = Taken - 1
        /\ DOMAIN given = 1..Len(given)
    <2>1. /\ Len(given) \in Nat /\ Taken \in Nat /\ Len(outbound) \in Nat
          /\ Taken + Len(outbound) = Len(given) /\ Taken >= 1 /\ cur = given[Taken]
          /\ given \in Seq(Writes)
      BY <1>1, WriteCounts DEF ShapeInv, WriteInv, OutboundInv
    <2>2. Taken \in 1..Len(given)
      BY <2>1
    <2> QED
      BY <1>1, <2>1, <2>2 DEF ShapeInv, RunInv, Handled
  <1>3. cur \in On(given)
    BY <1>2 DEF On
  <1>4. ASSUME NEW x \in On(wire) PROVE Link!Before(x, cur)
    <2>1. PICK k \in 1..Handled : x = given[k]
      BY DEF WriteInv, AnswerInv
    <2>2. k \in DOMAIN given /\ Taken \in DOMAIN given /\ k < Taken
      BY <1>2
    <2> QED
      BY <1>2, <2>1, <2>2 DEF Link!Before
  <1>5. Link!Transmit(cur)
    BY <1>1, <1>3, <1>4 DEF Link!Transmit, Link!On, On
  <1> QED
    BY <1>2, <1>5 DEF Link!Next

\* The close frame closes the link, or else the end of Run does.
LEMMA LinkCloses ==
    ASSUME ShapeInv, RemoteCloseAwaited \/ \E ok \in BOOLEAN : SendCloseFrame(ok)
    PROVE  Link!Next \/ UNCHANGED Link!vars
  <1>1. UNCHANGED <<given, wire, wres>>
    BY DEF RemoteCloseAwaited, SendCloseFrame, callVars
  <1>2. closeSent \in BOOLEAN /\ closeSent' \in BOOLEAN /\ run # "stopped"
    <2>1. run \in {"waitRemote", "flush"}
      BY DEF RemoteCloseAwaited, SendCloseFrame, Flushed
    <2>2. closeSent \in BOOLEAN
      BY DEF ShapeInv, TypeOK
    <2>3. closeSent' \in BOOLEAN
      BY <2>2 DEF RemoteCloseAwaited, SendCloseFrame
    <2> QED
      BY <2>1, <2>2, <2>3
  <1>3. closeSent => closeSent'
    BY DEF RemoteCloseAwaited, SendCloseFrame, Flushed, ShapeInv, RunInv
  <1>4. CASE Closed' = Closed
    BY <1>1, <1>4 DEF Link!vars, Closed
  <1>5. CASE Closed' # Closed
    <2>1. Closed = FALSE /\ Closed' = TRUE
      BY <1>2, <1>3, <1>5 DEF Closed
    <2>2. Link!Close
      BY <1>1, <2>1 DEF Link!Close, Closed
    <2> QED
      BY <2>2 DEF Link!Next
  <1> QED
    BY <1>4, <1>5

\* No other step is seen at the link.
LEMMA LinkUnmoved ==
    ASSUME UNCHANGED <<given, wire, wres, closeSent>>, run # "stopped", run' # "stopped"
    PROVE  UNCHANGED Link!vars
  BY DEF Link!vars

LEMMA LinkNext ==
    ASSUME ShapeInv, WriteInv, [Next]_vars PROVE [Link!Next]_(Link!vars)
  <1>1. ASSUME Read \/ ReadReturns \/ Stop \/ PumpStep \/ Remote \/ UNCHANGED vars
        PROVE  UNCHANGED Link!vars
    <2>1. UNCHANGED <<given, wire, wres, closeSent, run>>
      BY <1>1 DEF Read, ReadReturns, Stop, PumpStep, TakeRead, ReadDone, PumpStops, Remote,
                  vars, callVars, runVars
    <2> QED
      BY <2>1 DEF Link!vars
  <1>2. ASSUME TakeWrite \/ StopNoticed \/ PumpJoined \/ WriteDone(FALSE)
        PROVE  UNCHANGED Link!vars
    <2>1. UNCHANGED <<given, wire, wres, closeSent>> /\ run # "stopped" /\ run' # "stopped"
      BY <1>2 DEF TakeWrite, StopNoticed, PumpJoined, WriteDone, callVars
    <2> QED
      BY <2>1, LinkUnmoved
  <1>3. CASE \E c \in Callers : Write(c) \/ WriteReturns(c)
    BY <1>3, LinkGives, LinkTells
  <1>4. CASE RunStep
    <2>1. CASE \E ok \in BOOLEAN : WriteDone(ok)
      BY <2>1, <1>2, LinkTransmits
    <2> QED
      BY <2>1, <1>2, <1>4, LinkCloses DEF RunStep
  <1> QED
    BY <1>1, <1>3, <1>4 DEF Next, Ended

\* What Write, Run and close() do is what the two ends of a coordinated test
\* take a socket for: messages reach the wire once each and in the order in
\* which they were queued, "ok" means written, and nothing follows the close.
THEOREM SocketIsALink == Spec => ImplementsLink
  <1>1. Init => Link!Init
    BY LinkInit
  <1>2. ShapeInv /\ WriteInv /\ [Next]_vars => [Link!Next]_(Link!vars)
    BY LinkNext
  <1> QED
    BY <1>1, <1>2, WritesInOrder, PTL DEF Spec, ImplementsLink, Link!Spec
-----------------------------------------------------------------------------
(* Reading                                                                  *)

LEMMA ReadInit == Init => ReadInv
  <1> SUFFICES ASSUME Init PROVE ReadInv
    OBVIOUS
  <1>1. /\ Len(inbound) = 0 /\ Len(incoming) = 0 /\ Len(got) = 0
        /\ reads = 0 /\ arrived = 0 /\ pump = "loop" /\ call[Owner] = "idle"
        /\ RTaken = 0 /\ RHandled = 0
    <2>1. /\ inbound = <<>> /\ incoming = <<>> /\ got = <<>>
          /\ reads = 0 /\ arrived = 0 /\ pump = "loop" /\ call[Owner] = "idle"
      BY WriteIds DEF Init
    <2>2. RTaken = 0 /\ RHandled = 0
      <3>1. reads - Len(inbound) = 0 - 0
        BY <2>1, Empty
      <3>2. RTaken = 0
        BY <3>1 DEF RTaken
      <3> QED
        BY <2>1, <3>2 DEF RHandled
    <2> QED
      BY <2>1, <2>2, Empty
  <1>2. \A r \in Reads : rresp[r] = Unanswered
    BY DEF Init
  <1>3. Unanswered # ReadError /\ \A r \in Reads : r # Unanswered
    BY SocketAssumption DEF Unanswered, ReadError, Reads
  <1>4. InboundInv /\ IncomingInv /\ GotInv
    BY <1>1 DEF InboundInv, IncomingInv, GotInv
  <1>5. ReadAnswerInv
    BY <1>1, <1>2, <1>3 DEF ReadAnswerInv
  <1> QED
    BY <1>4, <1>5 DEF ReadInv

\* Steps that neither read nor receive nor begin or end a call of Read.
LEMMA ReadKept ==
    ASSUME UNCHANGED <<reads, inbound, pump, rcur, rresp, incoming, arrived, rbroken, got>>,
           call'[Owner] = "read" <=> call[Owner] = "read",
           ReadInv
    PROVE  ReadInv'
  <1>1. RTaken' = RTaken /\ RHandled' = RHandled
    BY DEF RTaken, RHandled
  <1> QED
    BY <1>1 DEF ReadInv, InboundInv, IncomingInv, ReadAnswerInv, GotInv

\* What the counts of the read requests are.
LEMMA ReadCounts ==
    ASSUME ShapeInv, InboundInv
    PROVE  /\ inbound \in Seq(Reads) /\ incoming \in Seq(1..MaxIncoming)
           /\ got \in Seq(ReadError..MaxIncoming) /\ rresp \in [Reads -> ReadError..MaxIncoming]
           /\ Len(inbound) \in Nat /\ Len(incoming) \in Nat /\ Len(got) \in Nat
           /\ reads \in Nat /\ arrived \in Nat /\ MaxReads \in Nat /\ reads <= MaxReads
           /\ RTaken \in Nat /\ RTaken + Len(inbound) = reads
           /\ RHandled \in Nat /\ RHandled <= RTaken
           /\ pump = "reading" => RHandled + 1 = RTaken /\ rcur = RTaken /\ rcur \in Reads
  <1>1. /\ inbound \in Seq(Reads) /\ incoming \in Seq(1..MaxIncoming)
        /\ got \in Seq(ReadError..MaxIncoming) /\ rresp \in [Reads -> ReadError..MaxIncoming]
        /\ reads \in 0..MaxReads /\ arrived \in 0..MaxIncoming
        /\ pump = "reading" => rcur \in Reads
    BY DEF ShapeInv, TypeOK
  <1>2. /\ Len(inbound) \in Nat /\ Len(incoming) \in Nat /\ Len(got) \in Nat
        /\ reads \in Nat /\ arrived \in Nat /\ MaxReads \in Nat /\ reads <= MaxReads
    BY <1>1, SocketAssumption
  <1>3. RTaken \in Nat /\ RTaken + Len(inbound) = reads
    BY <1>2 DEF InboundInv, RTaken
  <1>4. pump = "reading" => RTaken >= 1 /\ rcur = RTaken
    BY DEF InboundInv
  <1> QED
    BY <1>1, <1>2, <1>3, <1>4 DEF RHandled

\* What a read can be answered with is never mistaken for the number of a read.
LEMMA Answers3 ==
    /\ Unanswered # ReadError
    /\ \A r \in Reads : r # Unanswered /\ r # ReadError /\ r \in Nat /\ r >= 1 /\ r <= MaxReads
  BY SocketAssumption DEF Unanswered, ReadError, Reads

LEMMA ReadAsked == ASSUME ShapeInv, ReadInv, Read PROVE ReadInv'
  <1>t. InboundInv /\ IncomingInv /\ ReadAnswerInv /\ GotInv
    BY DEF ReadInv
  <1>a. /\ inbound' = Append(inbound, reads + 1) /\ reads' = reads + 1 /\ reads < MaxReads
        /\ call[Owner] = "idle" /\ call'[Owner] = "read"
        /\ UNCHANGED <<pump, rcur, rresp, incoming, arrived, rbroken, got>>
    BY WriteIds DEF Read, pumpVars, netVars, ShapeInv, TypeOK
  <1>b. /\ inbound \in Seq(Reads) /\ Len(inbound) \in Nat /\ reads \in Nat /\ MaxReads \in Nat
        /\ RTaken \in Nat /\ RTaken + Len(inbound) = reads
    BY <1>t, ReadCounts
  <1>c. reads + 1 \in Reads
    BY <1>a, <1>b DEF Reads
  <1>d. /\ Len(inbound') = Len(inbound) + 1 /\ inbound'[Len(inbound) + 1] = reads + 1
        /\ \A j \in 1..Len(inbound) : inbound'[j] = inbound[j]
    BY <1>a, <1>b, <1>c, Appended
  <1>e. RTaken' = RTaken /\ RHandled' = RHandled
    BY <1>a, <1>b, <1>d DEF RTaken, RHandled
  <1>1. InboundInv'
    <2>1. ASSUME NEW j \in 1..Len(inbound') PROVE inbound'[j] = RTaken + j
      <3>1. CASE j = Len(inbound) + 1
        BY <3>1, <1>b, <1>d
      <3>2. CASE j # Len(inbound) + 1
        <4>1. j \in 1..Len(inbound)
          BY <3>2, <1>b, <1>d
        <4> QED
          BY <4>1, <1>t, <1>d DEF InboundInv
      <3> QED
        BY <3>1, <3>2
    <2>2. Len(inbound') <= reads'
      BY <1>t, <1>a, <1>b, <1>d DEF InboundInv
    <2> QED
      BY <2>1, <2>2, <1>t, <1>a, <1>e DEF InboundInv
  <1>2. IncomingInv'
    BY <1>t, <1>a, <1>e DEF IncomingInv
  <1>3. ReadAnswerInv'
    BY <1>t, <1>a, <1>e DEF ReadAnswerInv
  <1>4. GotInv'
    BY <1>t, <1>a, <1>b DEF GotInv
  <1> QED
    BY <1>1, <1>2, <1>3, <1>4 DEF ReadInv

LEMMA ReadAnswered == ASSUME ShapeInv, ReadInv, ReadReturns PROVE ReadInv'
  <1>t. InboundInv /\ IncomingInv /\ ReadAnswerInv /\ GotInv
    BY DEF ReadInv
  <1>a. /\ call[Owner] = "read" /\ call'[Owner] = "idle"
        /\ UNCHANGED <<reads, inbound, pump, rcur, rresp, incoming, arrived, rbroken>>
    BY WriteIds DEF ReadReturns, pumpVars, netVars, ShapeInv, TypeOK
  <1>b. PICK a \in {rresp[reads], Unanswered} : got' = Append(got, a)
    BY DEF ReadReturns, ReadAnswer
  <1>c. /\ got \in Seq(ReadError..MaxIncoming) /\ Len(got) \in Nat /\ reads \in Nat
        /\ rresp \in [Reads -> ReadError..MaxIncoming] /\ reads <= MaxReads
        /\ Len(got) + 1 = reads
    BY <1>t, <1>a, ReadCounts DEF GotInv
  <1>d. reads \in Reads
    BY <1>c, SocketAssumption DEF Reads
  <1>e. a \in ReadError..MaxIncoming
    BY <1>c, <1>d, SocketAssumption DEF Unanswered, ReadError
  <1>f. /\ Len(got') = reads /\ got'[reads] = a
        /\ \A k \in 1..Len(got) : got'[k] = got[k]
    <2>1. /\ Len(got') = Len(got) + 1 /\ got'[Len(got) + 1] = a
          /\ \A k \in 1..Len(got) : got'[k] = got[k]
      BY <1>b, <1>c, <1>e, Appended
    <2> QED
      BY <2>1, <1>c
  <1>1. GotInv'
    <2>1. ASSUME NEW k \in 1..Len(got') PROVE got'[k] \in {Unanswered, rresp[k]}
      <3>1. CASE k = reads
        BY <3>1, <1>f
      <3>2. CASE k # reads
        <4>1. k \in 1..Len(got)
          BY <3>2, <1>c, <1>f
        <4> QED
          BY <4>1, <1>t, <1>f DEF GotInv
      <3> QED
        BY <3>1, <3>2
    <2> QED
      BY <2>1, <1>a, <1>f DEF GotInv
  <1>2. RTaken' = RTaken /\ RHandled' = RHandled
    BY <1>a DEF RTaken, RHandled
  <1>3. InboundInv' /\ IncomingInv' /\ ReadAnswerInv'
    BY <1>2, <1>t, <1>a DEF InboundInv, IncomingInv, ReadAnswerInv
  <1> QED
    BY <1>1, <1>3 DEF ReadInv

LEMMA ReadTaken == ASSUME ShapeInv, ReadInv, TakeRead PROVE ReadInv'
  <1>t. InboundInv /\ IncomingInv /\ ReadAnswerInv /\ GotInv
    BY DEF ReadInv
  <1>a. /\ inbound # <<>> /\ inbound' = Tail(inbound) /\ rcur' = Head(inbound)
        /\ pump = "loop" /\ pump' = "reading"
        /\ UNCHANGED <<call, reads, rresp, incoming, arrived, rbroken, got>>
    BY DEF TakeRead, callVars, netVars
  <1>b. /\ inbound \in Seq(Reads) /\ Len(inbound) \in Nat /\ reads \in Nat
        /\ RTaken \in Nat /\ RTaken + Len(inbound) = reads
    BY <1>t, ReadCounts
  <1>c. /\ Len(inbound) >= 1 /\ rcur' = inbound[1] /\ Len(inbound') = Len(inbound) - 1
        /\ \A j \in 1..Len(inbound') : inbound'[j] = inbound[j + 1]
    BY <1>a, <1>b, HeadTail
  <1>d. RTaken' = RTaken + 1 /\ RHandled' = RHandled
    BY <1>a, <1>b, <1>c DEF RTaken, RHandled
  <1>1. InboundInv'
    <2>1. rcur' = RTaken + 1
      BY <1>t, <1>b, <1>c DEF InboundInv
    <2>2. ASSUME NEW j \in 1..Len(inbound') PROVE inbound'[j] = RTaken + 1 + j
      <3>1. j + 1 \in 1..Len(inbound) /\ RTaken + 1 + j = RTaken + (j + 1)
        BY <1>b, <1>c
      <3> QED
        BY <3>1, <1>t, <1>c DEF InboundInv
    <2>3. Len(inbound') <= reads /\ RTaken + 1 >= 1
      BY <1>b, <1>c
    <2> QED
      BY <2>1, <2>2, <2>3, <1>a, <1>d DEF InboundInv
  <1>2. IncomingInv' /\ ReadAnswerInv' /\ GotInv'
    BY <1>t, <1>a, <1>d DEF IncomingInv, ReadAnswerInv, GotInv
  <1> QED
    BY <1>1, <1>2 DEF ReadInv

LEMMA ReadHandled == ASSUME ShapeInv, ReadInv, ReadDone PROVE ReadInv'
  <1>t. InboundInv /\ IncomingInv /\ ReadAnswerInv /\ GotInv
    BY DEF ReadInv
  <1>a. /\ pump = "reading" /\ pump' = "loop"
        /\ UNCHANGED <<call, reads, inbound, arrived, got>>
    BY DEF ReadDone, callVars
  <1>b. /\ inbound \in Seq(Reads) /\ Len(inbound) \in Nat /\ reads \in Nat
        /\ incoming \in Seq(1..MaxIncoming) /\ Len(incoming) \in Nat /\ arrived \in Nat
        /\ RTaken \in Nat /\ RHandled \in Nat /\ RTaken + Len(inbound) = reads
        /\ RHandled + 1 = RTaken /\ rcur = RTaken /\ rcur \in Reads
        /\ rresp \in [Reads -> ReadError..MaxIncoming]
    BY <1>t, <1>a, ReadCounts
  <1>c. RTaken' = RTaken /\ RHandled' = RTaken
    BY <1>a DEF RTaken, RHandled
  <1>d. /\ rresp[rcur] = Unanswered
        /\ \A r \in Reads : r > RTaken => rresp[r] = Unanswered
    BY <1>t, <1>b DEF ReadAnswerInv, Reads
  <1>1. InboundInv'
    BY <1>t, <1>a, <1>c DEF InboundInv
  <1>2. CASE /\ ~rbroken /\ incoming # <<>>
             /\ rresp' = [rresp EXCEPT ![rcur] = Head(incoming)]
             /\ incoming' = Tail(incoming) /\ UNCHANGED rbroken
    <2>1. /\ Len(incoming) >= 1 /\ Head(incoming) = incoming[1]
          /\ Len(incoming') = Len(incoming) - 1
          /\ \A j \in 1..Len(incoming') : incoming'[j] = incoming[j + 1]
      BY <1>2, <1>b, HeadTail
    <2>2. Head(incoming) = rcur /\ arrived - Len(incoming) = RHandled
      BY <1>t, <1>a, <1>2, <1>b, <2>1 DEF IncomingInv
    <2>3. IncomingInv'
      <3>1. ASSUME NEW j \in 1..Len(incoming')
            PROVE  incoming'[j] = (arrived - Len(incoming')) + j
        <4>1. j + 1 \in 1..Len(incoming)
          BY <1>b, <2>1
        <4>2. incoming[j + 1] = (arrived - Len(incoming)) + (j + 1)
          BY <4>1, <1>t DEF IncomingInv
        <4> QED
          BY <4>1, <4>2, <1>b, <2>1
      <3>2. Len(incoming') <= arrived /\ arrived - Len(incoming') = RTaken
        <4>1. Len(incoming) <= arrived
          BY <1>t DEF IncomingInv
        <4>2. Len(incoming) - 1 <= arrived /\ arrived - (Len(incoming) - 1) = RHandled + 1
          BY <4>1, <1>b, <2>2
        <4> QED
          BY <4>2, <1>b, <2>1
      <3> QED
        BY <3>1, <3>2, <1>a, <1>c DEF IncomingInv
    <2>4. \A r \in Reads : rresp'[r] = IF r = rcur THEN rcur ELSE rresp[r]
      BY <1>2, <1>b, <2>2
    <2>5. ReadAnswerInv'
      <3>1. \A r \in Reads : r > RTaken => rresp'[r] = Unanswered
        BY <2>4, <1>b, <1>d DEF Reads
      <3>2. \A r \in Reads : rresp'[r] \in {Unanswered, r, ReadError}
        BY <2>4, <1>t DEF ReadAnswerInv
      <3>3. \A r \in Reads : rresp'[r] # ReadError
        BY <2>4, <1>t, <1>2, Answers3 DEF ReadAnswerInv
      <3> QED
        BY <3>1, <3>2, <3>3, <1>c DEF ReadAnswerInv
    <2>6. GotInv'
      <3>1. ASSUME NEW k \in 1..Len(got) PROVE got[k] \in {Unanswered, rresp'[k]}
        <4>1. k \in Reads
          BY <1>t, ReadCounts DEF GotInv, Reads
        <4> QED
          BY <4>1, <2>4, <1>t, <1>d DEF GotInv
      <3> QED
        BY <3>1, <1>t, <1>a DEF GotInv
    <2> QED
      BY <1>1, <2>3, <2>5, <2>6 DEF ReadInv
  <1>3. CASE /\ rresp' = [rresp EXCEPT ![rcur] = ReadError] /\ rbroken'
             /\ UNCHANGED incoming
    <2>1. IncomingInv'
      BY <1>t, <1>a, <1>3 DEF IncomingInv
    <2>2. \A r \in Reads : rresp'[r] = IF r = rcur THEN ReadError ELSE rresp[r]
      BY <1>3, <1>b
    <2>3. ReadAnswerInv'
      <3>1. \A r \in Reads : r > RTaken => rresp'[r] = Unanswered
        BY <2>2, <1>b, <1>d DEF Reads
      <3>2. \A r \in Reads : rresp'[r] \in {Unanswered, r, ReadError}
        BY <2>2, <1>t DEF ReadAnswerInv
      <3>3. ASSUME NEW r \in Reads, NEW s \in Reads, r < s, rresp'[r] = ReadError
            PROVE  rresp'[s] # s
        <4>1. CASE r = rcur
          BY <4>1, <3>3, <1>b, <1>d, <2>2, Answers3
        <4>2. CASE r # rcur
          BY <4>2, <3>3, <2>2, <1>t, Answers3 DEF ReadAnswerInv
        <4> QED
          BY <4>1, <4>2
      <3> QED
        BY <3>1, <3>2, <3>3, <1>3, <1>c DEF ReadAnswerInv
    <2>4. GotInv'
      <3>1. ASSUME NEW k \in 1..Len(got) PROVE got[k] \in {Unanswered, rresp'[k]}
        <4>1. k \in Reads
          BY <1>t, ReadCounts DEF GotInv, Reads
        <4> QED
          BY <4>1, <2>2, <1>t, <1>d DEF GotInv
      <3> QED
        BY <3>1, <1>t, <1>a DEF GotInv
    <2> QED
      BY <1>1, <2>1, <2>3, <2>4 DEF ReadInv
  <1> QED
    BY <1>2, <1>3 DEF ReadDone

\* The remote end's message is the next one; close()'s read takes one away when
\* the pump no longer reads.
LEMMA ReadArrives ==
    ASSUME ShapeInv, ReadInv, Remote \/ RemoteCloseAwaited PROVE ReadInv'
  <1>t. InboundInv /\ IncomingInv /\ ReadAnswerInv /\ GotInv
    BY DEF ReadInv
  <1>a. UNCHANGED <<call, reads, inbound, pump, rcur, rresp, rbroken, got>>
    BY DEF Remote, RemoteCloseAwaited, callVars, pumpVars
  <1>b. RTaken' = RTaken /\ RHandled' = RHandled
    BY <1>a DEF RTaken, RHandled
  <1>c. incoming \in Seq(1..MaxIncoming) /\ Len(incoming) \in Nat /\ arrived \in Nat
        /\ arrived <= MaxIncoming /\ MaxIncoming \in Nat
    BY <1>t, ReadCounts, SocketAssumption DEF ShapeInv, TypeOK
  <1>1. IncomingInv'
    <2>1. CASE UNCHANGED <<incoming, arrived>>
      BY <2>1, <1>t, <1>a, <1>b DEF IncomingInv
    <2>2. CASE arrived < MaxIncoming /\ arrived' = arrived + 1
               /\ incoming' = Append(incoming, arrived + 1)
      <3>1. arrived + 1 \in 1..MaxIncoming
        BY <2>2, <1>c
      <3>2. /\ Len(incoming') = Len(incoming) + 1 /\ incoming'[Len(incoming) + 1] = arrived + 1
            /\ \A j \in 1..Len(incoming) : incoming'[j] = incoming[j]
        BY <2>2, <3>1, <1>c, Appended
      <3>3. ASSUME NEW j \in 1..Len(incoming')
            PROVE  incoming'[j] = (arrived' - Len(incoming')) + j
        <4>1. CASE j = Len(incoming) + 1
          BY <4>1, <2>2, <3>2, <1>c
        <4>2. CASE j # Len(incoming) + 1
          <5>1. j \in 1..Len(incoming)
            BY <4>2, <3>2, <1>c
          <5> QED
            BY <5>1, <2>2, <3>2, <1>t, <1>c DEF IncomingInv
        <4> QED
          BY <4>1, <4>2
      <3>4. Len(incoming') <= arrived' /\ arrived' - Len(incoming') = arrived - Len(incoming)
        BY <2>2, <3>2, <1>t, <1>c DEF IncomingInv
      <3> QED
        BY <3>3, <3>4, <1>t, <1>a, <1>b DEF IncomingInv
    <2>3. CASE pump = "stopped" /\ incoming # <<>> /\ incoming' = Tail(incoming)
               /\ UNCHANGED arrived
      <3>1. /\ Len(incoming) >= 1 /\ Len(incoming') = Len(incoming) - 1
            /\ \A j \in 1..Len(incoming') : incoming'[j] = incoming[j + 1]
        BY <2>3, <1>c, HeadTail
      <3>2. ASSUME NEW j \in 1..Len(incoming')
            PROVE  incoming'[j] = (arrived - Len(incoming')) + j
        <4>1. j + 1 \in 1..Len(incoming)
          BY <3>1, <1>c
        <4>2. incoming[j + 1] = (arrived - Len(incoming)) + (j + 1)
          BY <4>1, <1>t DEF IncomingInv
        <4> QED
          BY <4>1, <4>2, <3>1, <1>c
      <3>3. Len(incoming') <= arrived
        BY <3>1, <1>t, <1>c DEF IncomingInv
      <3> QED
        BY <3>2, <3>3, <2>3, <1>a DEF IncomingInv
    <2>4. RemoteCloseAwaited => pump = "stopped"
      BY DEF RemoteCloseAwaited, ShapeInv, RunInv, Closing
    <2> QED
      BY <2>1, <2>2, <2>3, <2>4 DEF Remote, RemoteCloseAwaited
  <1>2. InboundInv' /\ ReadAnswerInv' /\ GotInv'
    BY <1>t, <1>a, <1>b DEF InboundInv, ReadAnswerInv, GotInv
  <1> QED
    BY <1>1, <1>2 DEF ReadInv

LEMMA ReadEnds == ASSUME ReadInv, PumpStops PROVE ReadInv'
  <1>1. /\ pump = "loop" /\ pump' = "stopped"
        /\ UNCHANGED <<call, reads, inbound, rcur, rresp, incoming, arrived, rbroken, got>>
    BY DEF PumpStops, callVars, netVars
  <1>2. RTaken' = RTaken /\ RHandled' = RHandled
    BY <1>1 DEF RTaken, RHandled
  <1> QED
    BY <1>1, <1>2 DEF ReadInv, InboundInv, IncomingInv, ReadAnswerInv, GotInv

LEMMA ReadNext == ASSUME ShapeInv, ReadInv, [Next]_vars PROVE ReadInv'
  <1> DEFINE kept == <<reads, inbound, pump, rcur, rresp, incoming, arrived, rbroken, got>>
  <1>1. ASSUME Stop \/ \E c \in Callers : Write(c) \/ WriteReturns(c) PROVE ReadInv'
    <2>1. UNCHANGED kept
      BY <1>1 DEF Stop, Write, WriteReturns, pumpVars, netVars
    <2>2. call[Owner] = "read" => call'[Owner] = "read"
      BY <1>1, WriteIds DEF Stop, Write, WriteReturns, ShapeInv, TypeOK
    <2>3. call'[Owner] = "read" => call[Owner] = "read"
      BY <1>1, WriteIds DEF Stop, Write, WriteReturns, ShapeInv, TypeOK
    <2> QED
      BY <2>1, <2>2, <2>3, ReadKept
  <1>2. ASSUME \/ TakeWrite \/ StopNoticed \/ PumpJoined \/ UNCHANGED vars
               \/ \E ok \in BOOLEAN : WriteDone(ok) \/ SendCloseFrame(ok)
        PROVE  ReadInv'
    <2>1. UNCHANGED kept /\ UNCHANGED call
      BY <1>2 DEF TakeWrite, StopNoticed, PumpJoined, WriteDone, SendCloseFrame,
                  vars, callVars, pumpVars, netVars
    <2> QED
      BY <2>1, ReadKept
  <1> QED
    BY <1>1, <1>2, ReadAsked, ReadAnswered, ReadTaken, ReadHandled, ReadArrives, ReadEnds
    DEF Next, RunStep, PumpStep, Ended

LEMMA ReadsInOrder == Spec => [](ShapeInv /\ ReadInv)
  BY ShapeInit, ShapeNext, ReadInit, ReadNext, PTL DEF Spec

\* Two finite sets that cover an interval have together as many members.
LEMMA Covered ==
    ASSUME NEW k \in Nat, NEW A, NEW B, A \cup B = 1..k
    PROVE  k - Cardinality(A) <= Cardinality(B)
  <1>1. IsFiniteSet(1..k) /\ Cardinality(1..k) = k
    BY FS_Interval
  <1>2. IsFiniteSet(A) /\ IsFiniteSet(B) /\ IsFiniteSet(A \cap B)
    BY <1>1, FS_Subset
  <1>3. Cardinality(A \cup B) = Cardinality(A) + Cardinality(B) - Cardinality(A \cap B)
    BY <1>2, FS_Union
  <1>4. /\ Cardinality(A) \in Nat /\ Cardinality(B) \in Nat /\ Cardinality(A \cap B) \in Nat
    BY <1>2, FS_CardinalityType
  <1>5. Cardinality(A \cup B) = k
    BY <1>1
  <1> QED
    BY <1>3, <1>4, <1>5

\* Read returns the messages in the order they came, each once, and misses only
\* as many as there were calls whose timer ran out (Read, readPump, handleRead).
THEOREM ReadsAreAccounted == Spec => []ReadsAccounted
  <1>1. ASSUME ShapeInv, ReadInv PROVE ReadsAccounted
    <2> DEFINE results(S) == {k \in DOMAIN got : got[k] \in S}
               messages == results(1..MaxIncoming)
    <2>1. /\ Len(got) \in Nat /\ DOMAIN got = 1..Len(got) /\ 1..Len(got) \subseteq Reads
          /\ 1..Len(got) \subseteq Nat
      <3>1. got \in Seq(ReadError..MaxIncoming) /\ Len(got) \in Nat /\ reads \in Nat
            /\ MaxReads \in Nat /\ reads <= MaxReads
        BY <1>1, ReadCounts DEF ReadInv
      <3>2. Len(got) <= MaxReads
        BY <1>1, <3>1 DEF ReadInv, GotInv
      <3> QED
        BY <3>1, <3>2 DEF Reads
    <2>2. \A k \in DOMAIN got : /\ got[k] \in {Unanswered, rresp[k]}
                                /\ rresp[k] \in {Unanswered, k, ReadError}
      BY <1>1, <2>1 DEF ReadInv, GotInv, ReadAnswerInv
    <2>3. Unanswered \notin 1..MaxIncoming /\ ReadError \notin 1..MaxIncoming
      BY SocketAssumption DEF Unanswered, ReadError
    <2>4. \A k \in messages : k \in DOMAIN got /\ got[k] = k /\ rresp[k] = k
      BY <2>2, <2>3
    <2>5. \A j, k \in messages : j < k => got[j] < got[k]
      BY <2>4
    <2>6. ASSUME NEW k \in messages
          PROVE  got[k] - Cardinality({j \in messages : j <= k})
                    <= Cardinality({j \in results({Unanswered}) : j < k})
      <3> DEFINE A == {j \in messages : j <= k}
                 B == {j \in results({Unanswered}) : j < k}
      <3>1. k \in Nat /\ k \in 1..Len(got) /\ k \in Reads /\ rresp[k] = k
        BY <2>1, <2>4
      <3>2. A \subseteq 1..k /\ B \subseteq 1..k
        BY <2>1, <3>1
      <3>3. ASSUME NEW j \in 1..k PROVE j \in A \/ j \in B
        <4>1. j \in DOMAIN got /\ j \in Reads /\ j <= k
          BY <2>1, <3>1
        <4>2. CASE j = k
          BY <4>1, <4>2
        <4>3. CASE j # k
          <5>1. j < k
            BY <4>1, <4>3, <3>1
          <5>2. rresp[j] # ReadError
            BY <1>1, <3>1, <4>1, <5>1 DEF ReadInv, ReadAnswerInv
          <5>3. got[j] = Unanswered \/ got[j] = j
            BY <2>2, <4>1, <5>2
          <5>4. got[j] = j => j \in messages
            <6>1. k \in 1..MaxIncoming
              BY <2>4
            <6>2. j \in 1..MaxIncoming
              BY <6>1, <5>1, <3>1, <4>1, SocketAssumption
            <6> QED
              BY <6>2, <4>1
          <5> QED
            BY <4>1, <5>1, <5>3, <5>4
        <4> QED
          BY <4>2, <4>3
      <3>4. A \cup B = 1..k
        BY <3>2, <3>3
      <3> HIDE DEF A, B
      <3>5. k - Cardinality(A) <= Cardinality(B)
        BY <3>1, <3>4, Covered
      <3> QED
        BY <3>5, <2>4 DEF A, B
    <2> QED
      BY <2>5, <2>6 DEF ReadsAccounted
  <1> QED
    BY <1>1, ReadsInOrder, PTL

=============================================================================
