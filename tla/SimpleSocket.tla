---------------------------- MODULE SimpleSocket ----------------------------
(***************************************************************************)
(* A simpleSocket (pkg/loadtest/websockets.go): the goroutines of Run and  *)
(* readPump, the goroutines that call Read, Write and Stop, and the        *)
(* WebSocket connection under them. The owner of a socket (Worker.Run or   *)
(* remoteWorker.eventLoop) reads, writes and in the end stops it; the      *)
(* worker's progress reporter writes next to it and has returned before    *)
(* the owner calls Stop. A message is named by the call that writes it. A  *)
(* timer that has been started may fire at any moment.                     *)
(***************************************************************************)
EXTENDS Integers, Sequences, FiniteSets

CONSTANTS
    Owner, Reporter,    \* the goroutines that use the socket
    Cap,                \* capacity of the outbound and inbound channels
    OwnerWrites,        \* bound: calls of Write of the owner
    ReporterWrites,     \* bound: calls of Write of the reporter
    MaxReads,           \* bound: calls of Read
    MaxIncoming         \* bound: messages the remote end sends

ASSUME SocketAssumption ==
    /\ Owner # Reporter /\ Cap \in Nat \ {0}
    /\ OwnerWrites \in Nat /\ ReporterWrites \in Nat
    /\ MaxReads \in Nat /\ MaxIncoming \in Nat

Callers == {Owner, Reporter}
MaxWrites(c) == IF c = Owner THEN OwnerWrites ELSE ReporterWrites
Writes == UNION {{c} \X (1..MaxWrites(c)) : c \in Callers}
Reads == 1..MaxReads
NoWrite == <<>>

\* Incoming messages are numbered from 1; what a read request is answered with.
Unanswered == 0
ReadError == -1

\* The options the two users of the socket pass to newSimpleSocket.
Options ==
    {[flushOnStop |-> TRUE, sendCloseMessage |-> TRUE, waitForRemoteClose |-> TRUE],
     [flushOnStop |-> TRUE, sendCloseMessage |-> FALSE, waitForRemoteClose |-> FALSE]}

VARIABLES
    opt,        \* the options of this socket
    call,       \* each caller: "idle", "write", "read" or "stop" (channel closed)
    writes,     \* how many calls of Write each caller has made
    reads,      \* how many calls of Read the owner has made
    run,        \* Run: "loop", "writing", then "joinPump" (stopReadPump closed),
                \* "flush", "flushing", "waitRemote", "stopped" (channel closed)
    cur,        \* the request handleWrite works on
    remaining,  \* requests the flush has still to take
    outbound,   \* write requests
    wresp,      \* the resp channel of each write request
    wbroken,    \* writes to the connection fail from now on
    pump,       \* readPump: "loop", "reading" or "stopped" (channel closed)
    rcur,       \* the request handleRead works on
    inbound,    \* read requests
    rresp,      \* the resp channel of each read request
    incoming,   \* messages received from the remote end and not yet read
    arrived,    \* how many messages the remote end has sent
    remote,     \* the remote end: "open" or "closed"
    rbroken,    \* reads from the connection fail from now on
    given,      \* history: requests in the order they entered outbound
    wire,       \* history: messages written, in order
    closeSent,  \* history: the close frame was written
    wres,       \* history: what each Write returned
    got         \* history: what the calls of Read returned, in order

callVars == <<call, writes, reads, wres, got, given>>
runVars == <<run, cur, remaining, wresp, wire, closeSent>>
pumpVars == <<pump, rcur, rresp>>
netVars == <<incoming, arrived, remote, rbroken>>
vars == <<opt, callVars, runVars, outbound, wbroken, pumpVars, inbound, netVars>>

\* newSimpleSocket, the start of Run and of readPump.
Init ==
    /\ opt \in Options
    /\ call = [c \in Callers |-> "idle"]
    /\ writes = [c \in Callers |-> 0] /\ reads = 0
    /\ run = "loop" /\ cur = NoWrite /\ remaining = 0
    /\ pump = "loop" /\ rcur = 0
    /\ outbound = <<>> /\ inbound = <<>>
    /\ wresp = [w \in Writes |-> "none"] /\ rresp = [r \in Reads |-> Unanswered]
    /\ incoming = <<>> /\ arrived = 0 /\ remote = "open"
    /\ rbroken = FALSE /\ wbroken = FALSE
    /\ given = <<>> /\ wire = <<>> /\ closeSent = FALSE
    /\ wres = [w \in Writes |-> "nothing"] /\ got = <<>>

-----------------------------------------------------------------------------
(* Write, Read and Stop as their callers see them.                          *)

\* Mutation: the channel is made one slot larger.
RoomOffByOne(chan) == Len(chan) <= Cap

Room(chan) == Len(chan) < Cap

\* Write up to its select: a full channel blocks the caller.
Write(c) ==
    /\ call[c] = "idle" /\ writes[c] < MaxWrites(c) /\ Room(outbound)
    /\ outbound' = Append(outbound, <<c, writes[c] + 1>>)
    /\ given' = Append(given, <<c, writes[c] + 1>>)
    /\ call' = [call EXCEPT ![c] = "write"]
    /\ writes' = [writes EXCEPT ![c] = @ + 1]
    /\ UNCHANGED <<opt, reads, wres, got, runVars, wbroken, pumpVars, inbound, netVars>>

\* Mutation: all requests of a caller share one resp channel, and the answer
\* to a call that has timed out is taken by the next one.
AnswerToAny(c) == {wresp[w] : w \in {v \in Writes : v[1] = c}} \ {"none"}

\* What there is in the resp channel of the call of Write a goroutine is in.
Answer(c) == {wresp[<<c, writes[c]>>]} \ {"none"}

\* The answer, or the timer: then the request stays where it is.
WriteReturns(c) ==
    /\ call[c] = "write"
    /\ \E answer \in Answer(c) \cup {"error"} :
          wres' = [wres EXCEPT ![<<c, writes[c]>>] = answer]
    /\ call' = [call EXCEPT ![c] = "idle"]
    /\ UNCHANGED <<opt, writes, reads, got, given, runVars, outbound, wbroken, pumpVars,
                   inbound, netVars>>

Read ==
    /\ call[Owner] = "idle" /\ reads < MaxReads /\ Room(inbound)
    /\ reads' = reads + 1
    /\ inbound' = Append(inbound, reads + 1)
    /\ call' = [call EXCEPT ![Owner] = "read"]
    /\ UNCHANGED <<opt, writes, wres, got, given, runVars, outbound, wbroken, pumpVars,
                   netVars>>

\* Mutation: the calls of Read share one resp channel.
ReadAnswerToAny == {rresp[r] : r \in 1..reads} \ {Unanswered}

ReadAnswer == {rresp[reads]} \ {Unanswered}

\* The answer, or the timer: what the pump reads for this request is lost.
ReadReturns ==
    /\ call[Owner] = "read"
    /\ \E answer \in ReadAnswer \cup {Unanswered} : got' = Append(got, answer)
    /\ call' = [call EXCEPT ![Owner] = "idle"]
    /\ UNCHANGED <<opt, writes, reads, wres, given, runVars, outbound, wbroken, pumpVars,
                   inbound, netVars>>

Stop ==
    /\ \A c \in Callers : call[c] = "idle"
    /\ call' = [c \in Callers |-> "stop"]
    /\ UNCHANGED <<opt, writes, reads, wres, got, given, runVars, outbound, wbroken,
                   pumpVars, inbound, netVars>>

-----------------------------------------------------------------------------
(* Run                                                                      *)

\* A request is taken from outbound: by the loop, or by close()'s flush, for
\* as many as there were when it began.
TakeWrite ==
    /\ outbound # <<>>
    /\ \/ run = "loop" /\ run' = "writing" /\ UNCHANGED remaining
       \/ run = "flush" /\ remaining > 0 /\ run' = "flushing"
          /\ remaining' = remaining - 1
    /\ cur' = Head(outbound)
    /\ outbound' = Tail(outbound)
    /\ UNCHANGED <<opt, callVars, wresp, wire, closeSent, wbroken, pumpVars, inbound,
                   netVars>>

\* handleWrite's WriteMessage and the answer. A failed write breaks the
\* connection for writing and leaves no complete message on it.
WriteDone(ok) ==
    /\ run \in {"writing", "flushing"}
    /\ IF ok THEN ~wbroken /\ wire' = Append(wire, cur) /\ UNCHANGED wbroken
             ELSE wbroken' = TRUE /\ UNCHANGED wire
    /\ wresp' = [wresp EXCEPT ![cur] = IF ok THEN "ok" ELSE "error"]
    /\ run' = IF run = "writing" THEN "loop" ELSE "flush"
    /\ cur' = NoWrite
    /\ UNCHANGED <<opt, callVars, remaining, closeSent, outbound, pumpVars, inbound,
                   netVars>>

\* `case <-s.stop` and close(s.stopReadPump).
StopNoticed ==
    /\ run = "loop" /\ call[Owner] = "stop"
    /\ run' = "joinPump"
    /\ UNCHANGED <<opt, callVars, cur, remaining, wresp, wire, closeSent, outbound,
                   wbroken, pumpVars, inbound, netVars>>

\* Mutation: the deferred calls run in the opposite order.
PumpForgotten == TRUE

PumpEnded == pump = "stopped"

\* `<-s.readPumpStopped`, then close() begins with the length of the channel.
PumpJoined ==
    /\ run = "joinPump" /\ PumpEnded
    /\ run' = "flush"
    /\ remaining' = IF opt.flushOnStop THEN Len(outbound) ELSE 0
    /\ UNCHANGED <<opt, callVars, cur, wresp, wire, closeSent, outbound, wbroken,
                   pumpVars, inbound, netVars>>

\* Mutation: the loop ends one request too early.
FlushedOffByOne == run = "flush" /\ remaining <= 1

Flushed == run = "flush" /\ remaining = 0

\* The close frame is written under whatever write deadline the last write
\* left behind: once that has passed, it fails on a healthy connection too.
SendCloseFrame(ok) ==
    /\ Flushed
    /\ ok => opt.sendCloseMessage /\ ~wbroken
    /\ closeSent' = ok
    /\ wbroken' = (wbroken \/ opt.sendCloseMessage)
    /\ run' = IF opt.waitForRemoteClose THEN "waitRemote" ELSE "stopped"
    /\ UNCHANGED <<opt, callVars, cur, remaining, wresp, wire, outbound, pumpVars,
                   inbound, netVars>>

\* One ReadMessage, which ends with a message, with the remote end's close or
\* with remoteCloseWaitTimeout; its outcome is discarded.
RemoteCloseAwaited ==
    /\ run = "waitRemote"
    /\ run' = "stopped"
    /\ \/ ~rbroken /\ incoming # <<>> /\ incoming' = Tail(incoming)
       \/ UNCHANGED incoming
    /\ UNCHANGED <<opt, callVars, cur, remaining, wresp, wire, closeSent, outbound,
                   wbroken, pumpVars, inbound, arrived, remote, rbroken>>

RunStep ==
    \/ TakeWrite \/ StopNoticed \/ PumpJoined \/ RemoteCloseAwaited
    \/ \E ok \in BOOLEAN : WriteDone(ok) \/ SendCloseFrame(ok)

-----------------------------------------------------------------------------
(* readPump                                                                 *)

TakeRead ==
    /\ pump = "loop" /\ inbound # <<>>
    /\ pump' = "reading"
    /\ rcur' = Head(inbound)
    /\ inbound' = Tail(inbound)
    /\ UNCHANGED <<opt, callVars, runVars, outbound, wbroken, rresp, netVars>>

\* handleRead: a message, or the deadline or the remote end's close. Every
\* read error is permanent, and a close frame is answered with another, after
\* which nothing can be written.
ReadDone ==
    /\ pump = "reading"
    /\ pump' = "loop" /\ rcur' = 0
    /\ \/ /\ ~rbroken /\ incoming # <<>>
          /\ rresp' = [rresp EXCEPT ![rcur] = Head(incoming)]
          /\ incoming' = Tail(incoming)
          /\ UNCHANGED <<rbroken, wbroken>>
       \/ /\ rresp' = [rresp EXCEPT ![rcur] = ReadError]
          /\ rbroken' = TRUE
          /\ wbroken' \in {wbroken, wbroken \/ remote = "closed"}
          /\ UNCHANGED incoming
    /\ UNCHANGED <<opt, callVars, runVars, outbound, inbound, arrived, remote>>

\* Mutation: a break leaves the select statement instead of the loop.
PumpBreaks == pump = "loop" /\ run = "joinPump" /\ UNCHANGED vars

PumpStops ==
    /\ pump = "loop" /\ run = "joinPump"
    /\ pump' = "stopped"
    /\ UNCHANGED <<opt, callVars, runVars, outbound, wbroken, rcur, rresp, inbound,
                   netVars>>

PumpStep == TakeRead \/ ReadDone \/ PumpStops

-----------------------------------------------------------------------------
\* The remote end sends a message, or closes.
Remote ==
    /\ remote = "open"
    /\ \/ /\ arrived < MaxIncoming
          /\ arrived' = arrived + 1
          /\ incoming' = Append(incoming, arrived + 1)
          /\ UNCHANGED remote
       \/ remote' = "closed" /\ UNCHANGED <<arrived, incoming>>
    /\ UNCHANGED <<opt, callVars, runVars, outbound, wbroken, pumpVars, inbound, rbroken>>

\* Run has returned, and with it Stop.
Ended == run = "stopped" /\ UNCHANGED vars

Next ==
    \/ \E c \in Callers : Write(c) \/ WriteReturns(c)
    \/ Read \/ ReadReturns \/ Stop \/ RunStep \/ PumpStep \/ Remote \/ Ended

\* A goroutine that can run does run, and a select that is passed again and
\* again does not ignore a closed channel for ever. Nothing is assumed of the
\* remote end or of the callers' wish to call.
Fairness ==
    /\ WF_vars(RunStep) /\ SF_vars(StopNoticed)
    /\ WF_vars(PumpStep) /\ SF_vars(PumpStops)
    /\ \A c \in Callers : WF_vars(WriteReturns(c))
    /\ WF_vars(ReadReturns)

Spec == Init /\ [][Next]_vars
FairSpec == Spec /\ Fairness

-----------------------------------------------------------------------------
(* Properties *)

\* Every variable of the socket ranges over the values the code can give it,
\* and no request channel holds more than its capacity.
TypeOK ==
    /\ opt \in Options
    /\ call \in [Callers -> {"idle", "write", "read", "stop"}]
    /\ writes \in [Callers -> Nat] /\ reads \in 0..MaxReads
    /\ run \in {"loop", "writing", "joinPump", "flush", "flushing", "waitRemote", "stopped"}
    /\ cur \in Writes \cup {NoWrite} /\ remaining \in 0..Cap
    /\ outbound \in Seq(Writes) /\ Len(outbound) <= Cap
    /\ wresp \in [Writes -> {"none", "ok", "error"}] /\ wbroken \in BOOLEAN
    /\ pump \in {"loop", "reading", "stopped"} /\ rcur \in Reads \cup {0}
    /\ inbound \in Seq(Reads) /\ Len(inbound) <= Cap
    /\ rresp \in [Reads -> ReadError..MaxIncoming]
    /\ incoming \in Seq(1..MaxIncoming) /\ arrived \in 0..MaxIncoming
    /\ remote \in {"open", "closed"} /\ rbroken \in BOOLEAN
    /\ given \in Seq(Writes) /\ wire \in Seq(Writes) /\ closeSent \in BOOLEAN
    /\ wres \in [Writes -> {"nothing", "ok", "error"}]
    /\ got \in Seq(ReadError..MaxIncoming)

\* The connection allows one reader at a time: the read with which close()
\* waits for the remote end never meets one of readPump's.
OneReader == ~(run = "waitRemote" /\ pump = "reading")

\* Read returns the messages in the order they came and none twice, and it
\* misses none but those that were read for a call whose timer had run out.
ReadsAccounted ==
    LET results(S) == {k \in DOMAIN got : got[k] \in S}
        messages == results(1..MaxIncoming)
    IN /\ \A j, k \in messages : j < k => got[j] < got[k]
       /\ \A k \in messages :
             got[k] - Cardinality({j \in messages : j <= k})
                <= Cardinality({j \in results({Unanswered}) : j < k})

\* Every request that entered the outbound channel was attempted and answered
\* before Stop returns, also the ones whose Write had timed out long before.
NothingLeftBehind ==
    run = "stopped" => \A k \in DOMAIN given : wresp[given[k]] # "none"

\* The socket is the link its users take it for (WriteUp and WriteDown of
\* Protocol): what Write reports as written is on the wire, in the order the
\* calls were queued and once; what it reports as failed may be there all the
\* same; and nothing is written after the close frame or after Stop.
Link == INSTANCE MessageLink WITH
    Messages <- Writes, told <- wres, closed <- closeSent \/ run = "stopped"
ImplementsLink == Link!Spec

\* Stop ends: no pending read, unanswered request or silent remote end keeps
\* Run from closing the stopped channel.
StopReturns == call[Owner] = "stop" ~> run = "stopped"

=============================================================================
