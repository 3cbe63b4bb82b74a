----------------------------- MODULE TailnetBridge -----------------------------
(***************************************************************************)
(* A connection the tailnet node bridges to a backend: HTTPS to the local  *)
(* Caddy (module/tailnet.go proxyTailnetHTTPS) or an SSH channel to a      *)
(* devcontainer (module/ssh.go handleDirectTCPIPChannel).  Both dial, run  *)
(* two copy loops that end separately, and close both connections when     *)
(* both loops have ended.                                                  *)
(*                                                                         *)
(* They differ in what a loop does to its destination at the end.  One     *)
(* that can be half-closed gets CloseWrite; on the others all that is left *)
(* is SetDeadline(now), which makes the read of the opposite loop fail.    *)
(* HTTPS half-closes wherever the connection can (closeWrite); SSH         *)
(* half-closes the channel and puts the deadline on the backend.           *)
(*                                                                         *)
(* TCP keeps bytes in order and no reader tells them apart: they are       *)
(* counted.  What a peer has not read yet waits in its window, the socket  *)
(* buffers or the window of the SSH channel, and a write blocks while the  *)
(* window is full.  No write has a deadline.                               *)
(***************************************************************************)
EXTENDS Integers

CONSTANTS
  MaxBytes,   \* bound on the bytes each peer sends
  Window      \* bytes written to a peer that it need not have read

Peers == {"client", "backend"}
Other == [p \in Peers |-> IF p = "client" THEN "backend" ELSE "client"]

ASSUME BytesAssumption == MaxBytes \in Nat /\ Window \in Nat \ {0}

VARIABLES
  halfCloses,  \* peers whose connection is ended by CloseWrite
  sent,        \* bytes each peer has sent
  ended,       \* peers that have closed their writing side
  gone,        \* peers that reset the connection, or did not accept it
  got,         \* bytes of each peer written on to the other
  taken,       \* bytes of each peer that the other has read
  told,        \* peers the end of whose stream the other can see
  phase,       \* of the handler: dialing, copying, refused or closed
  loop,        \* the loop that reads from each peer
  copied,      \* bytes of each peer its loop has read
  expired      \* peers with a deadline on their connection that has passed

peerVars == <<halfCloses, sent, ended, gone, taken>>
loopVars == <<phase, loop, copied, expired>>
bridgeVars == <<halfCloses, sent, ended, gone, got, taken, told, phase, loop, copied, expired>>

BridgeTypeOK ==
  /\ halfCloses \subseteq Peers
  /\ sent \in [Peers -> 0 .. MaxBytes]
  /\ copied \in [Peers -> 0 .. MaxBytes]
  /\ got \in [Peers -> 0 .. MaxBytes]
  /\ taken \in [Peers -> 0 .. MaxBytes]
  /\ ended \subseteq Peers /\ gone \subseteq Peers
  /\ told \subseteq Peers /\ expired \subseteq Peers
  /\ phase \in {"dialing", "copying", "refused", "closed"}
  /\ loop \in [Peers -> {"read", "write", "finish", "done"}]

(* HTTPS over a connection with and without CloseWrite, and SSH.            *)
BridgeInit ==
  /\ halfCloses \in {Peers, {"backend"}, {"client"}}
  /\ sent = [p \in Peers |-> 0]
  /\ copied = [p \in Peers |-> 0]
  /\ got = [p \in Peers |-> 0]
  /\ taken = [p \in Peers |-> 0]
  /\ ended = {} /\ gone = {} /\ told = {} /\ expired = {}
  /\ phase = "dialing"
  /\ loop = [p \in Peers |-> "read"]

Connected(p) ==
  \/ phase = "copying"
  \/ phase = "dialing" /\ p = "client"
-------------------------------------------------------------------------------
(* The peers: external. *)
Send(p) ==
  /\ Connected(p)
  /\ p \notin ended \cup gone
  /\ sent[p] < MaxBytes
  /\ sent' = [sent EXCEPT ![p] = @ + 1]
  /\ UNCHANGED <<halfCloses, ended, gone, got, taken, told, loopVars>>

End(p) ==
  /\ Connected(p)
  /\ p \notin ended \cup gone
  /\ ended' = ended \cup {p}
  /\ UNCHANGED <<halfCloses, sent, gone, got, taken, told, loopVars>>

Leave(p) ==
  /\ Connected(p)
  /\ p \notin gone
  /\ gone' = gone \cup {p}
  /\ UNCHANGED <<halfCloses, sent, ended, got, taken, told, loopVars>>

(* The other peer reads a byte of p's stream.                               *)
Take(p) ==
  /\ Connected(Other[p])
  /\ Other[p] \notin gone
  /\ taken[p] < got[p]
  /\ taken' = [taken EXCEPT ![p] = @ + 1]
  /\ UNCHANGED <<halfCloses, sent, ended, gone, got, told, loopVars>>

PeerNext == \E p \in Peers : Send(p) \/ End(p) \/ Leave(p) \/ Take(p)
-------------------------------------------------------------------------------
Dial ==
  /\ phase = "dialing"
  /\ phase' = "copying"
  /\ UNCHANGED <<peerVars, got, told, loop, copied, expired>>

(* Refused, or no answer within five seconds. *)
DialFails ==
  /\ phase = "dialing"
  /\ phase' = "refused"
  /\ gone' = gone \cup {"backend"}
  /\ UNCHANGED <<halfCloses, sent, ended, got, taken, told, loop, copied, expired>>

AtLoop(p, here, next) ==
  /\ phase = "copying"
  /\ loop[p] = here
  /\ loop' = [loop EXCEPT ![p] = next]
  /\ UNCHANGED <<peerVars, phase>>

(* Mutant: a read counts one byte too many. *)
OneTooMany(p) == (copied[p] + 1) .. (sent[p] + 1)

Arrived(p) == (copied[p] + 1) .. sent[p]

(* io.Copy: some of what has arrived is read ... *)
Read(p) ==
  /\ AtLoop(p, "read", "write")
  /\ p \notin expired
  /\ \E n \in Arrived(p) : copied' = [copied EXCEPT ![p] = n]
  /\ UNCHANGED <<got, told, expired>>

(* ... and all of it is written, as far as the window has room at a time.   *)
(* A write to a peer that is gone may still seem to succeed.                *)
Room(p) == taken[p] + Window

(* Mutant: the loop reads on after a write that was cut short. *)
WriteOnce(p) ==
  /\ AtLoop(p, "write", "read")
  /\ \E n \in (got[p] + 1) .. copied[p] :
       /\ n <= Room(p)
       /\ got' = [got EXCEPT ![p] = n]
  /\ UNCHANGED <<told, copied, expired>>

Write(p) ==
  \E n \in (got[p] + 1) .. copied[p] :
    /\ n <= Room(p)
    /\ AtLoop(p, "write", IF n = copied[p] THEN "read" ELSE "write")
    /\ got' = [got EXCEPT ![p] = n]
    /\ UNCHANGED <<told, copied, expired>>

WriteFails(p) ==
  /\ AtLoop(p, "write", "finish")
  /\ Other[p] \in gone
  /\ \E n \in got[p] .. copied[p] : got' = [got EXCEPT ![p] = n]
  /\ UNCHANGED <<told, copied, expired>>

(* Mutant: the end is noticed before the last bytes. *)
EndsEarly(p) == p \in ended

AtEOF(p) == p \in ended /\ copied[p] = sent[p]

(* io.Copy returns: end of stream, a reset or a deadline that has passed.   *)
ReadEnds(p) ==
  /\ AtLoop(p, "read", "finish")
  /\ AtEOF(p) \/ p \in gone \/ p \in expired
  /\ UNCHANGED <<got, told, copied, expired>>

(* Mutants: the source is closed instead of the destination; a destination  *)
(* without CloseWrite is left alone.                                        *)
CloseWriteOfSource(p) ==
  /\ told' = told \cup {q \in {Other[p]} : p \in halfCloses}
  /\ expired' = expired \cup ({p} \ halfCloses)

CloseWriteIfSupported(p) ==
  /\ told' = told \cup {q \in {p} : Other[p] \in halfCloses}
  /\ UNCHANGED expired

(* closeWrite(dst), which does not ask how the copy ended.                  *)
closeWrite(p) ==
  /\ told' = told \cup {q \in {p} : Other[p] \in halfCloses}
  /\ expired' = expired \cup ({Other[p]} \ halfCloses)

Finish(p) ==
  /\ AtLoop(p, "finish", "done")
  /\ closeWrite(p)
  /\ UNCHANGED <<got, copied>>

(* Mutant: the first loop that ends closes both connections. *)
AnyLoopDone == \E p \in Peers : loop[p] = "done"

LoopsDone == \A p \in Peers : loop[p] = "done"

(* wg.Wait, or two receives of copyDone, and the deferred closes.           *)
Close ==
  /\ phase = "refused" \/ (phase = "copying" /\ LoopsDone)
  /\ phase' = "closed"
  /\ told' = Peers
  /\ UNCHANGED <<peerVars, got, loop, copied, expired>>
-------------------------------------------------------------------------------
Loop(p) == Read(p) \/ Write(p) \/ WriteFails(p) \/ ReadEnds(p) \/ Finish(p)

BridgeNext ==
  \/ PeerNext
  \/ Dial \/ DialFails \/ Close
  \/ \E p \in Peers : Loop(p)

(* The dial has a timeout and Go schedules both loops; nothing is assumed   *)
(* of the peers, not even that they read.                                   *)
BridgeSpec ==
  /\ BridgeInit
  /\ [][BridgeNext]_bridgeVars
  /\ WF_bridgeVars(Dial \/ DialFails)
  /\ WF_bridgeVars(Close)
  /\ \A p \in Peers : WF_bridgeVars(Loop(p))
-------------------------------------------------------------------------------
Streams == INSTANCE ByteStreams

(* A peer that sees the other's stream end has been given all of it, unless *)
(* a peer broke off, or the stream comes from a connection that could not   *)
(* be half-closed when the seeing peer ended its own (tailnet.go:211,       *)
(* ssh.go:128).                                                             *)
EndIsReal ==
  \A p \in told : Streams!Complete(p) \/ Streams!MayBeCut(p)

(* The bridge is two byte streams, however the loops interleave: nothing is *)
(* passed on that was not sent, nothing after the end was signalled, and no *)
(* end before its time.                                                     *)
BridgesStreams == Streams!Spec

(* The other peer of p's stream has not stopped reading with its window     *)
(* full.  Where it has, the loop stays in its write for ever: neither       *)
(* copyThenCloseWrite nor handleDirectTCPIPChannel puts a deadline on it.   *)
HasRoom(p) == got[p] < Room(p) \/ Other[p] \in gone

(* What a peer has sent comes through to one that keeps reading, or its     *)
(* stream may be cut.                                                       *)
BytesArrive ==
  \A p \in Peers : []<>HasRoom(p) =>
    \A n \in 1 .. MaxBytes : sent[p] >= n ~> got[p] >= n \/ Streams!MayBeCut(p)

(* The end of a stream reaches a peer that keeps reading.  Where that       *)
(* peer's connection cannot be half-closed the end comes with the closing   *)
(* of both, and the peer that ended must itself go on reading: its          *)
(* connection has no deadline, and the loop that writes to it holds the     *)
(* handler (tailnet.go:241, ssh.go:131-141).                                *)
EndPropagates ==
  \A p \in Peers :
    /\ []<>HasRoom(p)
    /\ []<>(HasRoom(Other[p]) \/ Other[p] \in halfCloses)
    => (p \in ended ~> p \in told)

(* If both peers keep reading, both loops end, and with them the handler,   *)
(* once both peers have ended; and, where the destination cannot be         *)
(* half-closed, as the backend of an SSH channel, already once the one peer *)
(* has: the deadline takes the other loop along, out of a read though not   *)
(* out of a write (tailnet.go:246, ssh.go:131).                             *)
Finished(p) == p \in ended \cup gone

HandlerEnds ==
  (\A p \in Peers : []<>HasRoom(p)) =>
    ((\/ \A p \in Peers : Finished(p)
      \/ \E p \in Peers : Finished(p) /\ Other[p] \notin halfCloses)
     ~> phase = "closed")
===============================================================================
