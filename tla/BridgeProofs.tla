------------------------------ MODULE BridgeProofs ------------------------------
(***************************************************************************)
(* Proofs about TailnetBridge, for any number of bytes.                    *)
(***************************************************************************)
EXTENDS TailnetBridge, TLAPS

(* The loop from a peer that has stopped copying had reached the end of     *)
(* that peer's stream, or may have been cut off from it.                    *)
Over(p) == p \in ended /\ copied[p] = sent[p] /\ got[p] = copied[p]

LoopInv(p) ==
  /\ got[p] <= copied[p] /\ copied[p] <= sent[p]
  /\ loop[p] = "read" => got[p] = copied[p]
  /\ loop[p] \in {"finish", "done"} => Over(p) \/ Streams!MayBeCut(p)
  /\ p \in expired => p \notin halfCloses /\ loop[Other[p]] = "done"
  /\ p \in told => loop[p] = "done" \/ phase = "closed"

BridgeInv ==
  /\ BridgeTypeOK
  /\ halfCloses # {}
  /\ phase = "refused" => "backend" \in gone
  /\ \A p \in Peers : LoopInv(p)
  /\ EndIsReal

(* The two peers, and each is the other of the other.                       *)
LEMMA PeerFacts ==
  ASSUME NEW p \in Peers
  PROVE  /\ Other[p] \in Peers /\ Other[p] # p /\ Other[Other[p]] = p
         /\ \A q \in Peers : q = p \/ q = Other[p]
  BY DEF Peers, Other

(* The invariant holds before the dial.                                     *)
LEMMA BridgeInitially == BridgeInit => BridgeInv
  <1> SUFFICES ASSUME BridgeInit PROVE BridgeInv
    OBVIOUS
  <1>1. BridgeTypeOK /\ halfCloses # {}
    BY BytesAssumption DEF BridgeInit, BridgeTypeOK, Peers
  <1>2. phase = "dialing" /\ told = {} /\ expired = {}
    BY DEF BridgeInit
  <1>3. \A p \in Peers : got[p] = 0 /\ copied[p] = 0 /\ sent[p] = 0 /\ loop[p] = "read"
    BY DEF BridgeInit
  <1> QED BY <1>1, <1>2, <1>3 DEF BridgeInv, LoopInv, EndIsReal

(* If a stream was cut or had ended, no step of a peer makes it otherwise.  *)
LEMMA PeerKeeps ==
  ASSUME BridgeInv, PeerNext
  PROVE  BridgeInv'
  <1> USE DEF BridgeInv
  <1>1. PICK p \in Peers : Send(p) \/ End(p) \/ Leave(p) \/ Take(p)
    BY DEF PeerNext
  <1>2. CASE Send(p)
    <2>1. /\ p \notin ended /\ p \notin gone /\ sent[p] < MaxBytes
          /\ sent' = [sent EXCEPT ![p] = @ + 1]
          /\ UNCHANGED <<halfCloses, ended, gone, got, taken, told, phase, loop, copied, expired>>
      BY <1>2 DEF Send, loopVars
    <2>2. BridgeTypeOK'
      <3>1. sent[p] + 1 \in 0 .. MaxBytes
        BY <2>1, BytesAssumption DEF BridgeTypeOK
      <3> QED BY <2>1, <3>1 DEF BridgeTypeOK
    <2>3. \A q \in Peers : sent'[q] >= sent[q] /\ (q \in ended => sent'[q] = sent[q])
      BY <2>1 DEF BridgeTypeOK
    <2>4. \A q \in Peers : LoopInv(q)'
      BY <2>1, <2>2, <2>3 DEF LoopInv, BridgeTypeOK, Over, Streams!MayBeCut
    <2>5. EndIsReal'
      BY <2>1, <2>3 DEF EndIsReal, Streams!Complete, Streams!MayBeCut, BridgeTypeOK
    <2> QED BY <2>1, <2>2, <2>4, <2>5
  <1>3. CASE End(p)
    <2>1. /\ ended' = ended \cup {p}
          /\ UNCHANGED <<halfCloses, sent, gone, got, taken, told, phase, loop, copied, expired>>
      BY <1>3 DEF End, loopVars
    <2>2. BridgeTypeOK' BY <2>1 DEF BridgeTypeOK
    <2>3. \A q \in Peers : LoopInv(q)'
      BY <2>1 DEF LoopInv, Over, Streams!MayBeCut
    <2>4. EndIsReal'
      BY <2>1 DEF EndIsReal, Streams!Complete, Streams!MayBeCut
    <2> QED BY <2>1, <2>2, <2>3, <2>4
  <1>4. CASE Leave(p)
    <2>1. /\ gone' = gone \cup {p}
          /\ UNCHANGED <<halfCloses, sent, ended, got, taken, told, phase, loop, copied, expired>>
      BY <1>4 DEF Leave, loopVars
    <2>2. BridgeTypeOK' BY <2>1 DEF BridgeTypeOK
    <2>3. \A q \in Peers : LoopInv(q)'
      BY <2>1 DEF LoopInv, Over, Streams!MayBeCut
    <2>4. EndIsReal'
      BY <2>1 DEF EndIsReal, Streams!Complete, Streams!MayBeCut
    <2> QED BY <2>1, <2>2, <2>3, <2>4
  <1>5. CASE Take(p)
    <2>1. /\ taken[p] < got[p] /\ taken' = [taken EXCEPT ![p] = @ + 1]
          /\ UNCHANGED <<halfCloses, sent, ended, gone, got, told, phase, loop, copied, expired>>
      BY <1>5 DEF Take, loopVars
    <2>2. BridgeTypeOK'
      <3>1. taken[p] + 1 \in 0 .. MaxBytes
        BY <2>1, BytesAssumption DEF BridgeTypeOK
      <3> QED BY <2>1, <3>1 DEF BridgeTypeOK
    <2> QED BY <2>1, <2>2 DEF LoopInv, Over, EndIsReal, Streams!Complete, Streams!MayBeCut
  <1> QED BY <1>1, <1>2, <1>3, <1>4, <1>5
-------------------------------------------------------------------------------
(* The dial, whether it succeeds or is refused, keeps the invariant.        *)
LEMMA DialKeeps ==
  ASSUME BridgeInv, Dial \/ DialFails
  PROVE  BridgeInv'
  <1> USE DEF BridgeInv
  <1>1. CASE Dial
    <2>1. phase = "dialing" /\ phase' = "copying"
      BY <1>1 DEF Dial
    <2>2. UNCHANGED <<halfCloses, sent, ended, gone, got, taken, told, loop, copied, expired>>
      BY <1>1 DEF Dial, peerVars
    <2>3. \A q \in Peers : LoopInv(q)'
      BY <2>1, <2>2 DEF LoopInv, Over, Streams!MayBeCut
    <2> QED BY <2>1, <2>2, <2>3
         DEF BridgeTypeOK, EndIsReal, Streams!Complete, Streams!MayBeCut
  <1>2. CASE DialFails
    <2>1. phase = "dialing" /\ phase' = "refused" /\ gone' = gone \cup {"backend"}
      BY <1>2 DEF DialFails
    <2>2. UNCHANGED <<halfCloses, sent, ended, got, taken, told, loop, copied, expired>>
      BY <1>2 DEF DialFails
    <2>3. \A q \in Peers : LoopInv(q)'
      BY <2>1, <2>2 DEF LoopInv, Over, Streams!MayBeCut
    <2>4. BridgeTypeOK'
      BY <2>1, <2>2 DEF BridgeTypeOK, Peers
    <2> QED BY <2>1, <2>2, <2>3, <2>4 DEF EndIsReal, Streams!Complete, Streams!MayBeCut
  <1> QED BY <1>1, <1>2

(* Closing both connections ends both streams, and both may end then.       *)
LEMMA CloseKeeps ==
  ASSUME BridgeInv, Close
  PROVE  BridgeInv'
  <1> USE DEF BridgeInv
  <1>1. phase' = "closed" /\ told' = Peers
    BY DEF Close
  <1>2. UNCHANGED <<halfCloses, sent, ended, gone, got, taken, loop, copied, expired>>
    BY DEF Close, peerVars
  <1>3. \A q \in Peers : LoopInv(q)'
    BY <1>1, <1>2 DEF LoopInv, Over, Streams!MayBeCut
  <1>4. \A q \in Peers : Streams!Complete(q) \/ Streams!MayBeCut(q)
    <2>1. CASE phase = "refused"
      BY <2>1 DEF Streams!MayBeCut
    <2>2. CASE LoopsDone
      BY <2>2 DEF LoopsDone, LoopInv, Over, Streams!Complete
    <2> QED BY <2>1, <2>2 DEF Close
  <1>5. EndIsReal'
    BY <1>1, <1>2, <1>4 DEF EndIsReal, Streams!Complete, Streams!MayBeCut
  <1>6. BridgeTypeOK'
    BY <1>1, <1>2 DEF BridgeTypeOK
  <1> QED BY <1>1, <1>2, <1>3, <1>5, <1>6

(* A step of one loop leaves what LoopInv says of the other.                *)
LEMMA LoopKeeps ==
  ASSUME BridgeInv, NEW p \in Peers, Loop(p)
  PROVE  BridgeInv'
  <1> USE DEF BridgeInv
  <1>0. /\ phase = "copying"
        /\ UNCHANGED <<halfCloses, sent, ended, gone, taken, phase>>
        /\ \A q \in Peers : q # p =>
             loop'[q] = loop[q] /\ got'[q] = got[q] /\ copied'[q] = copied[q]
    BY DEF Loop, Read, Write, WriteFails, ReadEnds, Finish, AtLoop, peerVars, BridgeTypeOK
  <1>t. BridgeTypeOK /\ LoopInv(p)
    OBVIOUS
  <1>1. CASE Read(p)
    <2>1. PICK n \in (copied[p] + 1) .. sent[p] : copied' = [copied EXCEPT ![p] = n]
      BY <1>1 DEF Read, Arrived
    <2>2. /\ loop[p] = "read" /\ loop' = [loop EXCEPT ![p] = "write"]
          /\ UNCHANGED <<got, told, expired>>
      BY <1>1 DEF Read, AtLoop
    <2>3. BridgeTypeOK'
      <3>1. n \in 0 .. MaxBytes
        BY <1>t, <2>1, BytesAssumption DEF BridgeTypeOK
      <3> QED BY <1>0, <2>1, <2>2, <3>1 DEF BridgeTypeOK
    <2>4. copied'[p] = n /\ n \in Nat /\ got[p] <= n /\ n <= sent[p] /\ loop'[p] = "write"
      BY <1>t, <2>1, <2>2 DEF BridgeTypeOK, LoopInv
    <2>5. \A q \in Peers : LoopInv(q)'
      <3> SUFFICES ASSUME NEW q \in Peers PROVE LoopInv(q)'
        OBVIOUS
      <3>1. CASE q = p
        BY <3>1, <1>0, <2>2, <2>4, PeerFacts DEF LoopInv
      <3>2. CASE q # p
        BY <3>2, <1>0, <2>2, <2>4, PeerFacts DEF LoopInv, Over, Streams!MayBeCut
      <3> QED BY <3>1, <3>2
    <2> QED BY <1>0, <2>2, <2>3, <2>5 DEF EndIsReal, Streams!Complete, Streams!MayBeCut
  <1>2. CASE Write(p)
    <2>1. PICK n \in (got[p] + 1) .. copied[p] :
            /\ got' = [got EXCEPT ![p] = n]
            /\ loop[p] = "write"
            /\ loop' = [loop EXCEPT ![p] = IF n = copied[p] THEN "read" ELSE "write"]
            /\ UNCHANGED <<told, copied, expired>>
      BY <1>2 DEF Write, AtLoop
    <2>2. BridgeTypeOK'
      <3>1. n \in 0 .. MaxBytes
        BY <1>t, <2>1, BytesAssumption DEF BridgeTypeOK
      <3> QED BY <1>0, <2>1, <3>1 DEF BridgeTypeOK
    <2>3. p \notin told
      BY <1>0, <1>t, <2>1 DEF LoopInv
    <2>4. \A q \in Peers : LoopInv(q)'
      <3> SUFFICES ASSUME NEW q \in Peers PROVE LoopInv(q)'
        OBVIOUS
      <3>0. /\ got'[p] = n /\ n \in Int /\ n <= copied[p]
            /\ loop'[p] = IF n = copied[p] THEN "read" ELSE "write"
        BY <1>t, <2>1 DEF BridgeTypeOK
      <3>1. CASE q = p
        BY <3>0, <3>1, <1>0, <1>t, <2>1, <2>2, <2>3, PeerFacts DEF LoopInv, BridgeTypeOK
      <3>2. CASE q # p
        BY <3>0, <3>2, <1>0, <2>1, PeerFacts DEF LoopInv, Over, Streams!MayBeCut
      <3> QED BY <3>1, <3>2
    <2>5. EndIsReal'
      BY <1>0, <2>1, <2>3 DEF EndIsReal, Streams!Complete, Streams!MayBeCut, BridgeTypeOK
    <2> QED BY <1>0, <2>2, <2>4, <2>5
  <1>3. CASE WriteFails(p)
    <2>1. PICK n \in got[p] .. copied[p] : got' = [got EXCEPT ![p] = n]
      BY <1>3 DEF WriteFails
    <2>2. /\ Other[p] \in gone
          /\ loop[p] = "write" /\ loop' = [loop EXCEPT ![p] = "finish"]
          /\ UNCHANGED <<told, copied, expired>>
      BY <1>3 DEF WriteFails, AtLoop
    <2>3. BridgeTypeOK'
      <3>1. n \in 0 .. MaxBytes
        BY <1>t, <2>1, BytesAssumption DEF BridgeTypeOK
      <3> QED BY <1>0, <2>1, <2>2, <3>1 DEF BridgeTypeOK
    <2>4. Streams!MayBeCut(p)'
      BY <1>0, <2>2 DEF Streams!MayBeCut
    <2>5. p \notin told
      BY <1>0, <1>t, <2>2 DEF LoopInv
    <2>6. \A q \in Peers : LoopInv(q)'
      <3> SUFFICES ASSUME NEW q \in Peers PROVE LoopInv(q)'
        OBVIOUS
      <3>0. got'[p] = n /\ n <= copied[p] /\ loop'[p] = "finish"
        BY <2>1, <2>2, <1>t DEF BridgeTypeOK
      <3>1. CASE q = p
        BY <3>0, <3>1, <1>0, <1>t, <2>2, <2>3, <2>4, <2>5, PeerFacts DEF LoopInv, BridgeTypeOK
      <3>2. CASE q # p
        BY <3>0, <3>2, <1>0, <2>2, PeerFacts DEF LoopInv, Over, Streams!MayBeCut
      <3> QED BY <3>1, <3>2
    <2>7. EndIsReal'
      BY <1>0, <2>1, <2>2 DEF EndIsReal, Streams!Complete, Streams!MayBeCut, BridgeTypeOK
    <2> QED BY <1>0, <2>3, <2>6, <2>7
  <1>4. CASE ReadEnds(p)
    <2>1. /\ AtEOF(p) \/ p \in gone \/ p \in expired
          /\ loop[p] = "read" /\ loop' = [loop EXCEPT ![p] = "finish"]
          /\ UNCHANGED <<got, told, copied, expired>>
      BY <1>4 DEF ReadEnds, AtLoop
    <2>2. BridgeTypeOK'
      BY <1>0, <2>1 DEF BridgeTypeOK
    <2>3. Over(p) \/ Streams!MayBeCut(p)
      <3>1. CASE AtEOF(p)
        BY <3>1, <1>t, <2>1 DEF AtEOF, LoopInv, Over
      <3>2. CASE p \in gone
        BY <3>2 DEF Streams!MayBeCut
      <3>3. CASE p \in expired
        <4>1. p \notin halfCloses /\ loop[Other[p]] = "done"
          BY <3>3, <1>t DEF LoopInv
        <4>2. Over(Other[p]) \/ Streams!MayBeCut(Other[p])
          BY <4>1, PeerFacts DEF LoopInv
        <4>3. Other[p] \in halfCloses
          BY <4>1, PeerFacts DEF BridgeTypeOK
        <4> QED BY <4>1, <4>2, <4>3, PeerFacts DEF Over, Streams!MayBeCut
      <3> QED BY <2>1, <3>1, <3>2, <3>3
    <2>4. \A q \in Peers : LoopInv(q)'
      <3> SUFFICES ASSUME NEW q \in Peers PROVE LoopInv(q)'
        OBVIOUS
      <3>0. loop'[p] = "finish"
        BY <2>1 DEF BridgeTypeOK
      <3>1. CASE q = p
        BY <3>0, <3>1, <1>0, <1>t, <2>1, <2>3, PeerFacts DEF LoopInv, Over, Streams!MayBeCut
      <3>2. CASE q # p
        BY <3>0, <3>2, <1>0, <2>1, PeerFacts DEF LoopInv, Over, Streams!MayBeCut
      <3> QED BY <3>1, <3>2
    <2> QED BY <1>0, <2>1, <2>2, <2>4 DEF EndIsReal, Streams!Complete, Streams!MayBeCut
  <1>5. CASE Finish(p)
    <2>1. /\ told' = told \cup {q \in {p} : Other[p] \in halfCloses}
          /\ expired' = expired \cup ({Other[p]} \ halfCloses)
          /\ loop[p] = "finish" /\ loop' = [loop EXCEPT ![p] = "done"]
          /\ UNCHANGED <<got, copied>>
      BY <1>5 DEF Finish, AtLoop, closeWrite
    <2>2. BridgeTypeOK'
      BY <1>0, <2>1, PeerFacts DEF BridgeTypeOK
    <2>3. Over(p) \/ Streams!MayBeCut(p)
      BY <1>t, <2>1 DEF LoopInv
    <2>4. \A q \in Peers : LoopInv(q)'
      <3> SUFFICES ASSUME NEW q \in Peers PROVE LoopInv(q)'
        OBVIOUS
      <3>0. loop'[p] = "done"
        BY <2>1 DEF BridgeTypeOK
      <3>1. CASE q = p
        BY <3>0, <3>1, <1>0, <1>t, <2>1, <2>3, PeerFacts DEF LoopInv, Over, Streams!MayBeCut
      <3>2. CASE q # p
        BY <3>0, <3>2, <1>0, <2>1, PeerFacts DEF LoopInv, Over, Streams!MayBeCut
      <3> QED BY <3>1, <3>2
    <2>5. Streams!Complete(p) \/ Streams!MayBeCut(p)
      BY <2>3 DEF Over, Streams!Complete
    <2>6. EndIsReal'
      BY <1>0, <2>1, <2>5 DEF EndIsReal, Streams!Complete, Streams!MayBeCut
    <2> QED BY <1>0, <2>2, <2>4, <2>6
  <1> QED BY <1>1, <1>2, <1>3, <1>4, <1>5 DEF Loop

(* The inductive invariant holds in every reachable state.                  *)
LEMMA BridgeInvariant == BridgeSpec => []BridgeInv
  <1>1. BridgeInv /\ [BridgeNext]_bridgeVars => BridgeInv'
    <2> SUFFICES ASSUME BridgeInv, [BridgeNext]_bridgeVars PROVE BridgeInv'
      OBVIOUS
    <2>1. CASE PeerNext
      BY <2>1, PeerKeeps
    <2>2. CASE Dial \/ DialFails
      BY <2>2, DialKeeps
    <2>3. CASE Close
      BY <2>3, CloseKeeps
    <2>4. CASE \E p \in Peers : Loop(p)
      BY <2>4, LoopKeeps
    <2>5. CASE UNCHANGED bridgeVars
      BY <2>5 DEF bridgeVars, BridgeInv, BridgeTypeOK, LoopInv, EndIsReal, Over,
                  Streams!Complete, Streams!MayBeCut
    <2> QED BY <2>1, <2>2, <2>3, <2>4, <2>5 DEF BridgeNext
  <1> QED BY <1>1, BridgeInitially, PTL DEF BridgeSpec

(* The bridge keeps its types, for any number of bytes (tailnet.go:165).    *)
THEOREM BridgeTypeCorrect == BridgeSpec => []BridgeTypeOK
  BY BridgeInvariant, PTL DEF BridgeInv

(* No peer is shown an early end of the other's stream, except where the    *)
(* stream may be cut: whatever the order in which the two loops of          *)
(* tailnet.go:203 or ssh.go:128 read, write and end.                        *)
THEOREM EndsAreReal == BridgeSpec => []EndIsReal
  BY BridgeInvariant, PTL DEF BridgeInv
-------------------------------------------------------------------------------
(* Each step of the bridge is one of the streams or none.                   *)
LEMMA StepsOfStreams ==
  ASSUME BridgeInv, BridgeNext
  PROVE  [Streams!Next]_(Streams!streamVars)
  <1> USE DEF BridgeInv, Streams!streamVars
  <1>1. CASE PeerNext
    <2>1. PICK p \in Peers : Send(p) \/ End(p) \/ Leave(p) \/ Take(p)
      BY <1>1 DEF PeerNext
    <2> QED BY <2>1 DEF Send, End, Leave, Take, Streams!Next, Streams!Send, Streams!End,
                        Streams!Leave
  <1>2. CASE Dial
    BY <1>2 DEF Dial, peerVars
  <1>3. CASE DialFails
    <2>1. "backend" \in Peers
      BY DEF Peers
    <2> QED BY <1>3, <2>1 DEF DialFails, Streams!Next, Streams!Leave
  <1>4. CASE Close
    <2>1. \A q \in Peers : Streams!Complete(q) \/ Streams!MayBeCut(q)
      <3>1. CASE phase = "refused"
        BY <3>1 DEF Streams!MayBeCut
      <3>2. CASE LoopsDone
        BY <3>2 DEF LoopsDone, LoopInv, Over, Streams!Complete
      <3> QED BY <1>4, <3>1, <3>2 DEF Close
    <2>2. told \cup Peers = Peers
      BY DEF BridgeTypeOK
    <2>3. Streams!Tell(Peers)
      BY <1>4, <2>1, <2>2 DEF Close, peerVars, Streams!Tell
    <2> QED BY <2>3 DEF Streams!Next
  <1>5. CASE \E p \in Peers : Loop(p)
    <2>1. PICK p \in Peers : Loop(p)
      BY <1>5
    <2>2. LoopInv(p) /\ BridgeTypeOK
      OBVIOUS
    <2>3. CASE Read(p)
      BY <2>3 DEF Read, AtLoop, peerVars
    <2>4. CASE Write(p)
      <3>1. PICK n \in (got[p] + 1) .. copied[p] :
              got' = [got EXCEPT ![p] = n] /\ loop[p] = "write"
        BY <2>4 DEF Write, AtLoop
      <3>2. p \notin told /\ n \in got[p] .. sent[p]
        BY <2>2, <2>4, <3>1 DEF Write, AtLoop, LoopInv, BridgeTypeOK
      <3>3. Streams!Deliver(p)
        BY <2>4, <3>1, <3>2 DEF Write, AtLoop, peerVars, Streams!Deliver
      <3> QED BY <3>3 DEF Streams!Next
    <2>5. CASE WriteFails(p)
      <3>1. PICK n \in got[p] .. copied[p] : got' = [got EXCEPT ![p] = n]
        BY <2>5 DEF WriteFails
      <3>2. p \notin told /\ n \in got[p] .. sent[p]
        BY <2>2, <2>5, <3>1 DEF WriteFails, AtLoop, LoopInv, BridgeTypeOK
      <3>3. Streams!Deliver(p)
        BY <2>5, <3>1, <3>2 DEF WriteFails, AtLoop, peerVars, Streams!Deliver
      <3> QED BY <3>3 DEF Streams!Next
    <2>6. CASE ReadEnds(p)
      BY <2>6 DEF ReadEnds, AtLoop, peerVars
    <2>7. CASE Finish(p)
      <3> DEFINE ps == {q \in {p} : Other[p] \in halfCloses}
      <3>1. ps \in SUBSET Peers
        OBVIOUS
      <3>2. \A q \in ps : Streams!Complete(q) \/ Streams!MayBeCut(q)
        BY <2>2, <2>7 DEF Finish, AtLoop, LoopInv, Over, Streams!Complete
      <3>3. Streams!Tell(ps)
        BY <2>7, <3>2 DEF Finish, AtLoop, closeWrite, peerVars, Streams!Tell
      <3> QED BY <3>1, <3>3 DEF Streams!Next
    <2> QED BY <2>1, <2>3, <2>4, <2>5, <2>6, <2>7 DEF Loop
  <1> QED BY <1>1, <1>2, <1>3, <1>4, <1>5 DEF BridgeNext

(* The bridge implements the two byte streams of ByteStreams: what          *)
(* tailnet.go:203 and ssh.go:128 pass on is what was sent, in one piece.    *)
THEOREM BridgeImplementsStreams == BridgeSpec => BridgesStreams
  <1>1. BridgeInit => Streams!Init
    BY DEF BridgeInit, Streams!Init, Peers
  <1>2. BridgeInv /\ [BridgeNext]_bridgeVars => [Streams!Next]_(Streams!streamVars)
    BY StepsOfStreams DEF bridgeVars, Streams!streamVars
  <1> QED BY <1>1, <1>2, BridgeInvariant, PTL DEF BridgeSpec, BridgesStreams, Streams!Spec
===============================================================================
