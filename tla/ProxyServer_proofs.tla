------------------------- MODULE ProxyServer_proofs -------------------------
(***************************************************************************)
(* Of the proxy server and of the connections that are relayed through it. *)
(***************************************************************************)
EXTENDS KeepAlive, TunnelRelay, SequenceTheorems, TLAPS

\* A run of bytes: those numbered from + 1, from + 2, ...
Run(data, from) == \A i \in 1 .. Len(data) : data[i] = from + i

\* The frames hold, one after the other, the bytes from + 1 .. to; off[i] is
\* how many bytes come before frame i + 1.
Cut(frames, from, to, off) ==
  /\ off[0] = from /\ off[Len(frames)] = to
  /\ \A i, j \in 0 .. Len(frames) : i <= j => off[i] <= off[j]
  /\ \A i \in 1 .. Len(frames) :
       off[i] = off[i - 1] + Len(frames[i]) /\ Run(frames[i], off[i - 1])

Framed(frames, from, to) == \E off \in [0 .. Len(frames) -> 0 .. to] : Cut(frames, from, to, off)

Deciphered(frames) == [i \in 1 .. Len(frames) |-> Xor(frames[i])]

LEMMA XorType ==
  ASSUME NEW data \in Seq(Int)
  PROVE  Xor(data) \in Seq(Int) /\ Len(Xor(data)) = Len(data)
BY DEF Xor

LEMMA XorTwice ==
  ASSUME NEW data \in Seq(Int)
  PROVE  Xor(Xor(data)) = data
<1> DEFINE whole == Block * (Len(data) \div Block)
<1>1. Xor(data) = [i \in 1 .. Len(data) |-> IF i <= whole THEN -data[i] ELSE data[i]]
  BY DEF Xor
<1>2. Xor(data) \in Seq(Int) /\ Len(Xor(data)) = Len(data)
  BY XorType
<1>3. Xor(Xor(data)) = [i \in 1 .. Len(data) |-> IF i <= whole THEN -Xor(data)[i] ELSE Xor(data)[i]]
  BY <1>2 DEF Xor
<1> HIDE DEF whole
<1>4. \A i \in 1 .. Len(data) : data[i] \in Int /\ -(-data[i]) = data[i]
  OBVIOUS
<1>5. \A i \in 1 .. Len(data) : Xor(Xor(data))[i] = data[i]
  BY <1>1, <1>3, <1>4
<1> QED
  BY <1>3, <1>5

\* A run is cut into two.
LEMMA RunSplits ==
  ASSUME NEW data \in Seq(Int), NEW from \in Nat, Run(data, from), NEW n \in 1 .. Len(data)
  PROVE  /\ SubSeq(data, 1, n) \in Seq(Int) /\ Len(SubSeq(data, 1, n)) = n
         /\ Run(SubSeq(data, 1, n), from)
         /\ SubSeq(data, n + 1, Len(data)) \in Seq(Int)
         /\ Len(SubSeq(data, n + 1, Len(data))) = Len(data) - n
         /\ Run(SubSeq(data, n + 1, Len(data)), from + n)
BY DEF Run

LEMMA RunGrows ==
  ASSUME NEW a \in Seq(Int), NEW b \in Seq(Int), NEW from \in Nat, Run(a, from), Run(b, from + Len(a))
  PROVE  a \o b \in Seq(Int) /\ Len(a \o b) = Len(a) + Len(b) /\ Run(a \o b, from)
BY DEF Run

LEMMA EmptyFramed ==
  ASSUME NEW to \in Nat
  PROVE  Framed(<< >>, to, to)
<1> DEFINE off == [i \in 0 .. 0 |-> to]
<1>1. Len(<< >>) = 0
  OBVIOUS
<1>2. off \in [0 .. 0 -> 0 .. to] /\ off[0] = to
  OBVIOUS
<1> HIDE DEF off
<1>3. Cut(<< >>, to, to, off)
  BY <1>1, <1>2 DEF Cut
<1> QED
  BY <1>1, <1>2, <1>3 DEF Framed

LEMMA FramedBounds ==
  ASSUME NEW frames \in Seq(Seq(Int)), NEW from, NEW to \in Nat, Framed(frames, from, to)
  PROVE  from \in Nat /\ from <= to
BY DEF Framed, Cut

LEMMA FramedPush ==
  ASSUME NEW frames \in Seq(Seq(Int)), NEW from \in Nat, NEW to \in Nat, Framed(frames, from, to),
         NEW data \in Seq(Int), Run(data, to)
  PROVE  Framed(Append(frames, data), from, to + Len(data))
<1>1. PICK off \in [0 .. Len(frames) -> 0 .. to] : Cut(frames, from, to, off)
  BY DEF Framed
<1> DEFINE longer == [i \in 0 .. Len(frames) + 1 |-> IF i <= Len(frames) THEN off[i] ELSE to + Len(data)]
<1>2. Len(Append(frames, data)) = Len(frames) + 1
  OBVIOUS
<1>3. longer \in [0 .. Len(frames) + 1 -> 0 .. to + Len(data)]
  OBVIOUS
<1>4. longer[0] = from /\ longer[Len(frames) + 1] = to + Len(data)
  BY <1>1 DEF Cut
<1>5. ASSUME NEW i \in 0 .. Len(frames) + 1, NEW j \in 0 .. Len(frames) + 1, i <= j
      PROVE  longer[i] <= longer[j]
  <2>1. CASE j <= Len(frames)
    <3>1. i \in 0 .. Len(frames) /\ j \in 0 .. Len(frames)
      BY <1>5, <2>1
    <3>2. off[i] <= off[j]
      BY <1>1, <1>5, <3>1 DEF Cut
    <3> QED BY <3>1, <3>2
  <2>2. CASE j = Len(frames) + 1 /\ i <= Len(frames)
    <3>1. i \in 0 .. Len(frames) /\ longer[i] = off[i]
      BY <2>2
    <3>2. off[i] \in 0 .. to
      BY <3>1
    <3> QED BY <2>2, <3>1, <3>2
  <2>3. CASE j = Len(frames) + 1 /\ i = j
    <3>1. longer[i] \in 0 .. to + Len(data)
      BY <1>3
    <3> QED BY <2>3, <3>1
  <2> QED BY <1>5, <2>1, <2>2, <2>3
<1>6. ASSUME NEW i \in 1 .. Len(frames) + 1
      PROVE  /\ longer[i] = longer[i - 1] + Len(Append(frames, data)[i])
             /\ Run(Append(frames, data)[i], longer[i - 1])
  <2>1. CASE i <= Len(frames)
    <3>1. i \in 1 .. Len(frames) /\ i - 1 \in 0 .. Len(frames) /\ Append(frames, data)[i] = frames[i]
      BY <2>1
    <3> QED BY <1>1, <3>1 DEF Cut
  <2>2. CASE i = Len(frames) + 1
    <3>1. longer[i - 1] = to /\ Append(frames, data)[i] = data
      BY <1>1, <2>2 DEF Cut
    <3> QED BY <2>2, <3>1
  <2> QED BY <2>1, <2>2
<1>7. Cut(Append(frames, data), from, to + Len(data), longer)
  BY <1>2, <1>4, <1>5, <1>6 DEF Cut
<1> QED
  BY <1>2, <1>3, <1>7 DEF Framed

LEMMA FramedPop ==
  ASSUME NEW frames \in Seq(Seq(Int)), frames # << >>, NEW from \in Nat, NEW to \in Nat,
         Framed(frames, from, to)
  PROVE  /\ Head(frames) \in Seq(Int) /\ Tail(frames) \in Seq(Seq(Int))
         /\ Run(Head(frames), from)
         /\ from + Len(Head(frames)) <= to
         /\ Framed(Tail(frames), from + Len(Head(frames)), to)
<1>1. PICK off \in [0 .. Len(frames) -> 0 .. to] : Cut(frames, from, to, off)
  BY DEF Framed
<1>2. Head(frames) \in Seq(Int) /\ Head(frames) = frames[1] /\ Len(frames) >= 1
  OBVIOUS
<1>3. Run(Head(frames), from) /\ off[1] = from + Len(Head(frames)) /\ off[1] <= to
  BY <1>1, <1>2 DEF Cut
<1> DEFINE rest == [i \in 0 .. Len(frames) - 1 |-> off[i + 1]]
<1>4. /\ Tail(frames) \in Seq(Seq(Int)) /\ Len(Tail(frames)) = Len(frames) - 1
      /\ \A i \in 1 .. Len(frames) - 1 : Tail(frames)[i] = frames[i + 1]
  BY <1>2
<1>5. rest \in [0 .. Len(frames) - 1 -> 0 .. to]
  BY <1>2
<1>6. rest[0] = off[1] /\ rest[Len(frames) - 1] = to
  BY <1>1, <1>2 DEF Cut
<1>7. \A i, j \in 0 .. Len(frames) - 1 : i <= j => rest[i] <= rest[j]
  BY <1>1 DEF Cut
<1>8. ASSUME NEW i \in 1 .. Len(frames) - 1
      PROVE  rest[i] = rest[i - 1] + Len(Tail(frames)[i]) /\ Run(Tail(frames)[i], rest[i - 1])
  <2>1. i + 1 \in 1 .. Len(frames) /\ Tail(frames)[i] = frames[i + 1]
        /\ rest[i] = off[i + 1] /\ rest[i - 1] = off[i]
    BY <1>4
  <2> QED BY <1>1, <2>1 DEF Cut
<1>9. Cut(Tail(frames), off[1], to, rest)
  BY <1>4, <1>6, <1>7, <1>8 DEF Cut
<1> QED
  BY <1>2, <1>3, <1>4, <1>5, <1>9 DEF Framed

-----------------------------------------------------------------------------
USE BlockAssumption, WindowAssumption

\* A sequence is cut into two, or loses its head.
LEMMA SliceType ==
  ASSUME NEW S, NEW s \in Seq(S), NEW n \in 1 .. Len(s)
  PROVE  SubSeq(s, 1, n) \in Seq(S) /\ SubSeq(s, n + 1, Len(s)) \in Seq(S)
<1>1. 1 \in Int /\ n \in Int /\ n + 1 \in Int /\ Len(s) \in Int
  OBVIOUS
<1>2. \A i \in 1 .. n : s[i] \in S
  OBVIOUS
<1>3. \A i \in n + 1 .. Len(s) : s[i] \in S
  OBVIOUS
<1> QED
  BY <1>1, <1>2, <1>3, SubSeqProperties

LEMMA TailType ==
  ASSUME NEW S, NEW s \in Seq(S), s # << >>
  PROVE  Head(s) \in S /\ Tail(s) \in Seq(S) /\ Len(Tail(s)) = Len(s) - 1
OBVIOUS

LEMMA AppendType ==
  ASSUME NEW S, NEW s \in Seq(S), NEW e \in S
  PROVE  Append(s, e) \in Seq(S) /\ Len(Append(s, e)) = Len(s) + 1
OBVIOUS

\* Only the two helpers change how a task is or what it has in hand.
LEMMA HoldType ==
  ASSUME RelayTypeOK, NEW t \in Client \cup Server, NEW data \in Seq(Int),
         t = "read_remote" => data \in Clear(MaxDown), Hold(t, data)
  PROVE  /\ task' = task
         /\ held' \in [Client \cup Server -> Seq(Int)] /\ held'["read_remote"] \in Clear(MaxDown)
         /\ held'[t] = data /\ \A u \in Client \cup Server : u # t => held'[u] = held[u]
BY DEF RelayTypeOK, Hold

Outcomes == {"ended", "closed", "failed", "aborted"}

LEMMA FinishType ==
  ASSUME RelayTypeOK, NEW t \in Client \cup Server, NEW how \in Outcomes, Finish(t, how)
  PROVE  /\ task' \in [Client \cup Server -> {"waiting", "running", "ended", "closed", "failed", "aborted"}]
         /\ held' \in [Client \cup Server -> Seq(Int)] /\ held'["read_remote"] \in Clear(MaxDown)
         /\ task'[t] = how /\ held'[t] = << >>
         /\ \A u \in Client \cup Server : u # t => held'[u] = held[u] /\ task'[u] = task[u]
<1>1. held' = [held EXCEPT ![t] = << >>] /\ task' = [task EXCEPT ![t] = how]
  BY DEF Finish
<1>2. << >> \in Seq(Int) /\ << >> \in Clear(MaxDown)
  BY DEF Clear
<1> QED BY <1>1, <1>2 DEF RelayTypeOK, Outcomes

LEMMA RelayTypeStep == RelayTypeOK /\ [RelayNext]_relayVars => RelayTypeOK'
<1> SUFFICES ASSUME RelayTypeOK, [RelayNext]_relayVars PROVE RelayTypeOK'
  OBVIOUS
<1> USE DEF Client, Server
<1>0. << >> \in Seq(Int) /\ << >> \in Clear(MaxDown) /\ << >> \in Clear(MaxUp)
  BY DEF Clear
<1>1. CASE Read
  <2>1. PICK n \in 1 .. Len(appBuf) :
          Hold("read", Xor(SubSeq(appBuf, 1, n))) /\ appBuf' = SubSeq(appBuf, n + 1, Len(appBuf))
    BY <1>1 DEF Read
  <2>2. SubSeq(appBuf, 1, n) \in Seq(Int) /\ appBuf' \in Clear(MaxUp)
    <3>1. appBuf \in Seq(1 .. MaxUp)
      BY DEF RelayTypeOK, Clear
    <3>2. SubSeq(appBuf, 1, n) \in Seq(1 .. MaxUp) /\ appBuf' \in Seq(1 .. MaxUp)
      BY <2>1, <3>1, SliceType
    <3>3. SubSeq(appBuf, 1, n) \in Seq(Int)
      BY <3>2
    <3> QED BY <3>2, <3>3 DEF Clear
  <2>3. Xor(SubSeq(appBuf, 1, n)) \in Seq(Int)
    BY <2>2, XorType
  <2> QED BY <1>1, <2>1, <2>2, <2>3, HoldType DEF Read, RelayTypeOK, remoteVars, net, wire
<1>2. CASE ReadEnds
  BY <1>2, FinishType DEF ReadEnds, RelayTypeOK, appVars, remoteVars, net, wire, Outcomes
<1>3. CASE Send
  <2>1. CASE up' = Append(up, held["read"]) /\ Len(up) < Window /\ Hold("read", << >>) /\ UNCHANGED told
    <3>1. up' \in Seq(Seq(Int)) /\ Len(up') <= Window
      BY <2>1 DEF RelayTypeOK
    <3> QED BY <1>3, <1>0, <2>1, <3>1, HoldType DEF Send, RelayTypeOK, appVars, remoteVars
  <2>2. CASE Hold("read", << >>) /\ UNCHANGED <<up, told>>
    BY <1>3, <1>0, <2>2, HoldType DEF Send, RelayTypeOK, appVars, remoteVars
  <2>3. CASE SentIntoVoid("read", "client") /\ UNCHANGED up
    BY <1>3, <1>0, <2>3, HoldType DEF Send, SentIntoVoid, RelayTypeOK, appVars, remoteVars
  <2>4. CASE Finish("read", "failed") /\ UNCHANGED <<up, told>>
    BY <1>3, <2>4, FinishType DEF Send, RelayTypeOK, appVars, remoteVars, Outcomes
  <2> QED BY <1>3, <2>1, <2>2, <2>3, <2>4 DEF Send
<1>4. CASE Receive
  <2>1. Head(down) \in Clear(MaxDown) /\ down' \in Seq(Clear(MaxDown)) /\ Len(down') <= Window
    BY <1>4, TailType DEF Receive, RelayTypeOK
  <2>2. Head(down) \in Seq(Int)
    BY <2>1 DEF Clear
  <2> QED BY <1>4, <2>1, <2>2, HoldType DEF Receive, RelayTypeOK, appVars, remoteVars, wire
<1>5. CASE ReceiveEnds
  <2>1. down' \in Seq(Clear(MaxDown)) /\ Len(down') <= Window
    <3>1. down \in Seq(Clear(MaxDown)) /\ Len(down) <= Window /\ Window \in Nat
      BY DEF RelayTypeOK
    <3>2. CASE UNCHANGED down
      BY <3>1, <3>2
    <3>3. CASE down # << >> /\ down' = Tail(down)
      BY <3>1, <3>3, TailType
    <3> QED BY <1>5, <3>2, <3>3 DEF ReceiveEnds
  <2>2. PICK how \in Outcomes : Finish("write", how)
    BY <1>5 DEF ReceiveEnds, Outcomes
  <2> QED BY <1>5, <2>1, <2>2, FinishType DEF ReceiveEnds, RelayTypeOK, appVars, remoteVars, wire
<1>6. CASE Deliver
  <2>1. ASSUME NEW n \in 1 .. Len(held["write"]), appGot' = appGot \o SubSeq(held["write"], 1, n),
               Hold("write", SubSeq(held["write"], n + 1, Len(held["write"])))
        PROVE  RelayTypeOK'
    <3>1. appGot' \in Seq(Int) /\ SubSeq(held["write"], n + 1, Len(held["write"])) \in Seq(Int)
      <4>1. held["write"] \in Seq(Int) /\ appGot \in Seq(Int)
        BY DEF RelayTypeOK
      <4>2. SubSeq(held["write"], 1, n) \in Seq(Int) /\ SubSeq(held["write"], n + 1, Len(held["write"])) \in Seq(Int)
        BY <4>1, SliceType
      <4> QED BY <2>1, <4>1, <4>2
    <3> QED BY <1>6, <2>1, <3>1, HoldType DEF Deliver, RelayTypeOK, remoteVars, net, wire
  <2>2. CASE Hold("write", << >>) /\ UNCHANGED appGot
    BY <1>6, <1>0, <2>2, HoldType DEF Deliver, RelayTypeOK, remoteVars, net, wire
  <2>3. CASE Finish("write", "failed") /\ UNCHANGED appGot
    BY <1>6, <2>3, FinishType DEF Deliver, RelayTypeOK, remoteVars, net, wire, Outcomes
  <2> QED BY <1>6, <2>1, <2>2, <2>3 DEF Deliver
<1>7. CASE Connect
  BY <1>7 DEF Connect, RelayTypeOK, appVars, remoteVars, net, wire
<1>8. CASE RecvWs
  <2>1. Head(up) \in Seq(Int) /\ up' \in Seq(Seq(Int)) /\ Len(up') <= Window
    BY <1>8, TailType DEF RecvWs, RelayTypeOK
  <2> QED BY <1>8, <2>1, XorType, HoldType DEF RecvWs, RelayTypeOK, appVars, remoteVars, wire
<1>9. CASE RecvWsEnds
  BY <1>9, FinishType DEF RecvWsEnds, RelayTypeOK, appVars, remoteVars, net, wire, Outcomes
<1>10. CASE WriteRemote
  <2>1. ASSUME NEW n \in 1 .. Len(held["recv_ws"]), remoteGot' = remoteGot \o SubSeq(held["recv_ws"], 1, n),
               Hold("recv_ws", SubSeq(held["recv_ws"], n + 1, Len(held["recv_ws"])))
        PROVE  RelayTypeOK'
    <3>1. remoteGot' \in Seq(Int) /\ SubSeq(held["recv_ws"], n + 1, Len(held["recv_ws"])) \in Seq(Int)
      <4>1. held["recv_ws"] \in Seq(Int) /\ remoteGot \in Seq(Int)
        BY DEF RelayTypeOK
      <4>2. SubSeq(held["recv_ws"], 1, n) \in Seq(Int) /\ SubSeq(held["recv_ws"], n + 1, Len(held["recv_ws"])) \in Seq(Int)
        BY <4>1, SliceType
      <4> QED BY <2>1, <4>1, <4>2
    <3> QED BY <1>10, <2>1, <3>1, HoldType DEF WriteRemote, RelayTypeOK, appVars, net, wire
  <2>2. CASE Hold("recv_ws", << >>) /\ UNCHANGED remoteGot
    BY <1>10, <1>0, <2>2, HoldType DEF WriteRemote, RelayTypeOK, appVars, net, wire
  <2> QED BY <1>10, <2>1, <2>2 DEF WriteRemote
<1>11. CASE ReadRemote
  <2>1. PICK n \in 1 .. Len(remoteBuf) :
          Hold("read_remote", SubSeq(remoteBuf, 1, n)) /\ remoteBuf' = SubSeq(remoteBuf, n + 1, Len(remoteBuf))
    BY <1>11 DEF ReadRemote
  <2>2. SubSeq(remoteBuf, 1, n) \in Seq(Int) /\ SubSeq(remoteBuf, 1, n) \in Clear(MaxDown)
        /\ remoteBuf' \in Clear(MaxDown)
    <3>1. remoteBuf \in Seq(1 .. MaxDown)
      BY DEF RelayTypeOK, Clear
    <3>2. SubSeq(remoteBuf, 1, n) \in Seq(1 .. MaxDown) /\ remoteBuf' \in Seq(1 .. MaxDown)
      BY <2>1, <3>1, SliceType
    <3>3. SubSeq(remoteBuf, 1, n) \in Seq(Int)
      BY <3>2
    <3> QED BY <3>2, <3>3 DEF Clear
  <2> QED BY <1>11, <2>1, <2>2, HoldType DEF ReadRemote, RelayTypeOK, appVars, net, wire
<1>12. CASE ReadRemoteFails
  BY <1>12, <1>0 DEF ReadRemoteFails, RelayTypeOK, appVars, net, wire, relay
<1>13. CASE ReadRemoteEnds
  <2>1. down' \in Seq(Clear(MaxDown)) /\ Len(down') <= Window
    <3>1. down \in Seq(Clear(MaxDown)) /\ Len(down) <= Window /\ Window \in Nat
      BY DEF RelayTypeOK
    <3>2. CASE UNCHANGED down
      BY <3>1, <3>2
    <3>3. CASE Len(down) < Window /\ down' = Append(down, << >>)
      BY <1>0, <3>1, <3>3, AppendType
    <3> QED BY <1>13, <3>2, <3>3 DEF ReadRemoteEnds, Close
  <2> QED BY <1>13, <2>1, FinishType DEF ReadRemoteEnds, RelayTypeOK, appVars, remoteVars, wire, Outcomes
<1>14. CASE SendBack
  <2>0. told' \subseteq {"client", "server"}
    BY <1>14 DEF SendBack, SentIntoVoid, RelayTypeOK
  <2>1. down' \in Seq(Clear(MaxDown)) /\ Len(down') <= Window
    <3>1. down \in Seq(Clear(MaxDown)) /\ Len(down) <= Window /\ Window \in Nat
      BY DEF RelayTypeOK
    <3>2. CASE UNCHANGED down
      BY <3>1, <3>2
    <3>3. CASE Len(down) < Window /\ down' = Append(down, held["read_remote"])
      <4>1. held["read_remote"] \in Clear(MaxDown)
        BY DEF RelayTypeOK
      <4> QED BY <3>1, <3>3, <4>1, AppendType
    <3> QED BY <1>14, <3>2, <3>3 DEF SendBack
  <2>2. CASE Hold("read_remote", << >>)
    BY <1>14, <1>0, <2>0, <2>1, <2>2, HoldType DEF SendBack, RelayTypeOK, appVars, remoteVars
  <2>3. CASE Finish("read_remote", "failed")
    BY <1>14, <2>0, <2>1, <2>3, FinishType DEF SendBack, RelayTypeOK, appVars, remoteVars, Outcomes
  <2> QED BY <1>14, <2>2, <2>3 DEF SendBack, SentIntoVoid
<1>15. CASE Abort
  BY <1>15, FinishType DEF Abort, RelayTypeOK, appVars, remoteVars, net, wire, Outcomes
<1>16. CASE AppWrites
  <2>1. appSent' \in 0 .. MaxUp /\ appBuf' \in Clear(MaxUp)
    BY <1>16 DEF AppWrites, RelayTypeOK, Clear
  <2> QED BY <1>16, <2>1 DEF AppWrites, RelayTypeOK, remoteVars, net, wire, relay
<1>17. CASE AppLeaves
  BY <1>17 DEF AppLeaves, RelayTypeOK, remoteVars, net, wire, relay
<1>18. CASE RemoteWrites
  <2>1. remoteSent' \in 0 .. MaxDown /\ remoteBuf' \in Clear(MaxDown)
    BY <1>18 DEF RemoteWrites, RelayTypeOK, Clear
  <2> QED BY <1>18, <2>1 DEF RemoteWrites, RelayTypeOK, appVars, net, wire, relay
<1>19. CASE RemoteLeaves
  BY <1>19 DEF RemoteLeaves, RelayTypeOK, appVars, net, wire, relay
<1>20. CASE Break
  BY <1>20 DEF Break, RelayTypeOK, appVars, remoteVars, relay
<1>21. CASE HostVanishes
  <2>1. /\ task' \in [Client \cup Server -> {"waiting", "running", "ended", "closed", "failed", "aborted"}]
        /\ held' \in [Client \cup Server -> Seq(Int)] /\ held'["read_remote"] \in Clear(MaxDown)
    BY <1>21, <1>0 DEF HostVanishes, RelayTypeOK
  <2> QED BY <1>21, <2>1 DEF HostVanishes, RelayTypeOK, appVars, remoteVars
<1>22. CASE Notice
  BY <1>22 DEF Notice, RelayTypeOK, appVars, remoteVars, relay
<1>23. CASE UNCHANGED relayVars
  BY <1>23 DEF relayVars, appVars, remoteVars, net, wire, relay, RelayTypeOK
<1> QED
  BY <1>1, <1>2, <1>3, <1>4, <1>5, <1>6, <1>7, <1>8, <1>9, <1>10, <1>11, <1>12, <1>13, <1>14,
     <1>15, <1>16, <1>17, <1>18, <1>19, <1>20, <1>21, <1>22, <1>23
     DEF RelayNext, ClientRelay, ServerRelay, Ends

-----------------------------------------------------------------------------
(***************************************************************************)
(* Where the bytes of one direction are.  Behind what has arrived come     *)
(* those the writing task has in hand, then the frames, up to byte end;    *)
(* behind them those the reading task has in hand and those not yet read,  *)
(* up to byte to.                                                          *)
(***************************************************************************)
Flow(got, sink, frames, end) ==
  Run(sink, Len(got)) /\ Framed(frames, Len(got) + Len(sink), end)

Pending(source, buf, end, to) ==
  /\ Run(source, end) /\ Run(buf, end + Len(source))
  /\ end + Len(source) + Len(buf) = to

\* The n bytes after byte from.
Following(from, n) == [i \in 1 .. n |-> from + i]

LEMMA PendingRead ==
  ASSUME NEW buf \in Seq(Int), NEW end \in Nat, NEW to \in Nat, Pending(<< >>, buf, end, to),
         NEW n \in 1 .. Len(buf)
  PROVE  Pending(SubSeq(buf, 1, n), SubSeq(buf, n + 1, Len(buf)), end, to)
<1>1. Len(<< >>) = 0 /\ Len(buf) \in Nat
  OBVIOUS
<1>2. end + 0 = end /\ end + 0 + Len(buf) = end + Len(buf)
  BY <1>1
<1>3. Run(buf, end) /\ end + Len(buf) = to
  BY <1>1, <1>2 DEF Pending
<1>4. /\ Len(SubSeq(buf, 1, n)) = n /\ Run(SubSeq(buf, 1, n), end)
      /\ Len(SubSeq(buf, n + 1, Len(buf))) = Len(buf) - n
      /\ Run(SubSeq(buf, n + 1, Len(buf)), end + n)
  BY <1>3, RunSplits
<1>5. end + n + (Len(buf) - n) = to
  BY <1>1, <1>3
<1> QED
  BY <1>4, <1>5 DEF Pending

LEMMA PendingGrows ==
  ASSUME NEW source \in Seq(Int), NEW buf \in Seq(Int), NEW end \in Nat, NEW to \in Nat,
         Pending(source, buf, end, to)
  PROVE  Pending(source, Append(buf, to + 1), end, to + 1)
<1>1. /\ Len(Append(buf, to + 1)) = Len(buf) + 1 /\ Append(buf, to + 1)[Len(buf) + 1] = to + 1
      /\ \A i \in 1 .. Len(buf) : Append(buf, to + 1)[i] = buf[i]
  OBVIOUS
<1>2. Len(source) \in Nat /\ Len(buf) \in Nat /\ end + Len(source) + Len(buf) = to
  BY DEF Pending
<1>3. end + Len(source) + (Len(buf) + 1) = to + 1
  BY <1>2
<1>4. ASSUME NEW i \in 1 .. Len(buf) + 1
      PROVE  Append(buf, to + 1)[i] = end + Len(source) + i
  <2>1. CASE i \in 1 .. Len(buf)
    BY <1>1, <2>1 DEF Pending, Run
  <2>2. CASE i = Len(buf) + 1
    BY <1>1, <1>2, <2>2
  <2> QED BY <1>2, <2>1, <2>2
<1>5. Run(Append(buf, to + 1), end + Len(source))
  BY <1>1, <1>4 DEF Run
<1> QED
  BY <1>1, <1>3, <1>5 DEF Pending

LEMMA PendingPasses ==
  ASSUME NEW source \in Seq(Int), NEW buf \in Seq(Int), NEW end \in Nat, NEW to \in Nat,
         Pending(source, buf, end, to)
  PROVE  /\ Run(source, end) /\ end + Len(source) \in 0 .. to
         /\ Pending(<< >>, buf, end + Len(source), to)
BY DEF Pending, Run

LEMMA PendingLoses ==
  ASSUME NEW source \in Seq(Int), NEW buf \in Seq(Int), NEW end \in Nat, NEW to \in Nat,
         Pending(source, buf, end, to)
  PROVE  end + Len(source) \in 0 .. to /\ Pending(source, << >>, end, end + Len(source))
BY DEF Pending, Run

LEMMA FlowPush ==
  ASSUME NEW got \in Seq(Int), NEW sink \in Seq(Int), NEW frames \in Seq(Seq(Int)), NEW end \in Nat,
         Flow(got, sink, frames, end), NEW data \in Seq(Int), Run(data, end)
  PROVE  Flow(got, sink, Append(frames, data), end + Len(data))
BY FramedPush DEF Flow

LEMMA FlowPop ==
  ASSUME NEW got \in Seq(Int), NEW frames \in Seq(Seq(Int)), frames # << >>, NEW end \in Nat,
         Flow(got, << >>, frames, end)
  PROVE  Flow(got, Head(frames), Tail(frames), end)
<1>1. Framed(frames, Len(got), end)
  BY DEF Flow
<1> QED
  BY <1>1, FramedPop DEF Flow

LEMMA FlowBounds ==
  ASSUME NEW got \in Seq(Int), NEW sink \in Seq(Int), NEW frames \in Seq(Seq(Int)), NEW end \in Nat,
         Flow(got, sink, frames, end)
  PROVE  Len(got) + Len(sink) <= end
BY FramedBounds DEF Flow

LEMMA FlowCut ==
  ASSUME NEW got \in Seq(Int), NEW sink \in Seq(Int), NEW frames \in Seq(Seq(Int)), NEW end \in Nat,
         Flow(got, sink, frames, end)
  PROVE  Len(got) + Len(sink) \in 0 .. end /\ Flow(got, sink, << >>, Len(got) + Len(sink))
<1>1. Len(got) + Len(sink) \in 0 .. end
  BY FlowBounds
<1> QED
  BY <1>1, EmptyFramed DEF Flow

LEMMA FlowWrite ==
  ASSUME NEW got \in Seq(Int), NEW sink \in Seq(Int), NEW frames \in Seq(Seq(Int)), NEW end \in Nat,
         Flow(got, sink, frames, end), NEW n \in 1 .. Len(sink)
  PROVE  Flow(got \o SubSeq(sink, 1, n), SubSeq(sink, n + 1, Len(sink)), frames, end)
<1> DEFINE first == SubSeq(sink, 1, n)
           rest  == SubSeq(sink, n + 1, Len(sink))
<1>1. /\ first \in Seq(Int) /\ Len(first) = n
      /\ rest \in Seq(Int) /\ Len(rest) = Len(sink) - n /\ Run(rest, Len(got) + n)
  BY RunSplits DEF Flow
<1>2. Framed(frames, Len(got) + Len(sink), end)
  BY DEF Flow
<1> HIDE DEF first, rest
<1>3. Len(got \o first) = Len(got) + n
  BY <1>1, ConcatProperties
<1>4. Len(got) + n + Len(rest) = Len(got) + Len(sink)
  BY <1>1
<1>5. Flow(got \o first, rest, frames, end)
  BY <1>1, <1>2, <1>3, <1>4 DEF Flow
<1> QED
  BY <1>5 DEF first, rest

LEMMA WriteFollows ==
  ASSUME NEW got \in Seq(Int), NEW sink \in Seq(Int), NEW frames \in Seq(Seq(Int)), NEW end \in Nat,
         Flow(got, sink, frames, end), NEW n \in 1 .. Len(sink)
  PROVE  SubSeq(sink, 1, n) = Following(Len(got), n) /\ Len(got) + n <= end
<1> DEFINE first == SubSeq(sink, 1, n)
<1>1. first \in Seq(Int) /\ Len(first) = n /\ Run(first, Len(got))
  BY RunSplits DEF Flow
<1>2. Len(got) + Len(sink) <= end
  BY FlowBounds
<1> HIDE DEF first
<1>3. first = Following(Len(got), n)
  BY <1>1 DEF Run, Following
<1>4. Len(got) + n <= end
  BY <1>2
<1> QED
  BY <1>3, <1>4 DEF first

LEMMA DecipheredType ==
  ASSUME NEW frames \in Seq(Seq(Int))
  PROVE  Deciphered(frames) \in Seq(Seq(Int)) /\ Len(Deciphered(frames)) = Len(frames)
BY XorType DEF Deciphered

LEMMA DecipheredPush ==
  ASSUME NEW frames \in Seq(Seq(Int)), NEW data \in Seq(Int)
  PROVE  Deciphered(Append(frames, data)) = Append(Deciphered(frames), Xor(data))
<1>1. /\ Len(Append(frames, data)) = Len(frames) + 1
      /\ \A i \in 1 .. Len(frames) : Append(frames, data)[i] = frames[i]
      /\ Append(frames, data)[Len(frames) + 1] = data
  OBVIOUS
<1>2. Deciphered(frames) \in Seq(Seq(Int)) /\ Len(Deciphered(frames)) = Len(frames) /\ Xor(data) \in Seq(Int)
  BY DecipheredType, XorType
<1>3. \A i \in 1 .. Len(frames) : Append(Deciphered(frames), Xor(data))[i] = Xor(frames[i])
  BY <1>2 DEF Deciphered
<1> QED
  BY <1>1, <1>2, <1>3 DEF Deciphered

LEMMA DecipheredPop ==
  ASSUME NEW frames \in Seq(Seq(Int)), frames # << >>
  PROVE  /\ Deciphered(frames) # << >>
         /\ Head(Deciphered(frames)) = Xor(Head(frames))
         /\ Tail(Deciphered(frames)) = Deciphered(Tail(frames))
<1> DEFINE clear == Deciphered(frames)
           rest  == Deciphered(Tail(frames))
<1>1. clear \in Seq(Seq(Int)) /\ Len(clear) = Len(frames) /\ clear # << >>
  <2>1. Len(frames) # 0
    OBVIOUS
  <2> QED BY <2>1, DecipheredType
<1>2. Head(clear) = Xor(Head(frames))
  BY <1>1 DEF Deciphered
<1>3. /\ Tail(frames) \in Seq(Seq(Int)) /\ Len(Tail(frames)) = Len(frames) - 1
      /\ \A i \in 1 .. Len(Tail(frames)) : Tail(frames)[i] = frames[i + 1]
  BY HeadTailProperties
<1>4. rest \in Seq(Seq(Int)) /\ Len(rest) = Len(frames) - 1
  BY <1>3, DecipheredType
<1>5. \A i \in 1 .. Len(frames) - 1 : rest[i] = Xor(frames[i + 1])
  BY <1>3 DEF Deciphered
<1>6. \A i \in 1 .. Len(frames) - 1 : clear[i + 1] = Xor(frames[i + 1])
  BY DEF Deciphered
<1> HIDE DEF clear, rest
<1>7. /\ Tail(clear) \in Seq(Seq(Int)) /\ Len(Tail(clear)) = Len(clear) - 1
      /\ \A i \in 1 .. Len(Tail(clear)) : Tail(clear)[i] = clear[i + 1]
  BY <1>1, HeadTailProperties
<1>8. \A i \in 1 .. Len(Tail(clear)) : Tail(clear)[i] = rest[i]
  BY <1>1, <1>5, <1>6, <1>7
<1>9. Tail(clear) = rest
  BY <1>1, <1>4, <1>7, <1>8, SeqEqual
<1> QED
  BY <1>1, <1>2, <1>9 DEF clear, rest
-----------------------------------------------------------------------------
(***************************************************************************)
(* What is between the two ends of a relayed connection: as long as a      *)
(* direction can still deliver, everything sent is in one of its five      *)
(* places or has been lost at the sender's end of what is left.            *)
(***************************************************************************)
UpOpen == remote # "gone" /\ ~Over("recv_ws")
DownOpen == app # "gone" /\ ~Over("write")

\* Nothing the application sent is lost before it closes: what is not yet read
\* ends at appSent.
UpFlows ==
  UpOpen =>
    \E end \in 0 .. appSent :
      /\ Flow(remoteGot, held["recv_ws"], Deciphered(up), end)
      /\ link = "up" /\ ~Over("read") => Pending(Xor(held["read"]), appBuf, end, appSent)

\* A remote that is reset takes with it what was not read from it.
DownFlows ==
  DownOpen =>
    \E end, to \in 0 .. remoteSent :
      /\ Flow(appGot, held["write"], down, end)
      /\ link = "up" /\ ~Over("read_remote") =>
           Pending(held["read_remote"], remoteBuf, end, to) /\ (remote = "open" => to = remoteSent)

\* The server's tasks begin when the remote is connected.
Dialling == dial = "connecting" => \A t \in Server : task[t] = "waiting"

RelayInv == RelayTypeOK /\ Dialling /\ InOrder /\ UpFlows /\ DownFlows

\* A task that is over has nothing in hand to lose, and never begins again.
LEMMA OverStays ==
  ASSUME RelayTypeOK, Dialling, [RelayNext]_relayVars
  PROVE  Dialling' /\ \A t \in Client \cup Server : Over(t) => Over(t)'
<1> USE DEF Client, Server, Over, Idle, Busy
<1>1. CASE UNCHANGED <<dial, task>>
  BY <1>1 DEF Dialling
<1>2. ASSUME UNCHANGED dial,
             NEW t \in Client \cup Server, NEW how \in Outcomes, Finish(t, how), task[t] # "waiting"
      PROVE  Dialling' /\ \A u \in Client \cup Server : Over(u) => Over(u)'
  <2>1. task'[t] = how /\ \A u \in Client \cup Server : u # t => task'[u] = task[u]
    BY <1>2, FinishType
  <2> QED BY <1>2, <2>1 DEF Dialling, Outcomes
<1>3. CASE Read
  BY <1>1, <1>3 DEF Read, Hold
<1>4. CASE ReadEnds
  BY <1>2, <1>4 DEF ReadEnds, Outcomes
<1>5. CASE Send
  BY <1>1, <1>2, <1>5 DEF Send, SentIntoVoid, Hold, Outcomes
<1>6. CASE Receive \/ RecvWs \/ WriteRemote \/ ReadRemote
  BY <1>1, <1>6 DEF Receive, RecvWs, WriteRemote, ReadRemote, Hold
<1>7. CASE ReceiveEnds
  BY <1>2, <1>7 DEF ReceiveEnds, Outcomes
<1>8. CASE Deliver
  BY <1>1, <1>2, <1>8 DEF Deliver, Hold, Outcomes
<1>9. CASE Connect
  BY <1>9 DEF Connect, Dialling, RelayTypeOK
<1>10. CASE RecvWsEnds
  BY <1>2, <1>10 DEF RecvWsEnds, Outcomes
<1>11. CASE ReadRemoteFails
  BY <1>1, <1>11 DEF ReadRemoteFails, relay
<1>12. CASE ReadRemoteEnds
  BY <1>2, <1>12 DEF ReadRemoteEnds, Outcomes
<1>13. CASE SendBack
  BY <1>1, <1>2, <1>13 DEF SendBack, SentIntoVoid, Hold, Outcomes
<1>14. CASE Abort
  BY <1>2, <1>14 DEF Abort, Outcomes
<1>15. CASE AppWrites \/ AppLeaves \/ RemoteWrites \/ RemoteLeaves \/ Break \/ Notice
  BY <1>1, <1>15 DEF AppWrites, AppLeaves, RemoteWrites, RemoteLeaves, Break, Notice, relay
<1>16. CASE HostVanishes
  BY <1>16 DEF HostVanishes, Dialling, RelayTypeOK
<1>17. CASE UNCHANGED relayVars
  BY <1>1, <1>17 DEF relayVars, relay
<1> QED
  BY <1>3, <1>4, <1>5, <1>6, <1>7, <1>8, <1>9, <1>10, <1>11, <1>12, <1>13, <1>14, <1>15, <1>16, <1>17
     DEF RelayNext, ClientRelay, ServerRelay, Ends

\* A direction that is over stays so.
LEMMA NeverReopens ==
  ASSUME RelayTypeOK, Dialling, [RelayNext]_relayVars
  PROVE  (UpOpen' => UpOpen) /\ (DownOpen' => DownOpen)
<1>1. "recv_ws" \in Client \cup Server /\ "write" \in Client \cup Server
  BY DEF Client, Server
<1>2. (Over("recv_ws") => Over("recv_ws")') /\ (Over("write") => Over("write")')
  BY <1>1, OverStays
<1>3. (remote = "gone" => remote' = "gone") /\ (app = "gone" => app' = "gone")
  BY DEF RelayNext, relayVars, appVars, remoteVars, ClientRelay, ServerRelay, Ends, Read, ReadEnds, Send,
         Receive, ReceiveEnds, Deliver, Connect, RecvWs, RecvWsEnds, WriteRemote, ReadRemote,
         ReadRemoteFails, ReadRemoteEnds, SendBack, Abort, AppWrites, AppLeaves, RemoteWrites,
         RemoteLeaves, Break, Notice, HostVanishes
<1> QED
  BY <1>2, <1>3 DEF UpOpen, DownOpen

\* Who may change what has been sent and what has arrived.
LEMMA WhoSendsUp ==
  ASSUME [RelayNext]_relayVars
  PROVE  UNCHANGED <<appSent, remoteGot>> \/ AppWrites \/ WriteRemote
BY DEF RelayNext, relayVars, appVars, remoteVars, ClientRelay, ServerRelay, Ends, Read, ReadEnds, Send,
       Receive, ReceiveEnds, Deliver, Connect, RecvWs, RecvWsEnds, ReadRemote,
       ReadRemoteFails, ReadRemoteEnds, SendBack, Abort, AppLeaves, RemoteWrites,
       RemoteLeaves, Break, Notice, HostVanishes

LEMMA WhoSendsDown ==
  ASSUME [RelayNext]_relayVars
  PROVE  UNCHANGED <<remoteSent, appGot>> \/ RemoteWrites \/ Deliver
BY DEF RelayNext, relayVars, appVars, remoteVars, ClientRelay, ServerRelay, Ends, Read, ReadEnds, Send,
       Receive, ReceiveEnds, Connect, RecvWs, RecvWsEnds, WriteRemote, ReadRemote,
       ReadRemoteFails, ReadRemoteEnds, SendBack, Abort, AppWrites, AppLeaves,
       RemoteLeaves, Break, Notice, HostVanishes

-----------------------------------------------------------------------------
LEMMA UpUntouched ==
  ASSUME UpFlows, UNCHANGED appSent,
         UpOpen' => /\ UpOpen /\ UNCHANGED <<remoteGot, up>>
                    /\ held'["recv_ws"] = held["recv_ws"],
         link' = "up" /\ ~Over("read")' =>
           link = "up" /\ ~Over("read") /\ UNCHANGED appBuf /\ held'["read"] = held["read"]
  PROVE  UpFlows'
<1> SUFFICES ASSUME UpOpen' PROVE UpFlows'
  BY DEF UpFlows
<1>1. PICK end \in 0 .. appSent :
        /\ Flow(remoteGot, held["recv_ws"], Deciphered(up), end)
        /\ link = "up" /\ ~Over("read") => Pending(Xor(held["read"]), appBuf, end, appSent)
  BY DEF UpFlows
<1>2. Flow(remoteGot', held'["recv_ws"], Deciphered(up'), end)
  BY <1>1
<1>3. link' = "up" /\ ~Over("read")' => Pending(Xor(held'["read"]), appBuf', end, appSent')
  BY <1>1
<1> QED
  BY <1>2, <1>3 DEF UpFlows

LEMMA UpFlowsStep ==
  ASSUME RelayTypeOK, RelayTypeOK', Dialling, UpFlows, [RelayNext]_relayVars
  PROVE  UpFlows'
<1>1. /\ "recv_ws" \in Client \cup Server /\ "read" \in Client \cup Server
      /\ "read" # "recv_ws" /\ "recv_ws" # "read_remote" /\ "read" # "read_remote"
      /\ "write" # "recv_ws" /\ "read" # "write"
      /\ "write" \in Client \cup Server /\ "read_remote" \in Client \cup Server
  BY DEF Client, Server
<1>2. /\ (Over("recv_ws") => Over("recv_ws")') /\ (Over("read") => Over("read")')
      /\ (UpOpen' => UpOpen)
  BY <1>1, OverStays, NeverReopens
<1>3. /\ held["read"] \in Seq(Int) /\ held["recv_ws"] \in Seq(Int) /\ up \in Seq(Seq(Int))
      /\ Deciphered(up) \in Seq(Seq(Int)) /\ remoteGot \in Seq(Int) /\ appBuf \in Seq(Int)
      /\ Xor(held["read"]) \in Seq(Int) /\ appSent \in Nat
  <2>1. held["read"] \in Seq(Int) /\ held["recv_ws"] \in Seq(Int) /\ up \in Seq(Seq(Int))
    BY <1>1 DEF RelayTypeOK
  <2>2. appBuf \in Seq(1 .. MaxUp) /\ remoteGot \in Seq(Int) /\ appSent \in Nat
    BY DEF RelayTypeOK, Clear
  <2>3. appBuf \in Seq(Int)
    BY <2>2
  <2>4. Deciphered(up) \in Seq(Seq(Int)) /\ Xor(held["read"]) \in Seq(Int)
    BY <2>1, XorType, DecipheredType
  <2> QED BY <2>1, <2>2, <2>3, <2>4
<1>4. UpOpen => \E end \in 0 .. appSent :
         /\ end \in Nat
         /\ Flow(remoteGot, held["recv_ws"], Deciphered(up), end)
         /\ link = "up" /\ ~Over("read") => Pending(Xor(held["read"]), appBuf, end, appSent)
  BY DEF UpFlows
<1>5. \* Nothing of this direction changes.
      ASSUME UNCHANGED <<appSent, remoteGot, up, link, appBuf, held>>
      PROVE  UpFlows'
  BY <1>2, <1>5, UpUntouched
<1>6. \* A task of the other direction ends, or takes or gives something.
      ASSUME NEW t \in {"write", "read_remote"}, UNCHANGED <<appSent, remoteGot, up, link, appBuf>>,
             \A u \in Client \cup Server : u # t => held'[u] = held[u]
      PROVE  UpFlows'
  BY <1>1, <1>2, <1>6, UpUntouched
<1>7. \* One of this direction's tasks ends.
      ASSUME NEW t \in {"read", "recv_ws"}, UNCHANGED <<appSent, remoteGot, up, link, appBuf>>,
             Over(t)', \A u \in Client \cup Server : u # t => held'[u] = held[u]
      PROVE  UpFlows'
  BY <1>1, <1>2, <1>7, UpUntouched DEF UpOpen
<1>8. CASE Read
  <2> SUFFICES ASSUME UpOpen' PROVE UpFlows'
    BY DEF UpFlows
  <2>1. PICK n \in 1 .. Len(appBuf) :
          Hold("read", Xor(SubSeq(appBuf, 1, n))) /\ appBuf' = SubSeq(appBuf, n + 1, Len(appBuf))
    BY <1>8 DEF Read
  <2>2. PICK end \in 0 .. appSent :
         /\ end \in Nat
         /\ Flow(remoteGot, held["recv_ws"], Deciphered(up), end)
         /\ link = "up" /\ ~Over("read") => Pending(Xor(held["read"]), appBuf, end, appSent)
    BY <1>2, <1>4
  <2>3. UNCHANGED <<appSent, remoteGot, up, link, task>> /\ held["read"] = << >> /\ ~Over("read")
    BY <1>8, <2>1 DEF Read, remoteVars, net, wire, Idle, Over, Hold
  <2>4. held'["read"] = Xor(SubSeq(appBuf, 1, n)) /\ held'["recv_ws"] = held["recv_ws"]
    BY <1>1, <2>1 DEF Hold, RelayTypeOK
  <2>5. Xor(held'["read"]) = SubSeq(appBuf, 1, n)
    <3>1. SubSeq(appBuf, 1, n) \in Seq(Int)
      BY <1>3, SliceType
    <3> QED BY <2>4, <3>1, XorTwice
  <2>6. Xor(<< >>) = << >>
    BY DEF Xor
  <2>7. link = "up" => Pending(Xor(held'["read"]), appBuf', end, appSent)
    BY <1>3, <2>1, <2>2, <2>3, <2>5, <2>6, PendingRead
  <2>8. Flow(remoteGot', held'["recv_ws"], Deciphered(up'), end)
    BY <2>2, <2>3, <2>4
  <2> QED BY <2>3, <2>7, <2>8 DEF UpFlows
<1>9. CASE ReadEnds
  BY <1>1, <1>7, <1>9, FinishType DEF ReadEnds, Over, appVars, remoteVars, net, wire, Outcomes
<1>10. CASE Send
  <2>1. CASE link = "up" /\ up' = Append(up, held["read"]) /\ Hold("read", << >>)
    <3> SUFFICES ASSUME UpOpen' PROVE UpFlows'
      BY DEF UpFlows
    <3>1. UNCHANGED <<appSent, remoteGot, appBuf, link, task>> /\ ~Over("read")
      BY <1>10, <2>1 DEF Send, appVars, remoteVars, Busy, Over, Hold
    <3>2. PICK end \in 0 .. appSent :
           /\ end \in Nat
           /\ Flow(remoteGot, held["recv_ws"], Deciphered(up), end)
           /\ link = "up" /\ ~Over("read") => Pending(Xor(held["read"]), appBuf, end, appSent)
      BY <1>2, <1>4
    <3>3. held'["read"] = << >> /\ held'["recv_ws"] = held["recv_ws"]
      BY <1>1, <2>1 DEF Hold, RelayTypeOK
    <3> DEFINE data == Xor(held["read"])
    <3>4. /\ Run(data, end) /\ end + Len(data) \in 0 .. appSent
          /\ Pending(<< >>, appBuf, end + Len(data), appSent)
      BY <1>3, <2>1, <3>1, <3>2, PendingPasses
    <3>5. Deciphered(up') = Append(Deciphered(up), data)
      BY <1>3, <2>1, DecipheredPush
    <3>6. Flow(remoteGot, held["recv_ws"], Append(Deciphered(up), data), end + Len(data))
      BY <1>3, <3>2, <3>4, FlowPush
    <3>7. Xor(held'["read"]) = << >>
      BY <3>3 DEF Xor
    <3> HIDE DEF data
    <3>8. /\ Flow(remoteGot', held'["recv_ws"], Deciphered(up'), end + Len(data))
          /\ Pending(Xor(held'["read"]), appBuf', end + Len(data), appSent')
      BY <3>1, <3>3, <3>4, <3>5, <3>6, <3>7
    <3> QED BY <3>1, <3>4, <3>8 DEF UpFlows
  <2>2. CASE ServerOver
    BY <1>1, <1>2, <2>2 DEF ServerOver, Server, UpOpen, UpFlows
  <2>3. CASE Finish("read", "failed") /\ UNCHANGED up
    BY <1>1, <1>7, <1>10, <2>3, FinishType DEF Send, Over, appVars, remoteVars, Outcomes
  <2>4. CASE SentIntoVoid("read", "client") /\ UNCHANGED up
    <3>1. UNCHANGED <<appSent, remoteGot, up, link>> /\ link # "up" /\ held'["recv_ws"] = held["recv_ws"]
      BY <1>1, <1>10, <2>4 DEF Send, SentIntoVoid, Hold, appVars, remoteVars, RelayTypeOK
    <3> QED BY <1>2, <3>1, UpUntouched
  <2> QED BY <1>10, <2>1, <2>2, <2>3, <2>4 DEF Send
<1>11. CASE RecvWs
  <2> SUFFICES ASSUME UpOpen' PROVE UpFlows'
    BY DEF UpFlows
  <2>1. /\ UNCHANGED <<appSent, remoteGot, appBuf, link, task>>
        /\ up # << >> /\ up' = Tail(up) /\ held["recv_ws"] = << >> /\ Hold("recv_ws", Xor(Head(up)))
    BY <1>11 DEF RecvWs, appVars, remoteVars, wire, Idle, Hold
  <2>2. PICK end \in 0 .. appSent :
         /\ end \in Nat
         /\ Flow(remoteGot, held["recv_ws"], Deciphered(up), end)
         /\ link = "up" /\ ~Over("read") => Pending(Xor(held["read"]), appBuf, end, appSent)
    BY <1>2, <1>4
  <2>3. held'["recv_ws"] = Xor(Head(up)) /\ held'["read"] = held["read"]
    BY <1>1, <2>1 DEF Hold, RelayTypeOK
  <2>4. /\ Deciphered(up) # << >> /\ Head(Deciphered(up)) = Xor(Head(up))
        /\ Tail(Deciphered(up)) = Deciphered(up')
    BY <1>3, <2>1, DecipheredPop
  <2>5. Flow(remoteGot, << >>, Deciphered(up), end)
    BY <2>1, <2>2
  <2>6. Flow(remoteGot, Head(Deciphered(up)), Tail(Deciphered(up)), end)
    BY <1>3, <2>2, <2>4, <2>5, FlowPop
  <2>7. Flow(remoteGot', held'["recv_ws"], Deciphered(up'), end)
    BY <2>1, <2>3, <2>4, <2>6
  <2>8. link' = "up" /\ ~Over("read")' => Pending(Xor(held'["read"]), appBuf', end, appSent')
    BY <2>1, <2>2, <2>3 DEF Over
  <2> QED BY <2>1, <2>7, <2>8 DEF UpFlows
<1>12. CASE RecvWsEnds
  BY <1>1, <1>7, <1>12, FinishType DEF RecvWsEnds, Over, appVars, remoteVars, net, wire, Outcomes
<1>13. CASE WriteRemote
  <2> SUFFICES ASSUME UpOpen' PROVE UpFlows'
    BY DEF UpFlows
  <2>1. PICK n \in 1 .. Len(held["recv_ws"]) :
             /\ remoteGot' = remoteGot \o SubSeq(held["recv_ws"], 1, n)
             /\ Hold("recv_ws", SubSeq(held["recv_ws"], n + 1, Len(held["recv_ws"])))
    BY <1>2, <1>13 DEF WriteRemote, UpOpen
  <2>2. UNCHANGED <<appSent, appBuf, up, link, task>>
    BY <1>13, <2>1 DEF WriteRemote, appVars, net, wire, Hold
  <2>3. PICK end \in 0 .. appSent :
         /\ end \in Nat
         /\ Flow(remoteGot, held["recv_ws"], Deciphered(up), end)
         /\ link = "up" /\ ~Over("read") => Pending(Xor(held["read"]), appBuf, end, appSent)
    BY <1>2, <1>4
  <2>4. /\ held'["recv_ws"] = SubSeq(held["recv_ws"], n + 1, Len(held["recv_ws"]))
        /\ held'["read"] = held["read"]
    BY <1>1, <2>1 DEF Hold, RelayTypeOK
  <2>5. Flow(remoteGot', held'["recv_ws"], Deciphered(up), end)
    BY <1>3, <2>1, <2>3, <2>4, FlowWrite
  <2>6. link' = "up" /\ ~Over("read")' => Pending(Xor(held'["read"]), appBuf', end, appSent')
    BY <2>2, <2>3, <2>4 DEF Over
  <2> QED BY <2>2, <2>5, <2>6 DEF UpFlows
<1>14. CASE Receive \/ Deliver \/ ReadRemote \/ SendBack \/ ReceiveEnds \/ ReadRemoteEnds
  <2>1. \E t \in {"write", "read_remote"} : \A u \in Client \cup Server : u # t => held'[u] = held[u]
    BY <1>1, <1>14 DEF Receive, Deliver, ReadRemote, SendBack, ReceiveEnds, ReadRemoteEnds, SentIntoVoid, Hold, Finish, RelayTypeOK
  <2>2. UNCHANGED <<appSent, remoteGot, up, link, appBuf>>
    BY <1>14 DEF Receive, Deliver, ReadRemote, SendBack, ReceiveEnds, ReadRemoteEnds, appVars, remoteVars, net, wire
  <2> QED BY <1>6, <2>1, <2>2
<1>15. CASE Abort
  <2>1. PICK t \in Server : Finish(t, "aborted")
    BY <1>15 DEF Abort
  <2>2. Over(t)' /\ \A u \in Client \cup Server : u # t => held'[u] = held[u]
    BY <2>1, FinishType DEF Over, Outcomes
  <2>3. UNCHANGED <<appSent, remoteGot, up, link, appBuf>>
    BY <1>15 DEF Abort, appVars, remoteVars, net, wire
  <2>4. CASE t = "recv_ws"
    BY <1>7, <2>2, <2>3, <2>4
  <2>5. CASE t = "read_remote"
    BY <1>6, <2>2, <2>3, <2>5
  <2> QED BY <2>4, <2>5 DEF Server
<1>16. CASE AppWrites
  <2> SUFFICES ASSUME UpOpen' PROVE UpFlows'
    BY DEF UpFlows
  <2>1. /\ UNCHANGED <<remoteGot, up, link, held, task>>
        /\ appSent' = appSent + 1 /\ appBuf' = Append(appBuf, appSent + 1)
    BY <1>16 DEF AppWrites, remoteVars, net, wire, relay
  <2>2. PICK end \in 0 .. appSent :
         /\ end \in Nat
         /\ Flow(remoteGot, held["recv_ws"], Deciphered(up), end)
         /\ link = "up" /\ ~Over("read") => Pending(Xor(held["read"]), appBuf, end, appSent)
    BY <1>2, <1>4
  <2>3. link' = "up" /\ ~Over("read")' => Pending(Xor(held'["read"]), appBuf', end, appSent')
    BY <1>3, <2>1, <2>2, PendingGrows DEF Over
  <2>4. Flow(remoteGot', held'["recv_ws"], Deciphered(up'), end) /\ end \in 0 .. appSent'
    BY <1>3, <2>1, <2>2
  <2> QED BY <2>3, <2>4 DEF UpFlows
<1>17. CASE Break
  <2> SUFFICES ASSUME UpOpen' PROVE UpFlows'
    BY DEF UpFlows
  <2>1. UNCHANGED <<appSent, remoteGot, held>> /\ up' = << >> /\ link' # "up"
    BY <1>17 DEF Break, appVars, remoteVars, relay
  <2>2. PICK end \in 0 .. appSent :
         end \in Nat /\ Flow(remoteGot, held["recv_ws"], Deciphered(up), end)
    BY <1>2, <1>4
  <2> DEFINE there == Len(remoteGot) + Len(held["recv_ws"])
  <2>3. there \in 0 .. end /\ Flow(remoteGot, held["recv_ws"], << >>, there)
    BY <1>3, <2>2, FlowCut
  <2>4. Deciphered(up') = << >>
    BY <2>1 DEF Deciphered
  <2> HIDE DEF there
  <2>5. there \in 0 .. appSent' /\ Flow(remoteGot', held'["recv_ws"], Deciphered(up'), there)
    BY <1>3, <2>1, <2>2, <2>3, <2>4
  <2> QED BY <2>1, <2>5 DEF UpFlows
<1>18. CASE HostVanishes
  <2>1. ~UpOpen'
    BY <1>1, <1>18 DEF HostVanishes, UpOpen, Over, Server, RelayTypeOK
  <2> QED BY <2>1 DEF UpFlows
<1>19. CASE Connect \/ ReadRemoteFails \/ AppLeaves \/ RemoteWrites \/ RemoteLeaves \/ Notice \/ UNCHANGED relayVars
  <2>1. UNCHANGED <<appSent, remoteGot, up, link, appBuf, held>>
    BY <1>19 DEF Connect, ReadRemoteFails, AppLeaves, RemoteWrites, RemoteLeaves, Notice, relayVars, appVars,
                 remoteVars, net, wire, relay
  <2> QED BY <1>5, <2>1
<1> QED
  BY <1>8, <1>9, <1>10, <1>11, <1>12, <1>13, <1>14, <1>15, <1>16, <1>17, <1>18, <1>19
     DEF RelayNext, ClientRelay, ServerRelay, Ends

-----------------------------------------------------------------------------
LEMMA DownUntouched ==
  ASSUME DownFlows, UNCHANGED remoteSent, remote' = "open" => remote = "open",
         DownOpen' => /\ DownOpen /\ UNCHANGED <<appGot, down>>
                      /\ held'["write"] = held["write"],
         link' = "up" /\ ~Over("read_remote")' =>
           /\ link = "up" /\ ~Over("read_remote") /\ UNCHANGED remoteBuf
           /\ held'["read_remote"] = held["read_remote"]
  PROVE  DownFlows'
<1> SUFFICES ASSUME DownOpen' PROVE DownFlows'
  BY DEF DownFlows
<1>1. PICK end \in 0 .. remoteSent, to \in 0 .. remoteSent :
        /\ Flow(appGot, held["write"], down, end)
        /\ link = "up" /\ ~Over("read_remote") =>
             Pending(held["read_remote"], remoteBuf, end, to) /\ (remote = "open" => to = remoteSent)
  BY DEF DownFlows
<1>2. Flow(appGot', held'["write"], down', end)
  BY <1>1
<1>3. link' = "up" /\ ~Over("read_remote")' =>
        Pending(held'["read_remote"], remoteBuf', end, to) /\ (remote' = "open" => to = remoteSent')
  BY <1>1
<1> QED
  BY <1>2, <1>3 DEF DownFlows

LEMMA DownFlowsStep ==
  ASSUME RelayTypeOK, RelayTypeOK', Dialling, DownFlows, [RelayNext]_relayVars
  PROVE  DownFlows'
<1>1. /\ "write" \in Client \cup Server /\ "read_remote" \in Client \cup Server
      /\ "write" # "read_remote" /\ "write" # "recv_ws" /\ "read" # "read_remote"
      /\ "recv_ws" # "read_remote" /\ "read" # "write"
      /\ "read" \in Client \cup Server /\ "recv_ws" \in Client \cup Server
  BY DEF Client, Server
<1>2. /\ (Over("write") => Over("write")') /\ (Over("read_remote") => Over("read_remote")')
      /\ (DownOpen' => DownOpen)
  BY <1>1, OverStays, NeverReopens
<1>3. /\ held["read_remote"] \in Seq(Int) /\ held["write"] \in Seq(Int) /\ down \in Seq(Seq(Int))
      /\ appGot \in Seq(Int) /\ remoteBuf \in Seq(Int) /\ remoteSent \in Nat
  <2>1. /\ held["read_remote"] \in Seq(Int) /\ held["write"] \in Seq(Int) /\ appGot \in Seq(Int)
        /\ remoteSent \in Nat
    BY <1>1 DEF RelayTypeOK
  <2>2. remoteBuf \in Clear(MaxDown) /\ down \in Seq(Clear(MaxDown))
    BY DEF RelayTypeOK
  <2>3. remoteBuf \in Seq(Int) /\ Clear(MaxDown) \subseteq Seq(Int)
    BY <2>2 DEF Clear
  <2>4. down \in Seq(Seq(Int))
    BY <2>2, <2>3, SeqMonotonic
  <2> QED BY <2>1, <2>3, <2>4
<1>4. DownOpen => \E end \in 0 .. remoteSent, to \in 0 .. remoteSent :
         /\ end \in Nat /\ to \in Nat
         /\ Flow(appGot, held["write"], down, end)
         /\ link = "up" /\ ~Over("read_remote") =>
              Pending(held["read_remote"], remoteBuf, end, to) /\ (remote = "open" => to = remoteSent)
  BY DEF DownFlows
<1>5. \* Nothing of this direction changes.
      ASSUME UNCHANGED <<remoteSent, appGot, down, link, remoteBuf, held>>, remote' = "open" => remote = "open"
      PROVE  DownFlows'
  BY <1>2, <1>5, DownUntouched
<1>6. \* A task of the other direction ends, or takes or gives something.
      ASSUME NEW t \in {"read", "recv_ws"}, UNCHANGED <<remote, remoteSent, appGot, down, link, remoteBuf>>,
             \A u \in Client \cup Server : u # t => held'[u] = held[u]
      PROVE  DownFlows'
  BY <1>1, <1>2, <1>6, DownUntouched
<1>7. \* One of this direction's tasks ends.
      ASSUME NEW t \in {"write", "read_remote"}, UNCHANGED <<remote, remoteSent, appGot, link, remoteBuf>>,
             t = "read_remote" => UNCHANGED down,
             Over(t)', \A u \in Client \cup Server : u # t => held'[u] = held[u]
      PROVE  DownFlows'
  BY <1>1, <1>2, <1>7, DownUntouched DEF DownOpen
<1>8. CASE ReadRemote
  <2> SUFFICES ASSUME DownOpen' PROVE DownFlows'
    BY DEF DownFlows
  <2>1. PICK n \in 1 .. Len(remoteBuf) :
          /\ Hold("read_remote", SubSeq(remoteBuf, 1, n))
          /\ remoteBuf' = SubSeq(remoteBuf, n + 1, Len(remoteBuf))
    BY <1>8 DEF ReadRemote
  <2>2. PICK end \in 0 .. remoteSent, to \in 0 .. remoteSent :
         /\ end \in Nat /\ to \in Nat
         /\ Flow(appGot, held["write"], down, end)
         /\ link = "up" /\ ~Over("read_remote") =>
              Pending(held["read_remote"], remoteBuf, end, to) /\ (remote = "open" => to = remoteSent)
    BY <1>2, <1>4
  <2>3. /\ UNCHANGED <<remote, remoteSent, appGot, down, link, task>>
        /\ held["read_remote"] = << >> /\ ~Over("read_remote")
    BY <1>8, <2>1 DEF ReadRemote, appVars, net, wire, Idle, Over, Hold
  <2>4. held'["read_remote"] = SubSeq(remoteBuf, 1, n) /\ held'["write"] = held["write"]
    BY <1>1, <2>1 DEF Hold, RelayTypeOK
  <2>5. link = "up" => Pending(held'["read_remote"], remoteBuf', end, to)
    BY <1>3, <2>1, <2>2, <2>3, <2>4, PendingRead
  <2>6. Flow(appGot', held'["write"], down', end)
    BY <2>2, <2>3, <2>4
  <2> QED BY <2>2, <2>3, <2>5, <2>6 DEF DownFlows
<1>9. CASE ReadRemoteFails
  <2> SUFFICES ASSUME DownOpen' PROVE DownFlows'
    BY DEF DownFlows
  <2>1. /\ UNCHANGED <<remote, remoteSent, appGot, down, link, held, task>>
        /\ remote = "gone" /\ remoteBuf' = << >> /\ ~Over("read_remote")
    BY <1>9 DEF ReadRemoteFails, appVars, net, wire, relay, Idle, Over
  <2>2. PICK end \in 0 .. remoteSent, to \in 0 .. remoteSent :
         /\ end \in Nat /\ to \in Nat
         /\ Flow(appGot, held["write"], down, end)
         /\ link = "up" /\ ~Over("read_remote") =>
              Pending(held["read_remote"], remoteBuf, end, to) /\ (remote = "open" => to = remoteSent)
    BY <1>2, <1>4
  <2>3. CASE link = "up"
    <3>1. /\ end + Len(held["read_remote"]) \in 0 .. to
          /\ Pending(held["read_remote"], << >>, end, end + Len(held["read_remote"]))
      BY <1>3, <2>1, <2>2, <2>3, PendingLoses
    <3>2. end + Len(held["read_remote"]) \in 0 .. remoteSent'
      BY <1>3, <2>1, <2>2, <3>1
    <3>3. /\ Flow(appGot', held'["write"], down', end) /\ remote' # "open" /\ end \in 0 .. remoteSent'
          /\ Pending(held'["read_remote"], remoteBuf', end, end + Len(held["read_remote"]))
      BY <2>1, <2>2, <3>1
    <3> QED BY <3>2, <3>3 DEF DownFlows
  <2>4. CASE link # "up"
    BY <2>1, <2>2, <2>4 DEF DownFlows
  <2> QED BY <2>3, <2>4
<1>10. CASE ReadRemoteEnds
  <2>1. /\ UNCHANGED <<remote, remoteSent, appGot, link, remoteBuf>> /\ Over("read_remote")'
        /\ \A u \in Client \cup Server : u # "read_remote" => held'[u] = held[u]
    BY <1>1, <1>10, FinishType DEF ReadRemoteEnds, Over, appVars, remoteVars, wire, Outcomes
  <2>2. CASE UNCHANGED down
    BY <1>7, <2>1, <2>2
  <2>3. CASE down' = Append(down, Close)
    <3> SUFFICES ASSUME DownOpen' PROVE DownFlows'
      BY DEF DownFlows
    <3>1. PICK end \in 0 .. remoteSent : end \in Nat /\ Flow(appGot, held["write"], down, end)
      BY <1>2, <1>4
    <3>2. << >> \in Seq(Int) /\ Run(<< >>, end) /\ end + Len(<< >>) = end
      BY <3>1 DEF Run
    <3>3. Flow(appGot, held["write"], Append(down, << >>), end)
      BY <1>3, <3>1, <3>2, FlowPush
    <3>4. Flow(appGot', held'["write"], down', end) /\ end \in 0 .. remoteSent'
      BY <1>1, <2>1, <2>3, <3>1, <3>3 DEF Close
    <3> QED BY <2>1, <3>4 DEF DownFlows
  <2> QED BY <1>10, <2>2, <2>3 DEF ReadRemoteEnds
<1>11. CASE SendBack
  <2>1. CASE link = "up" /\ down' = Append(down, held["read_remote"]) /\ Hold("read_remote", << >>)
    <3> SUFFICES ASSUME DownOpen' PROVE DownFlows'
      BY DEF DownFlows
    <3>1. UNCHANGED <<remote, remoteSent, appGot, remoteBuf, link, task>> /\ ~Over("read_remote")
      BY <1>11, <2>1 DEF SendBack, appVars, remoteVars, Busy, Over, Hold
    <3>2. PICK end \in 0 .. remoteSent, to \in 0 .. remoteSent :
           /\ end \in Nat /\ to \in Nat
           /\ Flow(appGot, held["write"], down, end)
           /\ link = "up" /\ ~Over("read_remote") =>
                Pending(held["read_remote"], remoteBuf, end, to) /\ (remote = "open" => to = remoteSent)
      BY <1>2, <1>4
    <3>3. held'["read_remote"] = << >> /\ held'["write"] = held["write"]
      BY <1>1, <2>1 DEF Hold, RelayTypeOK
    <3> DEFINE data == held["read_remote"]
    <3>4. /\ Run(data, end) /\ end + Len(data) \in 0 .. to
          /\ Pending(<< >>, remoteBuf, end + Len(data), to)
      BY <1>3, <2>1, <3>1, <3>2, PendingPasses
    <3>5. Flow(appGot, held["write"], Append(down, data), end + Len(data))
      BY <1>3, <3>2, <3>4, FlowPush
    <3>6. /\ Flow(appGot', held'["write"], down', end + Len(data))
          /\ Pending(held'["read_remote"], remoteBuf', end + Len(data), to)
          /\ remote' = "open" => to = remoteSent'
      BY <2>1, <3>1, <3>2, <3>3, <3>4, <3>5
    <3> HIDE DEF data
    <3>7. end + Len(data) \in 0 .. remoteSent' /\ to \in 0 .. remoteSent'
      BY <1>3, <3>1, <3>2, <3>4
    <3> QED BY <3>6, <3>7 DEF DownFlows
  <2>2. CASE ClientOver
    BY <1>1, <1>2, <2>2 DEF ClientOver, Client, DownOpen, DownFlows
  <2>3. CASE Finish("read_remote", "failed") /\ UNCHANGED down
    BY <1>1, <1>7, <1>11, <2>3, FinishType DEF SendBack, Over, appVars, remoteVars, Outcomes
  <2>4. CASE SentIntoVoid("read_remote", "server") /\ UNCHANGED down
    <3>1. /\ UNCHANGED <<remote, remoteSent, appGot, down, link>> /\ link # "up"
          /\ held'["write"] = held["write"]
      BY <1>1, <1>11, <2>4 DEF SendBack, SentIntoVoid, Hold, appVars, remoteVars, RelayTypeOK
    <3> QED BY <1>2, <3>1, DownUntouched
  <2> QED BY <1>11, <2>1, <2>2, <2>3, <2>4 DEF SendBack
<1>12. CASE Receive
  <2> SUFFICES ASSUME DownOpen' PROVE DownFlows'
    BY DEF DownFlows
  <2>1. /\ UNCHANGED <<remote, remoteSent, appGot, remoteBuf, link, task>>
        /\ down # << >> /\ down' = Tail(down) /\ held["write"] = << >> /\ Hold("write", Head(down))
    BY <1>12 DEF Receive, appVars, remoteVars, wire, Idle, Hold
  <2>2. PICK end \in 0 .. remoteSent, to \in 0 .. remoteSent :
         /\ end \in Nat /\ to \in Nat
         /\ Flow(appGot, held["write"], down, end)
         /\ link = "up" /\ ~Over("read_remote") =>
              Pending(held["read_remote"], remoteBuf, end, to) /\ (remote = "open" => to = remoteSent)
    BY <1>2, <1>4
  <2>3. held'["write"] = Head(down) /\ held'["read_remote"] = held["read_remote"]
    BY <1>1, <2>1 DEF Hold, RelayTypeOK
  <2>4. Flow(appGot, << >>, down, end)
    BY <2>1, <2>2
  <2>5. Flow(appGot, Head(down), Tail(down), end)
    BY <1>3, <2>1, <2>2, <2>4, FlowPop
  <2>6. Flow(appGot', held'["write"], down', end)
    BY <2>1, <2>3, <2>5
  <2>7. link' = "up" /\ ~Over("read_remote")' =>
          Pending(held'["read_remote"], remoteBuf', end, to) /\ (remote' = "open" => to = remoteSent')
    BY <2>1, <2>2, <2>3 DEF Over
  <2> QED BY <2>1, <2>6, <2>7 DEF DownFlows
<1>13. CASE ReceiveEnds
  BY <1>1, <1>7, <1>13, FinishType DEF ReceiveEnds, Over, appVars, remoteVars, wire, Outcomes
<1>14. CASE Deliver
  <2>1. CASE Finish("write", "failed")
    BY <1>1, <1>2, <1>14, <2>1, FinishType DEF Over, Outcomes, DownOpen, DownFlows
  <2>2. CASE app = "gone"
    BY <1>2, <2>2 DEF DownOpen, DownFlows
  <2>3. ASSUME NEW n \in 1 .. Len(held["write"]), appGot' = appGot \o SubSeq(held["write"], 1, n),
               Hold("write", SubSeq(held["write"], n + 1, Len(held["write"])))
        PROVE  DownFlows'
    <3> SUFFICES ASSUME DownOpen' PROVE DownFlows'
      BY DEF DownFlows
    <3>1. UNCHANGED <<remote, remoteSent, remoteBuf, down, link, task>>
      BY <1>14, <2>3 DEF Deliver, remoteVars, net, wire, Hold
    <3>2. PICK end \in 0 .. remoteSent, to \in 0 .. remoteSent :
           /\ end \in Nat /\ to \in Nat
           /\ Flow(appGot, held["write"], down, end)
           /\ link = "up" /\ ~Over("read_remote") =>
                Pending(held["read_remote"], remoteBuf, end, to) /\ (remote = "open" => to = remoteSent)
      BY <1>2, <1>4
    <3>3. /\ held'["write"] = SubSeq(held["write"], n + 1, Len(held["write"]))
          /\ held'["read_remote"] = held["read_remote"]
      BY <1>1, <2>3 DEF Hold, RelayTypeOK
    <3>4. Flow(appGot', held'["write"], down, end)
      BY <1>3, <2>3, <3>2, <3>3, FlowWrite
    <3>5. link' = "up" /\ ~Over("read_remote")' =>
            Pending(held'["read_remote"], remoteBuf', end, to) /\ (remote' = "open" => to = remoteSent')
      BY <3>1, <3>2, <3>3 DEF Over
    <3> QED BY <3>1, <3>4, <3>5 DEF DownFlows
  <2> QED BY <1>14, <2>1, <2>2, <2>3 DEF Deliver
<1>15. CASE Read \/ ReadEnds \/ Send \/ RecvWs \/ RecvWsEnds \/ WriteRemote
  <2>1. \E t \in {"read", "recv_ws"} : \A u \in Client \cup Server : u # t => held'[u] = held[u]
    BY <1>1, <1>15 DEF Read, ReadEnds, Send, RecvWs, RecvWsEnds, WriteRemote, SentIntoVoid, Hold, Finish, RelayTypeOK
  <2>2. UNCHANGED <<remote, remoteSent, appGot, down, link, remoteBuf>>
    BY <1>15 DEF Read, ReadEnds, Send, RecvWs, RecvWsEnds, WriteRemote, appVars, remoteVars, net, wire
  <2> QED BY <1>6, <2>1, <2>2
<1>16. CASE Abort
  <2>1. PICK t \in Server : Finish(t, "aborted")
    BY <1>16 DEF Abort
  <2>2. Over(t)' /\ \A u \in Client \cup Server : u # t => held'[u] = held[u]
    BY <2>1, FinishType DEF Over, Outcomes
  <2>3. UNCHANGED <<remote, remoteSent, appGot, down, link, remoteBuf>>
    BY <1>16 DEF Abort, appVars, remoteVars, net, wire
  <2>4. CASE t = "recv_ws"
    BY <1>6, <2>2, <2>3, <2>4
  <2>5. CASE t = "read_remote"
    BY <1>7, <2>2, <2>3, <2>5
  <2> QED BY <2>4, <2>5 DEF Server
<1>17. CASE RemoteWrites
  <2> SUFFICES ASSUME DownOpen' PROVE DownFlows'
    BY DEF DownFlows
  <2>1. /\ UNCHANGED <<remote, appGot, down, link, held, task>> /\ remote = "open"
        /\ remoteSent' = remoteSent + 1 /\ remoteBuf' = Append(remoteBuf, remoteSent + 1)
    BY <1>17 DEF RemoteWrites, appVars, net, wire, relay
  <2>2. PICK end \in 0 .. remoteSent, to \in 0 .. remoteSent :
         /\ end \in Nat /\ to \in Nat
         /\ Flow(appGot, held["write"], down, end)
         /\ link = "up" /\ ~Over("read_remote") =>
              Pending(held["read_remote"], remoteBuf, end, to) /\ (remote = "open" => to = remoteSent)
    BY <1>2, <1>4
  <2>3. link' = "up" /\ ~Over("read_remote")' => Pending(held'["read_remote"], remoteBuf', end, remoteSent')
    BY <1>3, <2>1, <2>2, PendingGrows DEF Over
  <2>4. /\ Flow(appGot', held'["write"], down', end) /\ end \in 0 .. remoteSent'
        /\ remoteSent' \in 0 .. remoteSent'
    BY <1>3, <2>1, <2>2
  <2> QED BY <2>3, <2>4 DEF DownFlows
<1>18. CASE Break
  <2> SUFFICES ASSUME DownOpen' PROVE DownFlows'
    BY DEF DownFlows
  <2>1. UNCHANGED <<remoteSent, appGot, held>> /\ down' = << >> /\ link' # "up"
    BY <1>18 DEF Break, appVars, remoteVars, relay
  <2>2. PICK end \in 0 .. remoteSent : end \in Nat /\ Flow(appGot, held["write"], down, end)
    BY <1>2, <1>4
  <2> DEFINE there == Len(appGot) + Len(held["write"])
  <2>3. there \in 0 .. end /\ Flow(appGot, held["write"], << >>, there)
    BY <1>3, <2>2, FlowCut
  <2> HIDE DEF there
  <2>4. there \in 0 .. remoteSent' /\ Flow(appGot', held'["write"], down', there)
    BY <1>3, <2>1, <2>2, <2>3
  <2> QED BY <2>1, <2>4 DEF DownFlows
<1>19. CASE HostVanishes
  <2> SUFFICES ASSUME DownOpen' PROVE DownFlows'
    BY DEF DownFlows
  <2>1. UNCHANGED <<remoteSent, appGot>> /\ held'["write"] = held["write"] /\ down' = << >> /\ link' # "up"
    BY <1>1, <1>19 DEF HostVanishes, appVars, remoteVars, RelayTypeOK, Server
  <2>2. PICK end \in 0 .. remoteSent : end \in Nat /\ Flow(appGot, held["write"], down, end)
    BY <1>2, <1>4
  <2> DEFINE there == Len(appGot) + Len(held["write"])
  <2>3. there \in 0 .. end /\ Flow(appGot, held["write"], << >>, there)
    BY <1>3, <2>2, FlowCut
  <2> HIDE DEF there
  <2>4. there \in 0 .. remoteSent' /\ Flow(appGot', held'["write"], down', there)
    BY <1>3, <2>1, <2>2, <2>3
  <2> QED BY <2>1, <2>4 DEF DownFlows
<1>20. CASE Connect \/ AppWrites \/ AppLeaves \/ RemoteLeaves \/ Notice \/ UNCHANGED relayVars
  <2>1. UNCHANGED <<remoteSent, appGot, down, link, remoteBuf, held>> /\ (remote' = "open" => remote = "open")
    BY <1>20 DEF Connect, AppWrites, AppLeaves, RemoteLeaves, Notice, relayVars, appVars, remoteVars, net, wire, relay
  <2> QED BY <1>5, <2>1
<1> QED
  BY <1>8, <1>9, <1>10, <1>11, <1>12, <1>13, <1>14, <1>15, <1>16, <1>17, <1>18, <1>19, <1>20
     DEF RelayNext, ClientRelay, ServerRelay, Ends

-----------------------------------------------------------------------------
\* The next bytes of a direction, in one lot.
LEMMA PrefixGrows ==
  ASSUME NEW got \in Seq(Int), NEW sent \in Nat, Prefix(got, sent), NEW n \in Nat, Len(got) + n <= sent
  PROVE  Prefix(got \o Following(Len(got), n), sent)
<1> DEFINE next == Following(Len(got), n)
<1>1. next \in Seq(Int) /\ Len(next) = n /\ \A i \in 1 .. n : next[i] = Len(got) + i
  BY DEF Following
<1> HIDE DEF next
<1>2. /\ Len(got \o next) = Len(got) + n
      /\ \A i \in 1 .. Len(got) + n : (got \o next)[i] = IF i <= Len(got) THEN got[i] ELSE next[i - Len(got)]
  BY <1>1, ConcatProperties
<1>3. ASSUME NEW i \in 1 .. Len(got) + n PROVE (got \o next)[i] = i
  <2>1. CASE i <= Len(got)
    BY <1>2, <2>1 DEF Prefix
  <2>2. CASE ~(i <= Len(got))
    <3>1. i - Len(got) \in 1 .. n /\ Len(got) + (i - Len(got)) = i
      BY <2>2
    <3> QED BY <1>1, <1>2, <2>2, <3>1
  <2> QED BY <2>1, <2>2
<1>4. Prefix(got \o next, sent)
  BY <1>2, <1>3 DEF Prefix
<1> QED BY <1>4 DEF next

\* A write to the remote is the arrival of the next bytes, all of them sent.
LEMMA WriteArrives ==
  ASSUME RelayTypeOK, UpFlows, WriteRemote
  PROVE  \/ UNCHANGED <<appSent, remoteGot>>
         \/ /\ UpOpen /\ UNCHANGED appSent
            /\ \E n \in 1 .. appSent - Len(remoteGot) :
                 remoteGot' = remoteGot \o Following(Len(remoteGot), n)
<1>1. UNCHANGED appSent
  BY DEF WriteRemote, appVars
<1>2. CASE UNCHANGED remoteGot
  BY <1>1, <1>2
<1>3. CASE remote # "gone" /\ \E n \in 1 .. Len(held["recv_ws"]) :
             remoteGot' = remoteGot \o SubSeq(held["recv_ws"], 1, n)
  <2>1. PICK n \in 1 .. Len(held["recv_ws"]) : remoteGot' = remoteGot \o SubSeq(held["recv_ws"], 1, n)
    BY <1>3
  <2>2. UpOpen
    BY <1>3 DEF UpOpen, WriteRemote, Busy, Over
  <2>3. PICK end \in 0 .. appSent : Flow(remoteGot, held["recv_ws"], Deciphered(up), end)
    BY <2>2 DEF UpFlows
  <2>4. /\ remoteGot \in Seq(Int) /\ held["recv_ws"] \in Seq(Int) /\ Deciphered(up) \in Seq(Seq(Int))
        /\ appSent \in Nat /\ end \in Nat
    BY DecipheredType DEF RelayTypeOK, Client, Server
  <2>5. /\ SubSeq(held["recv_ws"], 1, n) = Following(Len(remoteGot), n)
        /\ Len(remoteGot) + n <= end
    BY <2>3, <2>4, WriteFollows
  <2>6. n \in 1 .. appSent - Len(remoteGot)
    BY <2>4, <2>5
  <2> QED BY <1>1, <2>1, <2>2, <2>5, <2>6
<1> QED BY <1>2, <1>3 DEF WriteRemote

\* The same of a write to the application.
LEMMA DeliverArrives ==
  ASSUME RelayTypeOK, DownFlows, Deliver
  PROVE  \/ UNCHANGED <<remoteSent, appGot>>
         \/ /\ DownOpen /\ UNCHANGED <<remoteSent, app, task>>
            /\ \E n \in 1 .. remoteSent - Len(appGot) :
                 appGot' = appGot \o Following(Len(appGot), n)
<1>1. UNCHANGED <<remoteSent, app>>
  BY DEF Deliver, remoteVars
<1>2. CASE UNCHANGED appGot
  BY <1>1, <1>2
<1>3. CASE app # "gone" /\ \E n \in 1 .. Len(held["write"]) :
             /\ appGot' = appGot \o SubSeq(held["write"], 1, n)
             /\ Hold("write", SubSeq(held["write"], n + 1, Len(held["write"])))
  <2>1. PICK n \in 1 .. Len(held["write"]) : appGot' = appGot \o SubSeq(held["write"], 1, n)
    BY <1>3
  <2>2. DownOpen /\ UNCHANGED task
    BY <1>3 DEF DownOpen, Deliver, Busy, Over, Hold
  <2>3. PICK end \in 0 .. remoteSent : Flow(appGot, held["write"], down, end)
    BY <2>2 DEF DownFlows
  <2>4. /\ appGot \in Seq(Int) /\ held["write"] \in Seq(Int) /\ remoteSent \in Nat /\ end \in Nat
    BY DEF RelayTypeOK, Client, Server
  <2>5. down \in Seq(Seq(Int))
    <3>1. down \in Seq(Clear(MaxDown)) /\ Clear(MaxDown) \subseteq Seq(Int)
      BY DEF RelayTypeOK, Clear
    <3> QED BY <3>1, SeqMonotonic
  <2>6. /\ SubSeq(held["write"], 1, n) = Following(Len(appGot), n)
        /\ Len(appGot) + n <= end
    BY <2>3, <2>4, <2>5, WriteFollows
  <2>7. n \in 1 .. remoteSent - Len(appGot)
    BY <2>4, <2>6
  <2> QED BY <1>1, <2>1, <2>2, <2>6, <2>7
<1> QED BY <1>2, <1>3 DEF Deliver

LEMMA InOrderStep ==
  ASSUME RelayTypeOK, InOrder, UpFlows, DownFlows, [RelayNext]_relayVars
  PROVE  InOrder'
<1>1. remoteGot \in Seq(Int) /\ appGot \in Seq(Int) /\ appSent \in Nat /\ remoteSent \in Nat
  BY DEF RelayTypeOK
<1>2. Prefix(remoteGot', appSent')
  <2>1. CASE UNCHANGED <<appSent, remoteGot>>
    BY <2>1 DEF InOrder
  <2>2. CASE AppWrites
    BY <1>1, <2>2 DEF AppWrites, remoteVars, InOrder, Prefix
  <2>3. CASE WriteRemote
    <3> SUFFICES ASSUME ~UNCHANGED <<appSent, remoteGot>> PROVE Prefix(remoteGot', appSent')
      BY <2>1
    <3>1. UNCHANGED appSent /\ \E n \in 1 .. appSent - Len(remoteGot) :
             remoteGot' = remoteGot \o Following(Len(remoteGot), n)
      BY <2>3, WriteArrives
    <3>2. PICK n \in 1 .. appSent - Len(remoteGot) : remoteGot' = remoteGot \o Following(Len(remoteGot), n)
      BY <3>1
    <3>3. n \in Nat /\ Len(remoteGot) + n <= appSent /\ Prefix(remoteGot, appSent)
      BY <1>1 DEF InOrder
    <3>4. Prefix(remoteGot \o Following(Len(remoteGot), n), appSent)
      BY <1>1, <3>3, PrefixGrows
    <3> QED BY <3>1, <3>2, <3>4
  <2> QED BY <2>1, <2>2, <2>3, WhoSendsUp
<1>3. Prefix(appGot', remoteSent')
  <2>1. CASE UNCHANGED <<remoteSent, appGot>>
    BY <2>1 DEF InOrder
  <2>2. CASE RemoteWrites
    BY <1>1, <2>2 DEF RemoteWrites, appVars, InOrder, Prefix
  <2>3. CASE Deliver
    <3> SUFFICES ASSUME ~UNCHANGED <<remoteSent, appGot>> PROVE Prefix(appGot', remoteSent')
      BY <2>1
    <3>1. UNCHANGED remoteSent /\ \E n \in 1 .. remoteSent - Len(appGot) :
             appGot' = appGot \o Following(Len(appGot), n)
      BY <2>3, DeliverArrives
    <3>2. PICK n \in 1 .. remoteSent - Len(appGot) : appGot' = appGot \o Following(Len(appGot), n)
      BY <3>1
    <3>3. n \in Nat /\ Len(appGot) + n <= remoteSent /\ Prefix(appGot, remoteSent)
      BY <1>1 DEF InOrder
    <3>4. Prefix(appGot \o Following(Len(appGot), n), remoteSent)
      BY <1>1, <3>3, PrefixGrows
    <3> QED BY <3>1, <3>2, <3>4
  <2> QED BY <2>1, <2>2, <2>3, WhoSendsDown
<1> QED BY <1>2, <1>3 DEF InOrder

LEMMA RelayInitInv == RelayInit => RelayInv
<1> SUFFICES ASSUME RelayInit PROVE RelayInv
  OBVIOUS
<1> USE DEF RelayInit
<1>1. RelayTypeOK
  BY DEF RelayTypeOK, Clear, Client, Server
<1>2. Dialling /\ InOrder
  BY DEF Dialling, InOrder, Prefix, Client, Server
<1>3. \A to \in Nat : Run(<< >>, to) /\ Pending(<< >>, << >>, to, to) /\ Framed(<< >>, to, to)
  BY EmptyFramed DEF Run, Pending
<1>4. Deciphered(<< >>) = << >> /\ Xor(<< >>) = << >>
  BY DEF Deciphered, Xor
<1>5. held["recv_ws"] = << >> /\ held["read"] = << >> /\ held["write"] = << >> /\ held["read_remote"] = << >>
  BY DEF Client, Server
<1>6. Flow(<< >>, << >>, << >>, 0)
  BY <1>3 DEF Flow
<1>7. UpFlows
  BY <1>3, <1>4, <1>5, <1>6 DEF UpFlows
<1>8. DownFlows
  BY <1>3, <1>5, <1>6 DEF DownFlows
<1> QED BY <1>1, <1>2, <1>7, <1>8 DEF RelayInv

LEMMA RelayInvStep == RelayInv /\ [RelayNext]_relayVars => RelayInv'
<1> SUFFICES ASSUME RelayInv, [RelayNext]_relayVars PROVE RelayInv'
  OBVIOUS
<1>1. RelayTypeOK'
  BY RelayTypeStep DEF RelayInv
<1>2. Dialling' /\ InOrder' /\ UpFlows' /\ DownFlows'
  BY <1>1, OverStays, InOrderStep, UpFlowsStep, DownFlowsStep DEF RelayInv
<1> QED BY <1>1, <1>2 DEF RelayInv

LEMMA RelayAlways == RelaySpec => []RelayInv
BY RelayInitInv, RelayInvStep, PTL DEF RelaySpec

\* The two halves of a connection, their tasks and the frames between them are as
\* RelayTypeOK says, whatever the sizes.
THEOREM RelayTypes == RelaySpec => []RelayTypeOK
<1>1. RelayInv => RelayTypeOK
  BY DEF RelayInv
<1> QED BY <1>1, RelayAlways, PTL

\* Each end receives a prefix of what the other sent, however the stream is cut
\* into frames and whoever leaves, aborts or vanishes when.
THEOREM RelayInOrder == RelaySpec => []InOrder
<1>1. RelayInv => InOrder
  BY DEF RelayInv
<1> QED BY <1>1, RelayAlways, PTL

\* The client's read task, the web socket, the server's recv_ws task and its
\* connection to the remote together are a stream of bytes from the application.
THEOREM UploadIsStream == RelaySpec => UploadStream
<1>1. RelayInit => Upload!Init
  BY DEF RelayInit, Upload!Init, Over, Client, Server
<1>2. RelayInv /\ [RelayNext]_relayVars => [Upload!Next]_Upload!vars
  <2> SUFFICES ASSUME RelayInv, [RelayNext]_relayVars PROVE [Upload!Next]_Upload!vars
    OBVIOUS
  <2>1. UpOpen' => UpOpen
    BY NeverReopens DEF RelayInv
  <2>2. CASE UNCHANGED <<appSent, remoteGot>>
    <3>1. CASE UpOpen' <=> UpOpen
      BY <2>2, <3>1 DEF Upload!vars, UpOpen
    <3>2. CASE UpOpen /\ ~UpOpen'
      BY <2>2, <3>2 DEF Upload!Next, Upload!End, UpOpen
    <3> QED BY <2>1, <3>1, <3>2
  <2>3. CASE AppWrites
    BY <2>3 DEF AppWrites, remoteVars, relay, Over, Upload!Next, Upload!Send
  <2>4. CASE WriteRemote /\ ~UNCHANGED <<appSent, remoteGot>>
    <3>1. /\ UpOpen /\ UNCHANGED appSent
          /\ \E n \in 1 .. appSent - Len(remoteGot) :
               remoteGot' = remoteGot \o Following(Len(remoteGot), n)
      BY <2>4, WriteArrives DEF RelayInv
    <3>2. UpOpen' <=> UpOpen
      BY <2>4 DEF WriteRemote, UpOpen, Over, Hold
    <3> QED BY <3>1, <3>2 DEF Upload!Next, Upload!Arrive, UpOpen, Following
  <2> QED BY <2>2, <2>3, <2>4, WhoSendsUp
<1> QED BY <1>1, <1>2, RelayAlways, PTL DEF RelaySpec, UploadStream, Upload!Spec

\* The same of the other direction, from the remote to the application.
THEOREM DownloadIsStream == RelaySpec => DownloadStream
<1>1. RelayInit => Download!Init
  BY DEF RelayInit, Download!Init, Over, Client, Server
<1>2. RelayInv /\ [RelayNext]_relayVars => [Download!Next]_Download!vars
  <2> SUFFICES ASSUME RelayInv, [RelayNext]_relayVars PROVE [Download!Next]_Download!vars
    OBVIOUS
  <2>1. DownOpen' => DownOpen
    BY NeverReopens DEF RelayInv
  <2>2. CASE UNCHANGED <<remoteSent, appGot>>
    <3>1. CASE DownOpen' <=> DownOpen
      BY <2>2, <3>1 DEF Download!vars, DownOpen
    <3>2. CASE DownOpen /\ ~DownOpen'
      BY <2>2, <3>2 DEF Download!Next, Download!End, DownOpen
    <3> QED BY <2>1, <3>1, <3>2
  <2>3. CASE RemoteWrites
    BY <2>3 DEF RemoteWrites, appVars, relay, Over, Download!Next, Download!Send
  <2>4. CASE Deliver /\ ~UNCHANGED <<remoteSent, appGot>>
    <3>1. /\ DownOpen /\ UNCHANGED <<remoteSent, app, task>>
          /\ \E n \in 1 .. remoteSent - Len(appGot) :
               appGot' = appGot \o Following(Len(appGot), n)
      BY <2>4, DeliverArrives DEF RelayInv
    <3>2. DownOpen' <=> DownOpen
      BY <3>1 DEF DownOpen, Over
    <3> QED BY <3>1, <3>2 DEF Download!Next, Download!Arrive, DownOpen, Following
  <2> QED BY <2>2, <2>3, <2>4, WhoSendsDown
<1> QED BY <1>1, <1>2, RelayAlways, PTL DEF RelaySpec, DownloadStream, Download!Spec

-----------------------------------------------------------------------------
(***************************************************************************)
(* The idle host.                                                          *)
(***************************************************************************)
LEMMA MinOfTwo ==
  ASSUME NEW a \in Int, NEW b \in Int
  PROVE  Min({a, b}) = IF a <= b THEN a ELSE b
<1> DEFINE least == IF a <= b THEN a ELSE b
<1>1. least \in {a, b} /\ \A y \in {a, b} : least <= y
  OBVIOUS
<1>2. \A x \in {a, b} : (\A y \in {a, b} : x <= y) => x = least
  OBVIOUS
<1> QED BY <1>1, <1>2 DEF Min

LEMMA MaxOfTwo ==
  ASSUME NEW a \in Int, NEW b \in Int
  PROVE  Max({a, b}) = IF a <= b THEN b ELSE a
<1> DEFINE greatest == IF a <= b THEN b ELSE a
<1>1. greatest \in {a, b} /\ \A y \in {a, b} : y <= greatest
  OBVIOUS
<1>2. \A x \in {a, b} : (\A y \in {a, b} : y <= x) => x = greatest
  OBVIOUS
<1> QED BY <1>1, <1>2 DEF Max

\* The wall clock is off by no more than what it was set by.
WallClock ==
  /\ sinceTouch - idle \in -Drift .. Drift
  /\ sinceRead \in -Drift .. LockDelay + Drift

IdleInv == TypeOK /\ WallClock

LEMMA DriftBounds ==
  ASSUME setsLeft \in 0 .. MaxSets
  PROVE  Drift \in 0 .. Skew /\ Skew \in Nat /\ Cap \in Nat /\ LockDelay <= Cap
<1>1. MaxStep \in Nat /\ MaxSets \in Nat /\ MaxSets - setsLeft \in 0 .. MaxSets
  BY BoundsAssumption
<1>2. \A m, a, b \in Nat : a <= b => m * a \in Nat /\ m * b \in Nat /\ m * a <= m * b
  OBVIOUS
<1>3. Drift \in 0 .. Skew /\ Skew \in Nat
  BY <1>1, <1>2 DEF Drift, Skew
<1> QED BY <1>3, BoundsAssumption DEF Cap

LEMMA IdleInitInv == Init => IdleInv
<1> SUFFICES ASSUME Init PROVE IdleInv
  OBVIOUS
<1>1. Drift \in 0 .. Skew /\ Skew \in Nat /\ Cap \in Nat
  BY DriftBounds, BoundsAssumption DEF Init
<1> QED BY <1>1, BoundsAssumption DEF Init, IdleInv, TypeOK, WallClock

LEMMA IdleInvStep == IdleInv /\ [Next]_vars => IdleInv'
<1> SUFFICES ASSUME IdleInv, [Next]_vars PROVE IdleInv'
  OBVIOUS
<1>1. /\ Drift \in 0 .. Skew /\ Skew \in Nat /\ Cap \in Nat /\ LockDelay \in Nat /\ Period \in Nat \ {0}
      /\ LockDelay <= Cap
  BY DriftBounds, BoundsAssumption DEF IdleInv, TypeOK
<1>2. UNCHANGED setsLeft => Drift' = Drift
  BY DEF Drift
<1> USE DEF IdleInv, TypeOK, WallClock
<1>3. CASE Ping
  BY <1>1, <1>2, <1>3 DEF Ping
<1>4. CASE ClientsLeave
  BY <1>1, <1>2, <1>4 DEF ClientsLeave
<1>5. CASE StartCheck
  BY <1>1, <1>2, <1>5 DEF StartCheck
<1>6. CASE Compare
  BY <1>1, <1>2, <1>6 DEF Compare
<1>7. CASE Describe
  BY <1>1, <1>2, <1>7 DEF Describe, DescribeOk, CallRefused, CallPanics
<1>8. CASE Terminate
  BY <1>1, <1>2, <1>8 DEF Terminate
<1>9. CASE Vanish
  BY <1>1, <1>2, <1>9 DEF Vanish
<1>10. CASE Elapse
  <2>1. /\ sinceTouch' = IF sinceTouch + 1 <= Cap THEN sinceTouch + 1 ELSE Cap
        /\ idle' = IF idle + 1 <= Cap THEN idle + 1 ELSE Cap
    BY <1>1, <1>10, MinOfTwo DEF Elapse, AtMost
  <2>2. due' = IF due - 1 <= -Period THEN -Period ELSE due - 1
    BY <1>1, <1>10, MaxOfTwo DEF Elapse
  <2>3. sinceRead' \in -Drift .. LockDelay + Drift
    BY <1>1, <1>10 DEF Elapse
  <2>4. Drift' = Drift /\ UNCHANGED <<timer, host, setsLeft, clients>>
    BY <1>2, <1>10 DEF Elapse
  <2> QED BY <1>1, <2>1, <2>2, <2>3, <2>4
<1>11. CASE \E k \in Steps : SetClock(k)
  <2>1. PICK k \in Steps : SetClock(k)
    BY <1>11
  <2>2. k \in -MaxStep .. MaxStep /\ MaxStep \in Nat
    BY BoundsAssumption
  <2>3. /\ setsLeft' = setsLeft - 1 /\ setsLeft' \in 0 .. MaxSets
        /\ sinceRead' = IF timer = "reading" THEN sinceRead + k ELSE 0
        /\ UNCHANGED <<due, timer, host, clients, idle>>
    BY <2>1, BoundsAssumption DEF SetClock
  <2>4. Drift' = Drift + MaxStep
    <3>1. \A m, a, b \in Int : m * (a - (b - 1)) = m * (a - b) + m
      OBVIOUS
    <3> QED BY <2>2, <2>3, <3>1, BoundsAssumption DEF Drift
  <2>5. Drift' \in 0 .. Skew
    <3>1. \A m, a, b \in Nat : a <= b => m * a \in Nat /\ m * b \in Nat /\ m * a <= m * b
      OBVIOUS
    <3>2. MaxSets - setsLeft' \in Nat /\ MaxSets \in Nat /\ MaxSets - setsLeft' <= MaxSets
      BY <2>3, BoundsAssumption
    <3> QED BY <2>2, <3>1, <3>2 DEF Drift, Skew
  <2>6. sinceTouch' = IF sinceTouch + k <= Cap THEN sinceTouch + k ELSE Cap
    BY <1>1, <2>1, <2>2, MinOfTwo DEF SetClock, AtMost
  <2> QED BY <1>1, <2>2, <2>3, <2>4, <2>5, <2>6
<1>12. CASE UNCHANGED vars
  BY <1>1, <1>2, <1>12 DEF vars
<1> QED BY <1>3, <1>4, <1>5, <1>6, <1>7, <1>8, <1>9, <1>10, <1>11, <1>12 DEF Next, Timer, World

LEMMA IdleAlways == Spec => []IdleInv
BY IdleInitInv, IdleInvStep, PTL DEF Spec

\* The ages, the timer task and the host are as TypeOK says, whatever the limit,
\* the period and the steps of the clock.
THEOREM IdleTypes == Spec => []TypeOK
<1>1. IdleInv => TypeOK
  BY DEF IdleInv
<1> QED BY <1>1, IdleAlways, PTL

\* The unsigned difference: as it is, or wrapped far beyond every age.
LEMMA DiffWraps ==
  ASSUME IdleInv
  PROVE  /\ sinceTouch \in Int /\ sinceRead \in Int /\ IdleLimit \in Nat
         /\ sinceTouch >= sinceRead => Diff = sinceTouch - sinceRead
         /\ sinceTouch < sinceRead => Diff > IdleLimit
<1>1. /\ sinceTouch \in -Skew .. Cap /\ sinceRead \in -Skew .. LockDelay + Skew
      /\ Skew \in Nat /\ Cap = IdleLimit + LockDelay + Skew + 1
      /\ IdleLimit \in Nat /\ LockDelay \in Nat
  BY DriftBounds, BoundsAssumption DEF IdleInv, TypeOK, Cap
<1>2. U64 \in Nat \ {0} /\ U64 > 2 * (Cap + Skew)
  BY <1>1, BoundsAssumption
<1>3. /\ \A m \in Nat \ {0} : \A x \in 0 .. m - 1 : x % m = x
      /\ \A m \in Nat \ {0} : \A x \in -m .. -1 : x % m = x + m
  OBVIOUS
<1>4. ASSUME sinceTouch >= sinceRead PROVE Diff = sinceTouch - sinceRead
  <2>1. sinceTouch - sinceRead \in 0 .. U64 - 1
    BY <1>1, <1>2, <1>4
  <2> QED BY <1>2, <1>3, <2>1 DEF Diff
<1>5. ASSUME sinceTouch < sinceRead PROVE Diff > IdleLimit
  <2>1. sinceTouch - sinceRead \in -U64 .. -1
    BY <1>1, <1>2, <1>5
  <2>2. Diff = sinceTouch - sinceRead + U64
    BY <1>2, <1>3, <2>1 DEF Diff
  <2> QED BY <1>1, <1>2, <2>2
<1> QED BY <1>1, <1>4, <1>5

\* What is_ping_expired decides, of the ages on the wall clock.
LEMMA Decides ==
  ASSUME IdleInv, [Next]_vars, timer = "reading", timer' # "reading"
  PROVE  IF timer' = "describing"
         THEN sinceTouch < sinceRead \/ sinceTouch - sinceRead > IdleLimit
         ELSE sinceTouch >= sinceRead /\ sinceTouch - sinceRead <= IdleLimit
<1>1. Compare
  BY DEF Next, Timer, World, Ping, ClientsLeave, StartCheck, Describe, DescribeOk, CallRefused,
         CallPanics, Terminate, Vanish, Elapse, SetClock, vars
<1>2. timer' = IF Diff > IdleLimit THEN "describing" ELSE "waiting"
  BY <1>1 DEF Compare
<1>3. \/ sinceTouch >= sinceRead /\ Diff = sinceTouch - sinceRead
      \/ sinceTouch < sinceRead /\ Diff > IdleLimit
  BY DiffWraps
<1> QED BY <1>2, <1>3, DiffWraps

\* A host is kept exactly when the last ping came within the limit before the clock was
\* read, to within what the clock was set by: for every limit, delay and clock, the
\* race with a ping and the clock that is set back included, which give it up.
THEOREM CheckAlwaysExact == Spec => CheckIsExact
<1>1. ASSUME IdleInv, [Next]_vars, timer = "reading", timer' # "reading"
      PROVE  IF timer' = "describing"
             THEN Age > IdleLimit - Drift \/ Age < Drift
             ELSE Age \in -Drift .. IdleLimit + Drift
  <2>1. /\ sinceTouch \in Int /\ sinceRead \in Int /\ idle \in Int /\ Drift \in Int /\ IdleLimit \in Int
        /\ sinceTouch - idle \in -Drift .. Drift
    BY <1>1, DriftBounds, BoundsAssumption DEF IdleInv, TypeOK, WallClock
  <2> QED BY <1>1, <2>1, Decides DEF Age
<1>2. IdleInv /\ [Next]_vars =>
        [timer = "reading" /\ timer' # "reading" =>
           IF timer' = "describing"
           THEN Age > IdleLimit - Drift \/ Age < Drift
           ELSE Age \in -Drift .. IdleLimit + Drift]_vars
  BY <1>1
<1> QED BY <1>2, IdleAlways, PTL DEF Spec, CheckIsExact

-----------------------------------------------------------------------------
(***************************************************************************)
(* The loop that keeps a host.                                             *)
(***************************************************************************)
\* How long a host may be idle at the tick before which m pings were lost.
Lost(m) == (m + 1) * PingPeriod

\* The reading of the clock cannot make the host look older than it is.
ReadNotOlder == sinceTouch - sinceRead <= idle + Drift

\* Without a suspension the ticks are met, and every lost ping costs one period.
OnSchedule ==
  ~slow =>
    /\ loop = "waiting" => untilPing >= 0
    /\ loop \in {"asking", "accepted"} => PingPeriod - untilPing \in 0 .. Latency
    /\ heard /\ loop = "waiting" => idle <= Lost(missed) - untilPing
    /\ heard /\ loop = "asking" => idle <= Lost(missed) + PingPeriod - untilPing
    /\ heard /\ loop = "accepted" => idle <= PingPeriod - untilPing

NoneLost ==
  /\ loop = "accepted" => missed = 0
  /\ kind = "desktop" => missed = 0

KeepInv == IdleInv /\ KeepTypeOK /\ ReadNotOlder /\ OnSchedule /\ NoneLost

LEMMA LostGrows ==
  ASSUME NEW m \in Nat
  PROVE  /\ Lost(m) \in Nat /\ Lost(m) >= PingPeriod
         /\ Lost(m + 1) = Lost(m) + PingPeriod /\ Lost(0) = PingPeriod
<1>1. PingPeriod \in Nat
  BY KeepAssumption
<1>2. \A a, b \in Nat : /\ (a + 1) * b \in Nat /\ (a + 1) * b = a * b + b /\ a * b \in Nat
                        /\ (a + 1 + 1) * b = (a + 1) * b + b
                        /\ (0 + 1) * b = b
  OBVIOUS
<1>3. Lost(m) \in Nat /\ Lost(m) = m * PingPeriod + PingPeriod /\ m * PingPeriod \in Nat
  BY <1>1, <1>2 DEF Lost
<1>4. Lost(m + 1) = Lost(m) + PingPeriod /\ Lost(0) = PingPeriod
  BY <1>1, <1>2 DEF Lost
<1> QED BY <1>1, <1>3, <1>4

\* Whatever the loop does, the server makes a step of its own or none.
LEMMA ServerGoesOn == [KeepNext]_keepVars => [Next]_vars
<1>1. ASSUME KeepNext PROVE [Next]_vars
  BY <1>1 DEF KeepNext, Loop, StartLoop, Ask, Reach, Pong, PingFails, Cancel, OtherPing, ServerAlone, Pass,
              Next, World
<1> QED BY <1>1 DEF keepVars

\* The server beside a loop does nothing that the server of IdleShutdown could
\* not do: what is proved of that one holds here.
THEOREM KeepIsIdle == KeepSpec => Spec
<1>1. KeepInit => Init
  BY DEF KeepInit
<1> QED BY <1>1, ServerGoesOn, PTL DEF KeepSpec, Spec

LEMMA KeepInitInv == KeepInit => KeepInv
<1> SUFFICES ASSUME KeepInit PROVE KeepInv
  OBVIOUS
<1>1. IdleInv
  BY IdleInitInv DEF KeepInit
<1>2. Drift \in Nat
  BY <1>1, DriftBounds DEF IdleInv, TypeOK
<1>3. KeepTypeOK
  <2>1. TypeOK
    BY <1>1 DEF IdleInv
  <2>2. /\ kind \in {"desktop", "phone"} /\ loop = "off" /\ untilPing = 0 /\ missed = 0
        /\ heard = FALSE /\ slow = FALSE
    BY DEF KeepInit
  <2>3. untilPing \in -PingPeriod .. PingPeriod /\ missed \in 0 .. MaxMissed
    BY <2>2, KeepAssumption
  <2> QED BY <2>1, <2>2, <2>3 DEF KeepTypeOK
<1> QED BY <1>1, <1>2, <1>3, KeepAssumption
        DEF KeepInit, Init, KeepInv, ReadNotOlder, OnSchedule, NoneLost

LEMMA ReadNotOlderStep ==
  ASSUME IdleInv, ReadNotOlder, [Next]_vars
  PROVE  ReadNotOlder'
<1>1. /\ Drift \in 0 .. Skew /\ Skew \in Nat /\ Cap \in Nat /\ LockDelay \in Nat /\ MaxStep \in Nat
  BY DriftBounds, BoundsAssumption DEF IdleInv, TypeOK
<1>2. UNCHANGED setsLeft => Drift' = Drift
  BY DEF Drift
<1> USE DEF IdleInv, TypeOK, WallClock, ReadNotOlder
<1>3. CASE Ping
  BY <1>1, <1>2, <1>3 DEF Ping
<1>4. CASE StartCheck \/ Compare
  BY <1>1, <1>2, <1>4 DEF StartCheck, Compare
<1>5. CASE UNCHANGED <<sinceTouch, sinceRead, idle, setsLeft>>
  BY <1>1, <1>2, <1>5
<1>6. CASE Elapse
  <2>1. /\ sinceTouch' = IF sinceTouch + 1 <= Cap THEN sinceTouch + 1 ELSE Cap
        /\ idle' = IF idle + 1 <= Cap THEN idle + 1 ELSE Cap
    BY <1>1, <1>6, MinOfTwo DEF Elapse, AtMost
  <2>2. sinceRead' = (IF timer = "reading" THEN sinceRead + 1 ELSE 0) /\ Drift' = Drift
    BY <1>2, <1>6 DEF Elapse
  <2> QED BY <1>1, <2>1, <2>2
<1>7. CASE \E k \in Steps : SetClock(k)
  <2>1. PICK k \in Steps : SetClock(k)
    BY <1>7
  <2>2. k \in -MaxStep .. MaxStep
    BY BoundsAssumption
  <2>3. /\ setsLeft' = setsLeft - 1 /\ idle' = idle
        /\ sinceRead' = IF timer = "reading" THEN sinceRead + k ELSE 0
    BY <2>1 DEF SetClock
  <2>4. Drift' = Drift + MaxStep
    <3>1. \A m, a, b \in Int : m * (a - (b - 1)) = m * (a - b) + m
      OBVIOUS
    <3> QED BY <1>1, <2>3, <3>1, BoundsAssumption DEF Drift
  <2>5. sinceTouch' = IF sinceTouch + k <= Cap THEN sinceTouch + k ELSE Cap
    BY <1>1, <2>1, <2>2, MinOfTwo DEF SetClock, AtMost
  <2> QED BY <1>1, <2>2, <2>3, <2>4, <2>5
<1>8. UNCHANGED vars => UNCHANGED <<sinceTouch, sinceRead, idle, setsLeft>>
  BY DEF vars
<1>9. ClientsLeave \/ Describe \/ Terminate \/ Vanish => UNCHANGED <<sinceTouch, sinceRead, idle, setsLeft>>
  BY DEF ClientsLeave, Describe, Terminate, Vanish
<1> QED BY <1>3, <1>4, <1>5, <1>6, <1>7, <1>8, <1>9 DEF Next, Timer, World

LEMMA LoopInvStep ==
  ASSUME KeepInv, [KeepNext]_keepVars, TypeOK'
  PROVE  (KeepTypeOK /\ OnSchedule /\ NoneLost)'
<1>1. /\ PingPeriod \in Nat \ {0} /\ Latency \in 0 .. PingPeriod /\ MaxMissed \in Nat
  BY KeepAssumption
<1>2. /\ missed \in Nat /\ idle \in Nat /\ idle' \in Nat /\ untilPing \in Int
      /\ Lost(missed) \in Nat /\ Lost(missed) >= PingPeriod
      /\ Lost(missed + 1) = Lost(missed) + PingPeriod /\ Lost(0) = PingPeriod
  <2>1. missed \in Nat /\ idle \in 0 .. Cap /\ idle' \in 0 .. Cap /\ untilPing \in Int /\ Cap \in Nat
    BY <1>1, BoundsAssumption, DriftBounds DEF KeepInv, KeepTypeOK, TypeOK
  <2> QED BY <2>1, LostGrows
<1>3. /\ kind \in {"desktop", "phone"} /\ loop \in {"off", "waiting", "asking", "accepted", "ended"}
      /\ untilPing \in -PingPeriod .. PingPeriod /\ missed \in 0 .. MaxMissed
      /\ heard \in BOOLEAN /\ slow \in BOOLEAN /\ (heard => Going)
  BY DEF KeepInv, KeepTypeOK
<1>4. OnSchedule /\ NoneLost
  BY DEF KeepInv
<1>5. missed' = missed => Lost(missed') = Lost(missed)
  OBVIOUS
<1> USE DEF KeepTypeOK, OnSchedule, NoneLost, Going
<1>6. CASE StartLoop
  <2>1. /\ loop' = "waiting" /\ untilPing' = 0 /\ missed' = 0 /\ slow' = FALSE /\ kind' = kind
        /\ heard' = FALSE
    BY <1>3, <1>6 DEF StartLoop
  <2>2. untilPing' \in -PingPeriod .. PingPeriod /\ missed' \in 0 .. MaxMissed /\ untilPing' >= 0
    BY <1>1, <2>1
  <2>3. KeepTypeOK'
    BY <1>3, <2>1, <2>2
  <2> QED BY <2>1, <2>2, <2>3
<1>7. CASE Ask
  BY <1>1, <1>2, <1>3, <1>4, <1>5, <1>7 DEF Ask, vars
<1>8. CASE Reach
  BY <1>1, <1>2, <1>3, <1>4, <1>8 DEF Reach, Ping
<1>9. CASE Pong
  BY <1>1, <1>2, <1>3, <1>4, <1>5, <1>9 DEF Pong, vars
<1>10. CASE PingFails
  <2>1. CASE kind = "desktop"
    BY <1>1, <1>2, <1>3, <1>4, <1>10, <2>1 DEF PingFails
  <2>2. CASE kind # "desktop" /\ loop = "asking"
    BY <1>1, <1>2, <1>3, <1>4, <1>10, <2>2 DEF PingFails, vars
  <2>3. CASE kind # "desktop" /\ loop = "accepted"
    BY <1>1, <1>2, <1>3, <1>4, <1>5, <1>10, <2>3 DEF PingFails, vars
  <2> QED BY <1>10, <2>1, <2>2, <2>3 DEF PingFails
<1>11. CASE Cancel
  BY <1>1, <1>2, <1>3, <1>4, <1>11 DEF Cancel
<1>12. CASE OtherPing
  BY <1>1, <1>2, <1>3, <1>4, <1>5, <1>12 DEF OtherPing, Ping, loopVars
<1>13. CASE ServerAlone
  <2>1. idle' = idle /\ UNCHANGED loopVars
    BY <1>13 DEF ServerAlone, Timer, StartCheck, Compare, Describe, Terminate, Vanish, ClientsLeave, SetClock
  <2> QED BY <1>1, <1>2, <1>3, <1>4, <1>5, <2>1 DEF loopVars
<1>14. CASE Pass
  <2>1. idle' <= idle + 1
    <3>1. idle + 1 \in Int /\ Cap \in Int
      BY <1>2, BoundsAssumption, DriftBounds DEF KeepInv, KeepTypeOK, TypeOK
    <3> QED BY <1>14, <3>1, MinOfTwo DEF Pass, Elapse, AtMost
  <2>2. untilPing' = IF Going THEN IF untilPing - 1 <= -PingPeriod THEN -PingPeriod ELSE untilPing - 1
                     ELSE untilPing
    BY <1>1, <1>2, <1>14, MaxOfTwo DEF Pass
  <2>3. slow' = (slow \/ Overdue) /\ UNCHANGED <<kind, loop, missed, heard>>
    BY <1>14 DEF Pass
  <2>4. untilPing' \in -PingPeriod .. PingPeriod
    BY <1>1, <1>3, <2>2
  <2>5. KeepTypeOK'
    <3>1. slow' \in BOOLEAN
      BY <2>3
    <3> QED BY <1>3, <2>3, <2>4, <3>1
  <2>6. NoneLost'
    BY <1>4, <2>3
  <2>7. ASSUME ~slow' PROVE OnSchedule'
    <3>1. ~slow /\ ~Overdue
      BY <2>3, <2>7
    <3>2. CASE loop = "waiting"
      <4>1. untilPing > 0 /\ untilPing' = untilPing - 1
        BY <1>1, <1>2, <2>2, <3>1, <3>2 DEF Overdue
      <4> QED BY <1>1, <1>2, <1>4, <1>5, <2>1, <2>3, <3>1, <3>2, <4>1
    <3>3. CASE loop \in {"asking", "accepted"}
      <4>1. PingPeriod - untilPing < Latency /\ untilPing' = untilPing - 1
        BY <1>1, <1>2, <2>2, <3>1, <3>3 DEF Overdue
      <4> QED BY <1>1, <1>2, <1>4, <1>5, <2>1, <2>3, <3>1, <3>3, <4>1
    <3>4. CASE ~Going
      BY <1>3, <2>3, <3>4
    <3> QED BY <3>2, <3>3, <3>4
  <2> QED BY <2>5, <2>6, <2>7
<1>15. CASE UNCHANGED keepVars
  BY <1>1, <1>2, <1>3, <1>4, <1>5, <1>15 DEF keepVars, loopVars, vars
<1> QED BY <1>6, <1>7, <1>8, <1>9, <1>10, <1>11, <1>12, <1>13, <1>14, <1>15 DEF KeepNext, Loop

LEMMA KeepInvStep == KeepInv /\ [KeepNext]_keepVars => KeepInv'
<1> SUFFICES ASSUME KeepInv, [KeepNext]_keepVars PROVE KeepInv'
  OBVIOUS
<1>1. [Next]_vars
  BY ServerGoesOn
<1>2. IdleInv'
  BY <1>1, IdleInvStep DEF KeepInv
<1>3. ReadNotOlder'
  BY <1>1, ReadNotOlderStep DEF KeepInv
<1>4. (KeepTypeOK /\ OnSchedule /\ NoneLost)'
  BY <1>2, LoopInvStep DEF IdleInv
<1> QED BY <1>2, <1>3, <1>4 DEF KeepInv

LEMMA KeepAlways == KeepSpec => []KeepInv
BY KeepInitInv, KeepInvStep, PTL DEF KeepSpec

\* The loop, its schedule and its count of lost pings are well-formed for every
\* period, latency and limit.
THEOREM KeepTypes == KeepSpec => []KeepTypeOK
<1>1. KeepInv => KeepTypeOK
  BY DEF KeepInv
<1> QED BY <1>1, KeepAlways, PTL

\* A host that a loop keeps is given up only when that many pings in a row were
\* lost, whatever the periods of the loop and of the check; or when the difference
\* wrapped, since the last ping lies after the reading on a clock that was set back, or
\* in truth.
THEOREM UsedHostAlwaysKept == KeepSpec => UsedHostKept
<1>1. ASSUME KeepInv, [KeepNext]_keepVars, timer = "reading", timer' = "describing", heard, ~slow
      PROVE  \/ Age < Drift
             \/ /\ (missed + 1) * PingPeriod + Latency > IdleLimit - Drift
                /\ kind = "desktop" => PingPeriod + Latency > IdleLimit - Drift
  <2> SUFFICES ASSUME ~(Age < Drift)
               PROVE  /\ (missed + 1) * PingPeriod + Latency > IdleLimit - Drift
                      /\ kind = "desktop" => PingPeriod + Latency > IdleLimit - Drift
    OBVIOUS
  <2>1. /\ sinceTouch \in Int /\ sinceRead \in Int /\ idle \in Int /\ Drift \in Int /\ IdleLimit \in Int
        /\ sinceTouch - idle \in -Drift .. Drift
    BY <1>1, DriftBounds, BoundsAssumption DEF KeepInv, IdleInv, TypeOK, WallClock
  <2>2. sinceTouch >= sinceRead
    BY <2>1 DEF Age
  <2>3. sinceTouch < sinceRead \/ sinceTouch - sinceRead > IdleLimit
    BY <1>1, ServerGoesOn, Decides DEF KeepInv
  <2>4. sinceTouch - sinceRead > IdleLimit
    BY <2>1, <2>2, <2>3
  <2>5. idle > IdleLimit - Drift
    BY <1>1, <2>1, <2>4 DEF KeepInv, ReadNotOlder
  <2>6. /\ PingPeriod \in Nat /\ Latency \in 0 .. PingPeriod /\ missed \in Nat /\ untilPing \in Int
        /\ loop \in {"waiting", "asking", "accepted"}
    BY <1>1, KeepAssumption DEF KeepInv, KeepTypeOK, Going
  <2>7. Lost(missed) \in Nat /\ Lost(missed) >= PingPeriod /\ Lost(0) = PingPeriod
    BY <2>6, LostGrows
  <2>8. idle <= Lost(missed) + Latency
    BY <1>1, <2>1, <2>6, <2>7 DEF KeepInv, OnSchedule
  <2>9. kind = "desktop" => Lost(missed) = PingPeriod
    BY <1>1, <2>7 DEF KeepInv, NoneLost
  <2>10. Lost(missed) + Latency > IdleLimit - Drift
    BY <2>1, <2>5, <2>6, <2>7, <2>8
  <2> QED BY <2>9, <2>10 DEF Lost
<1>2. KeepInv /\ [KeepNext]_keepVars =>
        [timer = "reading" /\ timer' = "describing" /\ heard /\ ~slow =>
           \/ Age < Drift
           \/ /\ (missed + 1) * PingPeriod + Latency > IdleLimit - Drift
              /\ kind = "desktop" => PingPeriod + Latency > IdleLimit - Drift]_keepVars
  BY <1>1
<1> QED BY <1>2, KeepAlways, PTL DEF KeepSpec, UsedHostKept

\* n lost pings in a row do not cost a host, as long as the periods of n + 1 pings, the
\* latency and whatever the clock is set by fit into the limit (with 60 s, 600 s and a
\* clock that is right: eight, with a latency of up to a minute); and a desktop's
\* host is not given up at all, since its loop has ended after the first.  What does
\* cost it, with no ping lost, is the wrapped difference: a ping between the reading of
\* the clock and the comparison, or a clock that was set back past the last ping.
THEOREM LossesSurvived ==
  ASSUME NEW n \in Nat, (n + 1) * PingPeriod + Latency + Skew <= IdleLimit
  PROVE  KeepSpec => [][timer = "reading" /\ timer' = "describing" /\ heard /\ ~slow
                        => Age < Drift \/ (kind = "phone" /\ missed > n)]_keepVars
<1>1. ASSUME KeepInv, timer = "reading", timer' = "describing", heard, ~slow,
             Lost(missed) + Latency > IdleLimit - Drift,
             kind = "desktop" => PingPeriod + Latency > IdleLimit - Drift
      PROVE  kind = "phone" /\ missed > n
  <2>1. /\ PingPeriod \in Nat /\ Latency \in Nat /\ IdleLimit \in Nat /\ missed \in Nat
        /\ kind \in {"desktop", "phone"} /\ Drift \in 0 .. Skew /\ Skew \in Nat
    BY <1>1, DriftBounds, KeepAssumption, BoundsAssumption DEF KeepInv, KeepTypeOK, TypeOK
  <2>2. /\ \A a, b \in Nat : a <= b => (a + 1) * PingPeriod \in Nat /\ (b + 1) * PingPeriod \in Nat
                                       /\ (a + 1) * PingPeriod <= (b + 1) * PingPeriod
        /\ (0 + 1) * PingPeriod = PingPeriod
    <3>1. \A p, a, b \in Nat : a <= b => (a + 1) * p \in Nat /\ (b + 1) * p \in Nat /\ (a + 1) * p <= (b + 1) * p
      OBVIOUS
    <3>2. \A p \in Nat : (0 + 1) * p = p
      OBVIOUS
    <3> QED BY <2>1, <3>1, <3>2
  <2>3. missed > n
    <3>1. Lost(missed) \in Nat /\ Lost(n) \in Nat /\ (missed <= n => Lost(missed) <= Lost(n))
      BY <2>1, <2>2 DEF Lost
    <3>2. Lost(n) + Latency + Skew <= IdleLimit
      BY DEF Lost
    <3> QED BY <1>1, <2>1, <3>1, <3>2
  <2>4. kind # "desktop"
    <3>1. PingPeriod <= Lost(n) /\ Lost(n) \in Nat
      BY <2>1, <2>2 DEF Lost
    <3>2. Lost(n) + Latency + Skew <= IdleLimit
      BY DEF Lost
    <3> QED BY <1>1, <2>1, <3>1, <3>2
  <2> QED BY <2>1, <2>3, <2>4
<1>2. KeepInv /\ [timer = "reading" /\ timer' = "describing" /\ heard /\ ~slow =>
                    \/ Age < Drift
                    \/ /\ (missed + 1) * PingPeriod + Latency > IdleLimit - Drift
                       /\ kind = "desktop" => PingPeriod + Latency > IdleLimit - Drift]_keepVars
      => [timer = "reading" /\ timer' = "describing" /\ heard /\ ~slow
          => Age < Drift \/ (kind = "phone" /\ missed > n)]_keepVars
  BY <1>1 DEF Lost
<1> QED BY <1>2, KeepAlways, UsedHostAlwaysKept, PTL DEF UsedHostKept
=============================================================================
