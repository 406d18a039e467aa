---------------------------- MODULE TunnelRelay ----------------------------
(***************************************************************************)
(* One connection through the tunnel.  Beside the application the client   *)
(* relay (src-common/src/proxy.rs) has two tasks over a web socket, and    *)
(* beside the remote the server relay (src-server/src/proxy.rs) has two    *)
(* more; they share nothing but the two streams they split between them.   *)
(*                                                                         *)
(*   application  -> read  -> up   -> recv_ws      -> remote               *)
(*   application  <- write <- down <- read_remote  <- remote               *)
(*                                                                         *)
(* Bytes are numbered in the order they were sent, and an enciphered byte  *)
(* is its negative: the two ends have the same key, under which the xor is *)
(* its own inverse.  A stream or socket that was split closes when both    *)
(* its halves are dropped, that is when both tasks that hold them are over.*)
(***************************************************************************)
EXTENDS Integers, Sequences, SequencesExt

CONSTANTS
  Block,    \* bytes of a block of xor_inplace_simd, 16
  MaxUp,    \* bound: bytes the application sends
  MaxDown,  \* bound: bytes the remote sends
  Window    \* frames a direction of the web socket holds

ASSUME BlockAssumption == Block \in Nat \ {0}
ASSUME WindowAssumption == Window \in Nat \ {0} /\ MaxUp \in Nat /\ MaxDown \in Nat

VARIABLES
  app,         \* "open", "half" (it has shut its sending side) or "gone"
  appSent,     \* how many bytes it has sent
  appBuf,      \* those not read from it yet
  appGot,      \* the bytes written to it
  remote, remoteSent, remoteBuf, remoteGot,  \* the same of the remote
  up, down,    \* the frames under way on the web socket
  link,        \* the connection under it: "up" or "broken"
  told,        \* the ends that know it is broken
  dial,        \* the server's connection to the remote
  task,        \* how each of the four tasks is
  held         \* the bytes each of them has in hand

appVars == <<app, appSent, appBuf, appGot>>
remoteVars == <<remote, remoteSent, remoteBuf, remoteGot>>
wire == <<link, told>>
net == <<up, down, wire>>
relay == <<dial, task, held>>
relayVars == <<appVars, remoteVars, net, relay>>

Client == {"read", "write"}
Server == {"recv_ws", "read_remote"}
Close == << >>              \* a close frame; binary frames are never empty

RelayInit ==
  /\ app = "open" /\ appSent = 0 /\ appBuf = << >> /\ appGot = << >>
  /\ remote = "open" /\ remoteSent = 0 /\ remoteBuf = << >> /\ remoteGot = << >>
  /\ up = << >> /\ down = << >> /\ link = "up" /\ told = {}
  /\ dial = "connecting"
  /\ task = [t \in Client \cup Server |-> IF t \in Client THEN "running" ELSE "waiting"]
  /\ held = [t \in Client \cup Server |-> << >>]

Over(t) == task[t] \notin {"waiting", "running"}
ClientOver == \A t \in Client : Over(t)
ServerOver == \A t \in Server : Over(t)

\* What an end learns of the other: that it has closed, while the link carries it,
\* or that the link is broken, when it is told.
ClientSeesEnd == "client" \in told \/ (link = "up" /\ ServerOver)
ServerSeesEnd == "server" \in told \/ (link = "up" /\ ClientOver)

-----------------------------------------------------------------------------
\* xor_inplace_simd: whole blocks only, the rest of the frame stays as it is.
Xor(data) ==
  [i \in 1 .. Len(data) |-> IF i <= Block * (Len(data) \div Block) THEN -data[i] ELSE data[i]]

Idle(t) == task[t] = "running" /\ held[t] = << >>
Busy(t) == task[t] = "running" /\ held[t] # << >>
Hold(t, data) == held' = [held EXCEPT ![t] = data] /\ UNCHANGED task
Finish(t, how) == task' = [task EXCEPT ![t] = how] /\ held' = [held EXCEPT ![t] = << >>]

\* What is sent over a broken link is accepted and lost; in the end its sender is
\* told, by a reset or when it has been sent again too often.
SentIntoVoid(t, end) ==
  /\ link = "broken" /\ end \notin told
  /\ told' = told \cup {end}
  /\ Hold(t, << >>)

-----------------------------------------------------------------------------
\* read_handle.  What is there is read, up to the size of the buffer.
Read ==
  /\ Idle("read")
  /\ \E n \in 1 .. Len(appBuf) :
       /\ Hold("read", Xor(SubSeq(appBuf, 1, n)))
       /\ appBuf' = SubSeq(appBuf, n + 1, Len(appBuf))
  /\ UNCHANGED <<app, appSent, appGot, remoteVars, net, dial>>

\* Mutant: the relay is over in both directions as soon as one has ended.
ReadEndsBoth ==
  /\ Idle("read")
  /\ app # "open" /\ appBuf = << >>
  /\ task' = [task EXCEPT !["read"] = "ended", !["write"] = "aborted"]
  /\ held' = [held EXCEPT !["write"] = << >>]
  /\ UNCHANGED <<appVars, remoteVars, net, dial>>

\* Ok(0), the close frame being commented out; or an error, once it is gone.
ReadEnds ==
  /\ Idle("read")
  /\ \/ app # "open" /\ appBuf = << >>
     \/ app = "gone"
  /\ Finish("read", "ended")
  /\ UNCHANGED <<appVars, remoteVars, net, dial>>

\* Mutant: feed instead of send, which leaves the last frame unflushed.
Feed ==
  /\ Busy("read") /\ appBuf # << >>
  /\ Len(up) < Window
  /\ up' = Append(up, held["read"])
  /\ Hold("read", << >>)
  /\ UNCHANGED <<appVars, remoteVars, down, wire, dial>>

\* ws_sink.send.  After a close frame it fails; when the other side has closed
\* without one, the first sends may still be accepted and lost.
Send ==
  /\ Busy("read")
  /\ \/ /\ link = "up" /\ ~ServerOver /\ task["write"] # "closed"
        /\ Len(up) < Window
        /\ up' = Append(up, held["read"])
        /\ Hold("read", << >>) /\ UNCHANGED told
     \/ /\ link = "up" /\ ServerOver /\ task["write"] # "closed"
        /\ Hold("read", << >>)
        /\ UNCHANGED <<up, told>>
     \/ SentIntoVoid("read", "client") /\ UNCHANGED up
     \/ /\ ClientSeesEnd
        /\ Finish("read", "failed")
        /\ UNCHANGED <<up, told>>
  /\ UNCHANGED <<appVars, remoteVars, down, link, dial>>

\* write_handle: a binary frame.
Receive ==
  /\ Idle("write")
  /\ down # << >> /\ Head(down) # Close
  /\ Hold("write", Head(down))
  /\ down' = Tail(down)
  /\ UNCHANGED <<appVars, remoteVars, up, wire, dial>>

\* A close frame ends the task and is not passed on to the application; an error
\* is skipped, and after it there is no next frame.
ReceiveEnds ==
  /\ Idle("write")
  /\ \/ /\ down # << >> /\ Head(down) = Close
        /\ down' = Tail(down)
        /\ Finish("write", "closed")
     \/ /\ down = << >> /\ ClientSeesEnd
        /\ UNCHANGED down
        /\ Finish("write", "ended")
  /\ UNCHANGED <<appVars, remoteVars, up, wire, dial>>

\* local_stream_writer.write_all, which writes until nothing is left.
Deliver ==
  /\ Busy("write")
  /\ \/ /\ app # "gone"
        /\ \E n \in 1 .. Len(held["write"]) :
             /\ appGot' = appGot \o SubSeq(held["write"], 1, n)
             /\ Hold("write", SubSeq(held["write"], n + 1, Len(held["write"])))
     \/ /\ app = "gone"
        /\ UNCHANGED appGot
        /\ Hold("write", << >>) \/ Finish("write", "failed")
  /\ UNCHANGED <<app, appSent, appBuf, remoteVars, net, dial>>

-----------------------------------------------------------------------------
\* handle_socket connects to the remote, or returns and drops the web socket.
Connect ==
  /\ dial = "connecting"
  /\ \/ dial' = "connected" /\ task' = [t \in DOMAIN task |-> IF t \in Server THEN "running" ELSE task[t]]
     \/ dial' = "failed" /\ task' = [t \in DOMAIN task |-> IF t \in Server THEN "ended" ELSE task[t]]
  /\ UNCHANGED <<appVars, remoteVars, net, held>>

\* Mutant: frames that are there together are deciphered together.
RecvWsJoined ==
  /\ Idle("recv_ws")
  /\ up # << >>
  /\ Hold("recv_ws", Xor(FlattenSeq(up)))
  /\ up' = << >>
  /\ UNCHANGED <<appVars, remoteVars, down, wire, dial>>

\* recv_ws_handle: a binary frame.
RecvWs ==
  /\ Idle("recv_ws")
  /\ up # << >>
  /\ Hold("recv_ws", Xor(Head(up)))
  /\ up' = Tail(up)
  /\ UNCHANGED <<appVars, remoteVars, down, wire, dial>>

RecvWsEnds ==
  /\ Idle("recv_ws")
  /\ up = << >> /\ ServerSeesEnd
  /\ Finish("recv_ws", "ended")
  /\ UNCHANGED <<appVars, remoteVars, net, dial>>

\* Mutant: write instead of write_all; what it has not written is dropped.
WriteOnce ==
  /\ Busy("recv_ws")
  /\ \/ /\ remote # "gone"
        /\ \E n \in 1 .. Len(held["recv_ws"]) :
             remoteGot' = remoteGot \o SubSeq(held["recv_ws"], 1, n)
     \/ remote = "gone" /\ UNCHANGED remoteGot
  /\ Hold("recv_ws", << >>)
  /\ UNCHANGED <<appVars, remote, remoteSent, remoteBuf, net, dial>>

\* remote_writer.write_all, which may be aborted half way: an error is printed and
\* the loop goes on.
WriteRemote ==
  /\ Busy("recv_ws")
  /\ \/ /\ remote # "gone"
        /\ \E n \in 1 .. Len(held["recv_ws"]) :
             /\ remoteGot' = remoteGot \o SubSeq(held["recv_ws"], 1, n)
             /\ Hold("recv_ws", SubSeq(held["recv_ws"], n + 1, Len(held["recv_ws"])))
     \/ remote = "gone" /\ Hold("recv_ws", << >>) /\ UNCHANGED remoteGot
  /\ UNCHANGED <<appVars, remote, remoteSent, remoteBuf, net, dial>>

\* Mutant: the whole buffer is sent, not only its first n bytes.
ReadWholeBuffer ==
  /\ Idle("read_remote")
  /\ \E n \in 1 .. Len(remoteBuf) :
       /\ Hold("read_remote", SubSeq(remoteBuf, 1, n) \o <<0>>)
       /\ remoteBuf' = SubSeq(remoteBuf, n + 1, Len(remoteBuf))
  /\ UNCHANGED <<appVars, remote, remoteSent, remoteGot, net, dial>>

\* read_remote_handle.
ReadRemote ==
  /\ Idle("read_remote")
  /\ \E n \in 1 .. Len(remoteBuf) :
       /\ Hold("read_remote", SubSeq(remoteBuf, 1, n))
       /\ remoteBuf' = SubSeq(remoteBuf, n + 1, Len(remoteBuf))
  /\ UNCHANGED <<appVars, remote, remoteSent, remoteGot, net, dial>>

\* An error is printed and the loop goes on: after a reset the rest is lost and
\* the next read says Ok(0).
ReadRemoteFails ==
  /\ Idle("read_remote")
  /\ remote = "gone" /\ remoteBuf # << >>
  /\ remoteBuf' = << >>
  /\ UNCHANGED <<appVars, remote, remoteSent, remoteGot, net, relay>>

\* Ok(0): a close frame is sent, if it can be.
ReadRemoteEnds ==
  /\ Idle("read_remote")
  /\ remote # "open" /\ remoteBuf = << >>
  /\ IF link = "broken" \/ ClientOver
     THEN UNCHANGED down
     ELSE Len(down) < Window /\ down' = Append(down, Close)
  /\ Finish("read_remote", "ended")
  /\ UNCHANGED <<appVars, remoteVars, up, wire, dial>>

SendBack ==
  /\ Busy("read_remote")
  /\ \/ /\ link = "up" /\ ~ClientOver
        /\ Len(down) < Window
        /\ down' = Append(down, held["read_remote"])
        /\ Hold("read_remote", << >>) /\ UNCHANGED told
     \/ /\ link = "up" /\ ClientOver
        /\ Hold("read_remote", << >>)
        /\ UNCHANGED <<down, told>>
     \/ SentIntoVoid("read_remote", "server") /\ UNCHANGED down
     \/ /\ ServerSeesEnd
        /\ Finish("read_remote", "failed")
        /\ UNCHANGED <<down, told>>
  /\ UNCHANGED <<appVars, remoteVars, up, link, dial>>

\* Mutant: the other task is left alone.
NeverAbort == FALSE /\ UNCHANGED relayVars

\* select!: when one of the two is over the other is aborted, with what it has
\* in hand.
Abort ==
  /\ \E t, other \in Server :
       Over(t) /\ task[other] = "running" /\ Finish(other, "aborted")
  /\ UNCHANGED <<appVars, remoteVars, net, dial>>

-----------------------------------------------------------------------------
AppWrites ==
  /\ app = "open" /\ appSent < MaxUp /\ ~ClientOver
  /\ appSent' = appSent + 1
  /\ appBuf' = Append(appBuf, appSent + 1)
  /\ UNCHANGED <<app, appGot, remoteVars, net, relay>>

AppLeaves ==
  /\ \/ app = "open" /\ app' = "half"
     \/ app # "gone" /\ app' = "gone"
  /\ UNCHANGED <<appSent, appBuf, appGot, remoteVars, net, relay>>

RemoteWrites ==
  /\ remote = "open" /\ remoteSent < MaxDown /\ dial = "connected" /\ ~ServerOver
  /\ remoteSent' = remoteSent + 1
  /\ remoteBuf' = Append(remoteBuf, remoteSent + 1)
  /\ UNCHANGED <<appVars, remote, remoteGot, net, relay>>

RemoteLeaves ==
  /\ dial = "connected"
  /\ \/ remote = "open" /\ remote' = "half"
     \/ remote # "gone" /\ remote' = "gone"
  /\ UNCHANGED <<appVars, remoteSent, remoteBuf, remoteGot, net, relay>>

\* The connection under the web socket breaks, or is reset because one end of it
\* closed with frames it had not read: what is under way is lost, both ways.
Break ==
  /\ link = "up"
  /\ link' = "broken"
  /\ up' = << >> /\ down' = << >>
  /\ UNCHANGED <<appVars, remoteVars, told, relay>>

\* A reset arrives, or what was under way has been sent again too often.  Neither
\* need ever happen: there is no keep-alive, no ping and no timeout.
Notice ==
  /\ link = "broken"
  /\ \/ ~ClientOver /\ "client" \notin told /\ told' = told \cup {"client"}
     \/ ~ServerOver /\ "server" \notin told /\ told' = told \cup {"server"}
  /\ UNCHANGED <<appVars, remoteVars, up, down, link, relay>>

\* The host goes away under the server: the cloud takes the spot host back, or the
\* server, which nobody pings, has it destroyed.  It tells the client nothing.
HostVanishes ==
  /\ ~ServerOver
  /\ link' = "broken" /\ up' = << >> /\ down' = << >>
  /\ dial' = IF dial = "connecting" THEN "failed" ELSE dial
  /\ task' = [t \in DOMAIN task |-> IF t \in Server /\ ~Over(t) THEN "aborted" ELSE task[t]]
  /\ held' = [t \in DOMAIN held |-> IF t \in Server THEN << >> ELSE held[t]]
  /\ UNCHANGED <<appVars, remoteVars, told>>

ClientRelay == Read \/ ReadEnds \/ Send \/ Receive \/ ReceiveEnds \/ Deliver
ServerRelay ==
  \/ Connect \/ RecvWs \/ RecvWsEnds \/ WriteRemote
  \/ ReadRemote \/ ReadRemoteFails \/ ReadRemoteEnds \/ SendBack \/ Abort
Ends == AppWrites \/ AppLeaves \/ RemoteWrites \/ RemoteLeaves

RelayNext == ClientRelay \/ ServerRelay \/ Ends \/ Break \/ Notice \/ HostVanishes

\* Each task is polled whenever it can go on; nobody has to write, to leave or
\* to break.
RelayFairness ==
  /\ WF_relayVars(Read \/ ReadEnds \/ Send)
  /\ WF_relayVars(Receive \/ ReceiveEnds \/ Deliver)
  /\ WF_relayVars(RecvWs \/ RecvWsEnds \/ WriteRemote)
  /\ WF_relayVars(ReadRemote \/ ReadRemoteEnds \/ SendBack)
  /\ WF_relayVars(Connect) /\ WF_relayVars(Abort)

RelaySpec == RelayInit /\ [][RelayNext]_relayVars
RelayFairSpec == RelaySpec /\ RelayFairness

-----------------------------------------------------------------------------
Clear(max) == Seq(1 .. max)

RelayTypeOK ==
  /\ app \in {"open", "half", "gone"} /\ remote \in {"open", "half", "gone"}
  /\ appSent \in 0 .. MaxUp /\ appBuf \in Clear(MaxUp) /\ appGot \in Seq(Int)
  /\ remoteSent \in 0 .. MaxDown /\ remoteBuf \in Clear(MaxDown) /\ remoteGot \in Seq(Int)
  /\ up \in Seq(Seq(Int)) /\ down \in Seq(Clear(MaxDown))
  /\ Len(up) <= Window /\ Len(down) <= Window
  /\ link \in {"up", "broken"} /\ told \subseteq {"client", "server"}
  /\ dial \in {"connecting", "connected", "failed"}
  /\ task \in [Client \cup Server ->
                 {"waiting", "running", "ended", "closed", "failed", "aborted"}]
  /\ held \in [Client \cup Server -> Seq(Int)]
  /\ held["read_remote"] \in Clear(MaxDown)

\* Whatever way the stream is cut into frames, and whoever leaves or vanishes when, each end
\* receives the bytes the other sent, deciphered, in order and without a gap.
Prefix(got, sent) == Len(got) <= sent /\ \A i \in 1 .. Len(got) : got[i] = i
InOrder == Prefix(remoteGot, appSent) /\ Prefix(appGot, remoteSent)

\* Each direction is a stream of bytes, over for good as soon as its receiver has
\* left or the task that writes to it has ended: what a task still has in hand
\* then, or what lies between, is never written later.
Upload == INSTANCE ByteStream WITH
  sent <- appSent, got <- remoteGot, open <- remote # "gone" /\ ~Over("recv_ws")
UploadStream == Upload!Spec

\* The other direction.
Download == INSTANCE ByteStream WITH
  sent <- remoteSent, got <- appGot, open <- app # "gone" /\ ~Over("write")
DownloadStream == Download!Spec

\* What the application has sent reaches the remote (it sends MaxUp bytes at most),
\* unless one of them leaves, the remote shuts its side, no connection is made or
\* it breaks.
UploadArrives ==
  appSent > Len(remoteGot) ~>
    \/ Len(remoteGot) = appSent
    \/ app = "gone" \/ remote # "open" \/ dial = "failed" \/ link = "broken"

\* What the remote has sent reaches an application that waits for it, though it or
\* the remote has shut its sending side.
DownloadArrives ==
  remoteSent > Len(appGot) ~>
    \/ Len(appGot) = remoteSent
    \/ app = "gone" \/ remote = "gone" \/ link = "broken"

\* All four tasks end once the application sends no more and the remote or the
\* server's side of the tunnel has ended, or the server was told of a break.  The
\* exception is a link that broke without a word to the client: it sends nothing
\* more, nothing times out (src-common/src/proxy.rs:96), and try_join! (:119) waits
\* on, for a host taken away as much as for a network that was left.
RelayEnds ==
  app # "open" /\ (remote # "open" \/ ServerOver \/ "server" \in told) ~>
    \/ ClientOver /\ ServerOver
    \/ link = "broken" /\ "client" \notin told
=============================================================================
