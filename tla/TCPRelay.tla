------------------------------ MODULE TCPRelay ------------------------------
(* One TCP connection of the traced program, from its arrival at the proxy   *)
(* (proxy/tcp.go, handleTCP) through the two copies of RelayTCP, "up" from   *)
(* the program to the remote end and "down" back.  Connections share no      *)
(* state, so one stands for each.  A stream is numbered chunks of bytes.     *)
EXTENDS Naturals, Sequences

CONSTANT MaxChunks      \* bound: chunks sent in each direction

ASSUME MaxChunksAssumption == MaxChunks \in Nat

Dir == {"up", "down"}

Opposite(d) == IF d = "up" THEN "down" ELSE "up"

Chunk == Dir \X (1..MaxChunks)

VARIABLES
  phase,      \* of handleTCP: "none" .. "closed", or "cut" by the end of gg
  source,     \* per direction: what its sending end did, "open", "shut" (FIN), "reset"
  sent,       \* per direction: how many chunks the sending end has sent
  copier,     \* per direction: the goroutine that copies
  buf,        \* the chunk in each buffer
  got,        \* per direction: the chunks written to the receiving end
  failed,     \* per direction: the copy ended with an error
  told,       \* per direction: the receiving end has been told that no more comes
  halfClose   \* the connection through the node has CloseWrite

relayVars == <<phase, source, sent, copier, buf, got, failed, told, halfClose>>

RelayInit ==
  /\ phase = "none"
  /\ source = [d \in Dir |-> "open"]
  /\ sent = [d \in Dir |-> 0]
  /\ copier = [d \in Dir |-> "idle"]
  /\ buf = [d \in Dir |-> <<>>]
  /\ got = [d \in Dir |-> <<>>]
  /\ failed = [d \in Dir |-> FALSE]
  /\ told = [d \in Dir |-> FALSE]
  /\ halfClose = TRUE

RelayTypeOK ==
  /\ phase \in {"none", "accepted", "relaying", "closed", "cut"}
  /\ source \in [Dir -> {"open", "shut", "reset"}]
  /\ sent \in [Dir -> 0..MaxChunks]
  /\ copier \in [Dir -> {"idle", "reading", "writing", "ended"}]
  /\ buf \in [Dir -> Chunk \cup {<<>>}]
  /\ got \in [Dir -> Seq(Chunk)]
  /\ failed \in [Dir -> BOOLEAN]
  /\ told \in [Dir -> BOOLEAN]
  /\ halfClose \in BOOLEAN

-----------------------------------------------------------------------------
\* The two ends.  The kernel has completed the program's connect before the
\* node is dialed, so the program may send at once.

Connected(d) == phase = "relaying" \/ (phase = "accepted" /\ d = "up")

Send(d) ==
  /\ Connected(d)
  /\ source[d] = "open"
  /\ sent[d] < MaxChunks
  /\ sent' = [sent EXCEPT ![d] = @ + 1]
  /\ UNCHANGED <<phase, source, copier, buf, got, failed, told, halfClose>>

Shut(d) ==
  /\ Connected(d)
  /\ source[d] = "open"
  /\ source' = [source EXCEPT ![d] = "shut"]
  /\ UNCHANGED <<phase, sent, copier, buf, got, failed, told, halfClose>>

\* A peer that closed and gets data, or is gone, answers with a reset.
Reset(d) ==
  /\ Connected(d)
  /\ source[d] # "reset"
  /\ source' = [source EXCEPT ![d] = "reset"]
  /\ UNCHANGED <<phase, sent, copier, buf, got, failed, told, halfClose>>

-----------------------------------------------------------------------------
\* handleTCP

Accept ==
  /\ phase = "none"
  /\ phase' = "accepted"
  /\ UNCHANGED <<source, sent, copier, buf, got, failed, told, halfClose>>

\* The target is unknown or the node cannot be dialed; conn is closed.
HandlerFails ==
  /\ phase = "accepted"
  /\ phase' = "closed"
  /\ told' = [told EXCEPT !["down"] = TRUE]
  /\ UNCHANGED <<source, sent, copier, buf, got, failed, halfClose>>

DialSucceeds ==
  /\ phase = "accepted"
  /\ phase' = "relaying"
  /\ halfClose' \in BOOLEAN
  /\ copier' = [d \in Dir |-> "reading"]
  /\ UNCHANGED <<source, sent, buf, got, failed, told>>

-----------------------------------------------------------------------------
\* RelayTCP

\* Faulty variant: both copies use buf.
Slot_Shared(d) == "up"

\* RelayTCP passes one buf to both copies.  Neither uses it: the program's
\* connection is a *net.TCPConn, which reads and writes for io.CopyBuffer
\* (WriterTo, ReaderFrom), each with a buffer of its own.
Slot(d) == d

\* Faulty variant: the buffer is written again when there was nothing to read.
Unread_Again(d) == Len(got[d]) <= sent[d]

Unread(d) == Len(got[d]) < sent[d]

Read(d) ==
  /\ copier[d] = "reading"
  /\ Unread(d)
  /\ buf' = [buf EXCEPT ![Slot(d)] = <<d, Len(got[d]) + 1>>]
  /\ copier' = [copier EXCEPT ![d] = "writing"]
  /\ UNCHANGED <<phase, source, sent, got, failed, told, halfClose>>

Write(d) ==
  /\ copier[d] = "writing"
  /\ source[Opposite(d)] # "reset"
  /\ got' = [got EXCEPT ![d] = Append(@, buf[Slot(d)])]
  /\ copier' = [copier EXCEPT ![d] = "reading"]
  /\ UNCHANGED <<phase, source, sent, buf, failed, told, halfClose>>

\* Faulty variant: only errors end the other end's stream.
CloseWrite_Never(d) == UNCHANGED told

\* The program's connection has CloseWrite, that of the node may not.
CloseWrite(d) == told' = [told EXCEPT ![d] = d = "down" \/ halfClose]

EndOfFile(d) ==
  /\ copier[d] = "reading"
  /\ source[d] = "shut"
  /\ ~Unread(d)
  /\ copier' = [copier EXCEPT ![d] = "ended"]
  /\ CloseWrite(d)
  /\ UNCHANGED <<phase, source, sent, buf, got, failed, halfClose>>

\* A read from, or a write to, an end that was reset fails.  The other end is
\* told that the stream is over as if it had been complete.
CopyFails(d) ==
  /\ \/ copier[d] = "reading" /\ source[d] = "reset"
     \/ copier[d] = "writing" /\ source[Opposite(d)] = "reset"
  /\ copier' = [copier EXCEPT ![d] = "ended"]
  /\ failed' = [failed EXCEPT ![d] = TRUE]
  /\ CloseWrite(d)
  /\ UNCHANGED <<phase, source, sent, buf, got, halfClose>>

Copy(d) == Read(d) \/ Write(d) \/ EndOfFile(d) \/ CopyFails(d)

Ended == \A d \in Dir : copier[d] = "ended"

\* RelayTCP returns, and handleTCP closes both connections.
Return ==
  /\ phase = "relaying"
  /\ Ended
  /\ phase' = "closed"
  /\ told' = [d \in Dir |-> TRUE]
  /\ UNCHANGED <<source, sent, copier, buf, got, failed, halfClose>>

Handle == HandlerFails \/ DialSucceeds \/ Return \/ \E d \in Dir : Copy(d)

\* The process of gg ends: the kernel closes what it had open.
Cut ==
  /\ phase' = IF phase \in {"accepted", "relaying"} THEN "cut" ELSE phase
  /\ copier' = [d \in Dir |-> "ended"]
  /\ buf' = [d \in Dir |-> <<>>]
  /\ UNCHANGED <<source, sent, got, failed, told, halfClose>>

RelayNext ==
  \/ Accept
  \/ Handle
  \/ Cut
  \/ \E d \in Dir : Send(d) \/ Shut(d) \/ Reset(d)

RelaySpec == RelayInit /\ [][RelayNext]_relayVars

RelayFairness ==
  /\ WF_relayVars(HandlerFails \/ DialSucceeds)
  /\ WF_relayVars(Return)
  /\ \A d \in Dir : WF_relayVars(Copy(d))

-----------------------------------------------------------------------------
\* What arrives is what was sent, in order, without a gap or a chunk of the
\* other direction; and whoever is told that a stream is over, by a copy that
\* met no error, has all of it.  It is about the two goroutines of RelayTCP,
\* their buffer, and closing only when both are done (proxy/tcp.go:45).
StreamsIntact ==
  \A d \in Dir :
    /\ got[d] = [i \in 1..Len(got[d]) |-> <<d, i>>]
    /\ Len(got[d]) <= sent[d]
    /\ told[d] /\ ~failed[d] => Len(got[d]) = sent[d]

\* The end of a stream is passed on although the other direction stays open,
\* or an end that waits for it would wait for ever; without CloseWrite it is
\* passed on when both directions are over and the relay returns
\* (proxy/tcp.go:51-64).
EndPassedOn ==
  \A d \in Dir :
    (/\ phase = "relaying"
     /\ source[d] = "shut"
     /\ d = "down" \/ halfClose \/ source["down"] # "open")
      ~> (told[d] \/ phase = "cut")
=============================================================================
