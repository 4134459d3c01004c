------------------------------- MODULE IoWrap -------------------------------
(***************************************************************************)
(* The wrappers around read, write and select (common/common.c), with the  *)
(* transcript that they keep of everything read and written: a file for    *)
(* each descriptor.  The kernel takes and gives as many bytes as it likes, *)
(* and signals interrupt every call.  The bytes of a stream are numbered,  *)
(* so that each of them is told from the others.  On the other end there   *)
(* is a peer, which may hang up.                                           *)
(***************************************************************************)
EXTENDS Integers, SequencesExt

CONSTANTS
  DestSizes,   \* how much a caller of xread has room for
  Lens,        \* how much a caller of xwrite has to write
  PipeCap,     \* bytes the pipe to the peer holds
  MaxOut,      \* bound: bytes that are ever written
  MaxIn        \* bound: bytes that the peer ever sends

ASSUME IoWrapAssumption ==
  /\ DestSizes \subseteq Nat \ {0} /\ Lens \subseteq Nat \ {0}
  /\ PipeCap \in Nat \ {0} /\ MaxOut \in Nat /\ MaxIn \in Nat

Streams == {"in", "out"}

VARIABLES
  pc,          \* "idle" between calls, or the system call that is next
  exit,        \* why the program has ended, or "none"
  destsz, selected,   \* of xread; select has found its descriptor readable
  r,           \* what xread has returned
  len, bc,     \* of ywrite: the length of the data and what is written of it
  asked,       \* bytes that callers have given to xwrite so far
  entry, then, \* of tscribe: the entry, and where it returns to or why the
               \* program ends after it
  tbc,         \* bc of the ywrite to the transcript
  file,        \* the transcripts, without the text around the data
  inPipe, outPipe,   \* bytes in the pipes
  sent, eof,   \* bytes the peer has sent; it has hung up
  accepted     \* history: the bytes the kernel has taken for the peer

callVars == <<destsz, selected, r, len, bc, asked>>
tsVars   == <<entry, then, tbc, file>>
peerVars == <<inPipe, outPipe, sent, eof>>
vars == <<pc, exit, callVars, tsVars, peerVars, accepted>>

NoEntry == [fd |-> "in", data |-> <<>>]

Init ==
  /\ pc = "idle" /\ exit = "none"
  /\ destsz = 0 /\ selected = FALSE /\ r = 0 /\ len = 0 /\ bc = 0 /\ asked = 0
  /\ entry = NoEntry /\ then = "idle" /\ tbc = 0
  /\ file = [fd \in Streams |-> <<>>]
  /\ inPipe = 0 /\ outPipe = 0 /\ sent = 0 /\ eof = FALSE
  /\ accepted = <<>>

\* What is transcribed when there is no data: "[EOF]" and the like.
Marker == <<0>>

Running(where) == exit = "none" /\ pc = where

\* The bytes of a stream from number i on, n of them.
Bytes(i, n) == [k \in 1..n |-> i + k - 1]

C(why) ==
  exit' = why /\ UNCHANGED <<pc, callVars, tsVars, peerVars, accepted>>

\* tscribe is called, and what comes after it.
Transcribe(fd, data, next) ==
  /\ pc' = "open" /\ entry' = [fd |-> fd, data |-> data] /\ then' = next
  /\ UNCHANGED <<exit, tbc, file>>
-----------------------------------------------------------------------------
(* ywrite, with transcription *)

xwrite(n) ==
  /\ Running("idle") /\ asked + n <= MaxOut
  /\ pc' = "write" /\ len' = n /\ bc' = 0 /\ asked' = asked + n
  /\ UNCHANGED <<exit, destsz, selected, r, tsVars, peerVars, accepted>>

\* Mutant: what is transcribed starts at the beginning of the data.
WriteSome_FromStart(n) ==
  /\ Running("write") /\ bc < len /\ ~eof
  /\ n \in 1..Min({len - bc, PipeCap - outPipe})
  /\ accepted' = accepted \o Bytes(asked - len + bc + 1, n)
  /\ bc' = bc + n /\ outPipe' = outPipe + n
  /\ Transcribe("out", Bytes(asked - len + 1, n), "write")
  /\ UNCHANGED <<destsz, selected, r, len, asked, inPipe, sent, eof>>

\* The kernel takes n bytes.
WriteSome(n) ==
  /\ Running("write") /\ bc < len /\ ~eof
  /\ n \in 1..Min({len - bc, PipeCap - outPipe})
  /\ accepted' = accepted \o Bytes(asked - len + bc + 1, n)
  /\ bc' = bc + n /\ outPipe' = outPipe + n
  /\ Transcribe("out", Bytes(asked - len + bc + 1, n), "write")
  /\ UNCHANGED <<destsz, selected, r, len, asked, inPipe, sent, eof>>

\* The call fails, whether the peer is there or not.
WriteFails ==
  /\ Running("write") /\ bc < len
  /\ Transcribe("out", Marker, "write failed")
  /\ UNCHANGED <<callVars, peerVars, accepted>>

\* The kernel takes no byte at all, and does not call it a failure.
WriteZero ==
  /\ Running("write") /\ bc < len
  /\ Transcribe("out", Marker, "write: 0")
  /\ UNCHANGED <<callVars, peerVars, accepted>>

\* Nobody has told the kernel to spare us the signal.
WriteKills == Running("write") /\ bc < len /\ eof /\ C("SIGPIPE")

WriteDone ==
  /\ Running("write") /\ bc = len
  /\ pc' = "idle"
  /\ UNCHANGED <<exit, callVars, tsVars, peerVars, accepted>>
-----------------------------------------------------------------------------
(* xread and selectfd *)

xread(n) ==
  /\ Running("idle")
  /\ pc' = "read" /\ destsz' = n
  /\ UNCHANGED <<exit, selected, r, len, bc, asked, tsVars, peerVars, accepted>>

ReadSome(n) ==
  /\ Running("read") /\ n \in 1..Min({destsz, inPipe})
  /\ r' = n /\ inPipe' = inPipe - n /\ selected' = FALSE
  /\ Transcribe("in", Bytes(sent - inPipe + 1, n), "idle")
  /\ UNCHANGED <<destsz, len, bc, asked, outPipe, sent, eof, accepted>>

\* Mutant: the call is made again also when there is nothing to read.
ReadNothing_Again == Running("read") /\ inPipe = 0 /\ ~eof /\ UNCHANGED vars

\* EAGAIN.
ReadNothing ==
  /\ Running("read") /\ inPipe = 0 /\ ~eof
  /\ r' = -1 /\ pc' = "idle"
  /\ UNCHANGED <<exit, destsz, selected, len, bc, asked, tsVars, peerVars, accepted>>

ReadZero ==
  /\ Running("read") /\ inPipe = 0 /\ eof
  /\ Transcribe("in", Marker, "read: EOF")
  /\ UNCHANGED <<callVars, peerVars, accepted>>

ReadFails ==
  /\ Running("read")
  /\ Transcribe("in", Marker, "read failed")
  /\ UNCHANGED <<callVars, peerVars, accepted>>

selectfd ==
  /\ Running("idle")
  /\ pc' = "select"
  /\ UNCHANGED <<exit, destsz, selected, r, len, bc, asked, tsVars, peerVars, accepted>>

\* Mutant: a signal ends the wait.
SelectReturns_OnSignal ==
  /\ Running("select")
  /\ pc' = "idle" /\ selected' = TRUE
  /\ UNCHANGED <<exit, destsz, r, len, bc, asked, tsVars, peerVars, accepted>>

SelectReturns ==
  /\ Running("select")
  /\ inPipe > 0 \/ eof
  /\ pc' = "idle" /\ selected' = TRUE
  /\ UNCHANGED <<exit, destsz, r, len, bc, asked, tsVars, peerVars, accepted>>

SelectFails == Running("select") /\ C("select")
-----------------------------------------------------------------------------
(* tscribe *)

TsOpen ==
  /\ Running("open")
  /\ pc' = "transcript" /\ tbc' = 0
  /\ UNCHANGED <<exit, callVars, entry, then, file, peerVars, accepted>>

\* ywrite without transcription, to the end of the file.
TsWrite(n) ==
  /\ Running("transcript")
  /\ n \in 1..(Len(entry.data) - tbc)
  /\ file' = [file EXCEPT ![entry.fd] = @ \o SubSeq(entry.data, tbc + 1, tbc + n)]
  /\ tbc' = tbc + n
  /\ UNCHANGED <<pc, exit, callVars, entry, then, peerVars, accepted>>

TsReturn ==
  /\ Running("transcript") /\ tbc = Len(entry.data)
  /\ pc' = IF then \in {"write", "idle"} THEN then ELSE pc
  /\ exit' = IF then \in {"write", "idle"} THEN "none" ELSE then
  /\ UNCHANGED <<callVars, tsVars, peerVars, accepted>>

TsFails == pc \in {"open", "transcript"} /\ exit = "none" /\ C("transcript")
-----------------------------------------------------------------------------
\* Mutant: an interrupted write starts over.
Interrupted_StartsOver ==
  \/ Running("select") /\ UNCHANGED vars
  \/ Running("read") /\ UNCHANGED vars
  \/ /\ Running("write") /\ bc < len
     /\ bc' = 0
     /\ UNCHANGED <<pc, exit, destsz, selected, r, len, asked, tsVars, peerVars, accepted>>

\* EINTR: the call is made again.
Interrupted ==
  \/ Running("select") /\ UNCHANGED vars
  \/ Running("read") /\ UNCHANGED vars
  \/ Running("write") /\ bc < len /\ UNCHANGED vars
  \/ Running("transcript") /\ tbc < Len(entry.data) /\ UNCHANGED vars

Callers == (\E n \in Lens : xwrite(n)) \/ (\E n \in DestSizes : xread(n)) \/ selectfd

Call == \/ \E n \in 1..MaxOut : WriteSome(n)
        \/ (eof /\ WriteFails) \/ WriteKills \/ WriteDone
        \/ \E n \in 1..MaxIn : ReadSome(n)
        \/ ReadNothing \/ ReadZero \/ SelectReturns
        \/ TsOpen \/ TsReturn \/ \E n \in 1..MaxOut + MaxIn : TsWrite(n)

\* What may go wrong at any time, and need not.
Fails == WriteFails \/ WriteZero \/ ReadFails \/ SelectFails \/ TsFails

PeerSends ==
  /\ exit = "none" /\ ~eof /\ sent < MaxIn
  /\ sent' = sent + 1 /\ inPipe' = inPipe + 1
  /\ UNCHANGED <<pc, exit, callVars, tsVars, outPipe, eof, accepted>>

PeerTakes ==
  /\ exit = "none" /\ ~eof /\ outPipe > 0
  /\ outPipe' = 0
  /\ UNCHANGED <<pc, exit, callVars, tsVars, inPipe, sent, eof, accepted>>

PeerHangsUp ==
  /\ exit = "none" /\ ~eof
  /\ eof' = TRUE
  /\ UNCHANGED <<pc, exit, callVars, tsVars, inPipe, outPipe, sent, accepted>>

Ended == exit # "none" /\ UNCHANGED vars

Next == Callers \/ Call \/ Fails \/ Interrupted \/ PeerSends \/ PeerTakes \/ PeerHangsUp \/ Ended

\* A system call that can be completed is not interrupted for ever, and the
\* peer takes what it is sent.
Spec == Init /\ [][Next]_vars /\ WF_vars(Call) /\ WF_vars(PeerTakes)
-----------------------------------------------------------------------------
\* Whatever pieces the kernel takes and wherever signals interrupt, the peer gets
\* the bytes given to xwrite once each and in their order, and all of them by the
\* time the call returns.
OnceInOrder ==
  /\ accepted = Bytes(1, Len(accepted))
  /\ Len(accepted) <= asked
  /\ Running("idle") => Len(accepted) = asked

\* The transcripts tell what was really read and written: between calls all of
\* it, and at no time more than that or less by more than the current entry.
TranscriptTells ==
  \A fd \in Streams :
    LET real == IF fd = "out" THEN accepted ELSE Bytes(1, sent - inPipe)
        lag  == IF pc \in {"open", "transcript"} /\ entry.fd = fd THEN Len(entry.data) ELSE 0
    IN  /\ IsPrefix(file[fd], real \o Marker)
        /\ Len(file[fd]) >= Len(real) - lag
        /\ Running("idle") => file[fd] = real

\* When select has said that there is something to read, xread does not come
\* back without it, as uc_ia.c takes for granted.
ReadableIsRead == [][selected /\ pc = "read" /\ pc' = "idle" => r' # -1]_vars

\* A call returns or the program ends; only select waits for the peer to speak.
CallsReturn == pc # "idle" ~> (pc \in {"idle", "select"} \/ exit # "none")
=============================================================================
