---------------------------- MODULE IoWrapProofs ----------------------------
(***************************************************************************)
(* What the peer gets from xwrite, and what the transcripts say, for every *)
(* size of the calls and of the pipe, however the kernel cuts them up.     *)
(***************************************************************************)
EXTENDS IoWrap, MinFacts

InTscribe == pc \in {"open", "transcript"}

TypeInv ==
  /\ pc \in {"idle", "write", "read", "select", "open", "transcript"}
  /\ destsz \in Nat
  /\ len \in Nat /\ bc \in Nat /\ asked \in Nat /\ tbc \in Nat
  /\ entry \in [fd : Streams, data : Seq(Nat)]
  /\ file \in [Streams -> Seq(Nat)]
  /\ inPipe \in Nat /\ outPipe \in Nat /\ sent \in Nat
  /\ accepted \in Seq(Nat)
  /\ inPipe <= sent

\* The number of bytes the kernel has really taken from or given to the program.
Real == [fd \in Streams |-> IF fd = "out" THEN asked - len + bc ELSE sent - inPipe]

\* The kernel has taken what earlier calls were given and, of this one, what bc
\* says; that is all of it unless the program is in a call.
Written ==
  /\ bc <= len /\ len <= asked
  /\ accepted = Bytes(1, asked - len + bc)
  /\ pc \in {"idle", "read", "select"} => bc = len
  /\ InTscribe /\ then \notin {"write", "write failed", "write: 0"} => bc = len

\* The entry that is being written tells of the last bytes, or it is the marker
\* and the program ends after it.
Entry ==
  InTscribe =>
    \/ /\ then \in {"write", "idle"}
       /\ Len(entry.data) <= Real[entry.fd]
       /\ \A k \in 1..Len(entry.data) :
            entry.data[k] = Real[entry.fd] - Len(entry.data) + k
    \/ then \notin {"write", "idle"} /\ entry.data = Marker

\* How long a transcript is: all that is real, without what is left of the entry.
Recorded(fd) ==
  IF InTscribe /\ entry.fd = fd
  THEN Len(file[fd]) = Real[fd] + (IF then \in {"write", "idle"} THEN 0 ELSE 1)
                       - (Len(entry.data) - (IF pc = "open" THEN 0 ELSE tbc))
  ELSE Len(file[fd]) = Real[fd]

\* What is in it, and how long it is.
Transcripts ==
  /\ pc = "transcript" => tbc <= Len(entry.data)
  /\ \A fd \in Streams :
       /\ Recorded(fd)
       /\ \A k \in 1..Len(file[fd]) : file[fd][k] = IF k <= Real[fd] THEN k ELSE 0

IInv == TypeInv /\ Written /\ Entry /\ Transcripts
-----------------------------------------------------------------------------
\* The bytes from the i-th on are n numbers in a row.
LEMMA BytesType ==
  ASSUME NEW i \in Nat, NEW n \in Nat
  PROVE  /\ Bytes(i, n) \in Seq(Nat) /\ Len(Bytes(i, n)) = n
         /\ i > 0 => \A k \in 1..n : Bytes(i, n)[k] = i + k - 1
  BY DEF Bytes

\* What is written first and what is written then are written in a row.
LEMMA BytesConcat ==
  ASSUME NEW m \in Nat, NEW n \in Nat
  PROVE  Bytes(1, m) \o Bytes(m + 1, n) = Bytes(1, m + n)
  BY DEF Bytes

\* The marker of a failed call is one byte that is none of the numbered
\* ones.
LEMMA MarkerType == Marker \in Seq(Nat) /\ Len(Marker) = 1 /\ Marker[1] = 0
  BY DEF Marker

\* Before the first call nothing has been written, read or told of.
LEMMA IoInit == Init => IInv
<1> SUFFICES ASSUME Init PROVE IInv
  OBVIOUS
<1> USE DEF Init, NoEntry, Streams
<1>0. <<>> \in Seq(Nat)
  OBVIOUS
<1>1. TypeInv
  <2>1. entry \in [fd : Streams, data : Seq(Nat)]
    BY <1>0
  <2>2. file \in [Streams -> Seq(Nat)]
    BY <1>0
  <2>3. QED
    BY <1>0, <2>1, <2>2 DEF TypeInv
<1>2. Written
  BY DEF Written, Bytes, InTscribe
<1>3. Entry /\ Transcripts
  BY DEF Entry, Transcripts, Recorded, Real, InTscribe
<1>4. QED
  BY <1>1, <1>2, <1>3 DEF IInv
-----------------------------------------------------------------------------
(* What every step keeps *)

\* The calls of tscribe: its entry is of the right type.
LEMMA TranscribeType ==
  ASSUME TypeInv, NEW fd \in Streams, NEW data \in Seq(Nat), NEW next,
         Transcribe(fd, data, next)
  PROVE  /\ pc' = "open" /\ entry' \in [fd : Streams, data : Seq(Nat)]
         /\ entry'.fd = fd /\ entry'.data = data /\ then' = next
         /\ tbc' \in Nat /\ file' \in [Streams -> Seq(Nat)]
  BY DEF TypeInv, Transcribe

\* No more is written than is left of the call, or read than is in the pipe.
LEMMA WriteSomeFits ==
  ASSUME IInv, NEW n, WriteSome(n)
  PROVE  n \in Nat /\ n > 0 /\ n <= len - bc /\ asked - len + bc \in Nat
<1> DEFINE m == Min({len - bc, PipeCap - outPipe})
<1>1. len \in Nat /\ bc \in Nat /\ asked \in Nat /\ outPipe \in Nat /\ PipeCap \in Nat
  BY IoWrapAssumption DEF IInv, TypeInv
<1>2. bc <= len /\ len <= asked
  BY DEF IInv, Written
<1>3. len - bc \in Int /\ PipeCap - outPipe \in Int
  BY <1>1
<1>4. m \in Int /\ m <= len - bc
  BY <1>3, MinOfTwo, Zenon
<1>5. n \in 1..m
  BY DEF WriteSome
<1> HIDE DEF m
<1>6. QED
  BY <1>1, <1>2, <1>4, <1>5

\* No more is read than is asked for and than the pipe holds.
LEMMA ReadSomeFits ==
  ASSUME IInv, NEW n, ReadSome(n)
  PROVE  n \in Nat /\ n > 0 /\ n <= inPipe /\ sent - inPipe \in Nat
<1> DEFINE m == Min({destsz, inPipe})
<1>1. destsz \in Nat /\ inPipe \in Nat /\ sent \in Nat /\ inPipe <= sent
  BY DEF IInv, TypeInv
<1>2. destsz \in Int /\ inPipe \in Int
  BY <1>1
<1>3. m \in Int /\ m <= inPipe
  BY <1>2, MinOfTwo, Zenon
<1>4. n \in 1..m
  BY DEF ReadSome
<1> HIDE DEF m
<1>5. QED
  BY <1>1, <1>3, <1>4

\* Every step leaves the variables in their sets.
LEMMA TypeStep ==
  ASSUME IInv, Next
  PROVE  TypeInv'
<1> USE IoWrapAssumption DEF IInv, TypeInv, Running, callVars, tsVars, peerVars, C
<1>1. CASE \E n \in Lens : xwrite(n)
  <2>1. PICK n \in Lens : xwrite(n)
    BY <1>1
  <2>2. n \in Nat
    OBVIOUS
  <2>3. QED
    BY <2>1, <2>2 DEF xwrite
<1>2. CASE (\E n \in DestSizes : xread(n)) \/ selectfd
  BY <1>2 DEF xread, selectfd
<1>3. CASE \E n \in 1..MaxOut : WriteSome(n)
  <2>1. PICK n \in 1..MaxOut : WriteSome(n)
    BY <1>3
  <2>2. n \in Nat /\ n <= len - bc /\ asked - len + bc \in Nat
    BY <2>1, WriteSomeFits
  <2>3. Bytes(asked - len + bc + 1, n) \in Seq(Nat)
    BY <2>2, BytesType
  <2>4. /\ pc' = "open" /\ entry' \in [fd : Streams, data : Seq(Nat)]
        /\ tbc' \in Nat /\ file' \in [Streams -> Seq(Nat)]
    BY <2>1, <2>3, TranscribeType DEF WriteSome, Streams
  <2>5. accepted' \in Seq(Nat)
    BY <2>1, <2>3 DEF WriteSome
  <2>6. /\ destsz' = destsz /\ len' = len /\ bc' = bc + n /\ asked' = asked
        /\ inPipe' = inPipe /\ outPipe' = outPipe + n /\ sent' = sent
    BY <2>1, Zenon DEF WriteSome
  <2>7. bc' \in Nat /\ outPipe' \in Nat
    BY <2>2, <2>6
  <2>8. QED
    BY <2>4, <2>5, <2>6, <2>7
<1>4. CASE \E n \in 1..MaxIn : ReadSome(n)
  <2>1. PICK n \in 1..MaxIn : ReadSome(n)
    BY <1>4
  <2>2. n \in Nat /\ n <= inPipe /\ sent - inPipe \in Nat
    BY <2>1, ReadSomeFits
  <2>3. Bytes(sent - inPipe + 1, n) \in Seq(Nat)
    BY <2>2, BytesType
  <2>4. /\ pc' = "open" /\ entry' \in [fd : Streams, data : Seq(Nat)]
        /\ tbc' \in Nat /\ file' \in [Streams -> Seq(Nat)]
    BY <2>1, <2>3, TranscribeType DEF ReadSome, Streams
  <2>5. /\ destsz' = destsz /\ len' = len /\ bc' = bc /\ asked' = asked
        /\ inPipe' = inPipe - n /\ outPipe' = outPipe /\ sent' = sent
        /\ accepted' = accepted
    BY <2>1, Zenon DEF ReadSome
  <2>6. inPipe' \in Nat /\ inPipe' <= sent'
    BY <2>2, <2>5
  <2>7. QED
    BY <2>4, <2>5, <2>6
<1>5. CASE WriteFails \/ WriteZero \/ ReadZero \/ ReadFails
  <2>1. /\ pc' = "open" /\ entry' \in [fd : Streams, data : Seq(Nat)]
        /\ tbc' \in Nat /\ file' \in [Streams -> Seq(Nat)]
    BY <1>5, MarkerType, TranscribeType DEF WriteFails, WriteZero, ReadZero, ReadFails, Streams
  <2>2. QED
    BY <1>5, <2>1 DEF WriteFails, WriteZero, ReadZero, ReadFails
<1>6. CASE WriteKills \/ SelectFails \/ TsFails
  BY <1>6 DEF WriteKills, SelectFails, TsFails
<1>7. CASE WriteDone \/ ReadNothing \/ SelectReturns
  BY <1>7 DEF WriteDone, ReadNothing, SelectReturns
<1>8. CASE TsOpen \/ TsReturn
  BY <1>8 DEF TsOpen, TsReturn
<1>9. CASE \E n \in 1..MaxOut + MaxIn : TsWrite(n)
  <2>1. PICK n \in 1..MaxOut + MaxIn : TsWrite(n)
    BY <1>9
  <2>2. n <= Len(entry.data) - tbc /\ entry.data \in Seq(Nat) /\ entry.fd \in Streams
    BY <2>1 DEF TsWrite
  <2>3. SubSeq(entry.data, tbc + 1, tbc + n) \in Seq(Nat)
    BY <2>2
  <2>4. file[entry.fd] \o SubSeq(entry.data, tbc + 1, tbc + n) \in Seq(Nat)
    BY <2>2, <2>3
  <2>5. file' \in [Streams -> Seq(Nat)]
    BY <2>1, <2>2, <2>4 DEF TsWrite
  <2>6. QED
    BY <2>1, <2>5 DEF TsWrite
<1>10. CASE Interrupted \/ Ended
  BY <1>10 DEF Interrupted, Ended, vars
<1>11. CASE PeerSends \/ PeerTakes \/ PeerHangsUp
  <2>1. CASE PeerSends
    BY <2>1 DEF PeerSends
  <2>2. CASE PeerTakes
    BY <2>2 DEF PeerTakes
  <2>3. CASE PeerHangsUp
    BY <2>3 DEF PeerHangsUp
  <2>4. QED
    BY <1>11, <2>1, <2>2, <2>3
<1>12. QED
  BY <1>1, <1>2, <1>3, <1>4, <1>5, <1>6, <1>7, <1>8, <1>9, <1>10, <1>11
     DEF Next, Callers, Call, Fails
-----------------------------------------------------------------------------
(* What the peer gets *)

\* Every step keeps what the peer has and what is left of the call
\* together.
LEMMA WrittenStep ==
  ASSUME IInv, Next
  PROVE  Written'
<1>0. /\ len \in Nat /\ bc \in Nat /\ asked \in Nat
      /\ pc \in {"idle", "write", "read", "select", "open", "transcript"}
      /\ bc <= len /\ len <= asked /\ accepted = Bytes(1, asked - len + bc)
      /\ pc \in {"idle", "read", "select"} => bc = len
      /\ pc \in {"open", "transcript"} /\ then \notin {"write", "write failed", "write: 0"} => bc = len
  BY DEF IInv, TypeInv, Written, InTscribe
<1> USE DEF Written, InTscribe, Running, callVars, tsVars, peerVars, C
<1>1. CASE \E n \in Lens : xwrite(n)
  <2>1. PICK n \in Lens : xwrite(n)
    BY <1>1
  <2>2. n \in Nat
    BY IoWrapAssumption
  <2>3. /\ len' = n /\ bc' = 0 /\ asked' = asked + n /\ accepted' = accepted
        /\ pc = "idle" /\ pc' = "write"
    BY <2>1 DEF xwrite
  <2>4. asked' - len' + bc' = asked - len + bc
    BY <1>0, <2>2, <2>3
  <2>5. accepted' = Bytes(1, asked' - len' + bc')
    BY <1>0, <2>3, <2>4
  <2>6. QED
    BY <1>0, <2>2, <2>3, <2>5
<1>2. CASE \E n \in 1..MaxOut : WriteSome(n)
  <2>1. PICK n \in 1..MaxOut : WriteSome(n)
    BY <1>2
  <2>2. n \in Nat /\ n <= len - bc /\ asked - len + bc \in Nat
    BY <2>1, WriteSomeFits
  <2>3. /\ len' = len /\ bc' = bc + n /\ asked' = asked
        /\ accepted' = accepted \o Bytes(asked - len + bc + 1, n)
        /\ pc' = "open" /\ then' = "write"
    BY <2>1 DEF WriteSome, Transcribe
  <2> DEFINE m == asked - len + bc
             t == asked' - len' + bc'
  <2>4. m \in Nat /\ accepted = Bytes(1, m) /\ accepted' = accepted \o Bytes(m + 1, n)
    BY <1>0, <2>2, <2>3, Zenon
  <2>5. len \in Nat /\ bc \in Nat /\ asked \in Nat /\ bc <= len /\ len <= asked
    BY <1>0, Zenon
  <2>6. t = m + n /\ bc' <= len' /\ len' <= asked'
    <3>1. len' = len /\ bc' = bc + n /\ asked' = asked
      BY <2>3, Zenon
    <3>2. QED
      BY <2>2, <2>5, <3>1
  <2> HIDE DEF m
  <2>7. accepted' = Bytes(1, m + n)
    BY <2>2, <2>4, BytesConcat, Zenon
  <2>8. accepted' = Bytes(1, t)
    BY <2>6, <2>7, Zenon
  <2>9. pc' = "open" /\ then' = "write"
    BY <2>3, Zenon
  <2>10. QED
    BY <2>6, <2>8, <2>9, Zenon
<1>3. CASE (\E n \in DestSizes : xread(n)) \/ selectfd \/ WriteDone \/ ReadNothing \/ SelectReturns
  BY <1>0, <1>3 DEF xread, selectfd, WriteDone, ReadNothing, SelectReturns
<1>4. CASE (\E n \in 1..MaxIn : ReadSome(n)) \/ ReadZero \/ ReadFails
  BY <1>0, <1>4 DEF ReadSome, ReadZero, ReadFails, Transcribe
<1>5. CASE WriteFails \/ WriteZero \/ WriteKills \/ SelectFails \/ TsFails
  BY <1>0, <1>5 DEF WriteFails, WriteZero, WriteKills, SelectFails, TsFails, Transcribe
<1>6. CASE TsOpen \/ TsReturn \/ \E n \in 1..MaxOut + MaxIn : TsWrite(n)
  BY <1>0, <1>6 DEF TsOpen, TsReturn, TsWrite
<1>7. CASE Interrupted \/ Ended
  BY <1>0, <1>7 DEF Interrupted, Ended, vars
<1>8. CASE PeerSends \/ PeerTakes \/ PeerHangsUp
  BY <1>0, <1>8 DEF PeerSends, PeerTakes, PeerHangsUp
<1>9. QED
  BY <1>1, <1>2, <1>3, <1>4, <1>5, <1>6, <1>7, <1>8 DEF Next, Callers, Call, Fails
-----------------------------------------------------------------------------
(* What the transcripts say *)

\* The numbers of bytes really taken and given are natural numbers.
LEMMA RealType ==
  ASSUME IInv
  PROVE  Real \in [Streams -> Nat]
<1>1. /\ len \in Nat /\ bc \in Nat /\ asked \in Nat
      /\ inPipe \in Nat /\ sent \in Nat /\ inPipe <= sent
  BY DEF IInv, TypeInv
<1>2. len <= asked
  BY DEF IInv, Written
<1>3. QED
  BY <1>1, <1>2 DEF Real

\* When tscribe is called, after a call that gave or took the bytes of data or
\* after one that failed.
LEMMA TranscribeKeeps ==
  ASSUME IInv, ~InTscribe, NEW fd \in Streams, NEW data \in Seq(Nat), NEW next,
         Transcribe(fd, data, next),
         \/ /\ next \in {"write", "idle"} /\ Real'[fd] = Real[fd] + Len(data)
            /\ \A k \in 1..Len(data) : data[k] = Real[fd] + k
         \/ next \notin {"write", "idle"} /\ data = Marker /\ Real'[fd] = Real[fd],
         \A x \in Streams \ {fd} : Real'[x] = Real[x]
  PROVE  Entry' /\ Transcripts'
<1>1. /\ pc' = "open" /\ entry'.fd = fd /\ entry'.data = data
      /\ then' = next /\ file' = file
  BY TranscribeType DEF IInv, Transcribe
<1>2. /\ Real \in [Streams -> Nat] /\ Len(data) \in Nat
      /\ file \in [Streams -> Seq(Nat)]
  BY RealType DEF IInv, TypeInv
<1>3. Entry'
  BY <1>1, <1>2 DEF Entry, InTscribe
<1>4. ASSUME NEW x \in Streams
      PROVE  /\ Recorded(x)'
             /\ \A k \in 1..Len(file'[x]) : file'[x][k] = IF k <= Real'[x] THEN k ELSE 0
  <2>1. /\ Len(file[x]) = Real[x]
        /\ \A k \in 1..Len(file[x]) : file[x][k] = IF k <= Real[x] THEN k ELSE 0
    BY DEF IInv, Transcripts, Recorded
  <2>2. Real[x] \in Nat /\ Real[fd] \in Nat
    BY <1>2
  <2>3. CASE x # fd
    <3>1. Real'[x] = Real[x] /\ entry'.fd # x /\ file'[x] = file[x]
      BY <1>1, <2>3, Zenon
    <3>2. QED
      BY <2>1, <3>1, Zenon DEF Recorded
  <2>4. CASE x = fd
    <3> DEFINE more == IF then' \in {"write", "idle"} THEN 0 ELSE 1
               n == Len(data)
               old == Real[x]
               new == Real'[x]
    <3>0. \/ next \in {"write", "idle"} /\ new = old + n
          \/ next \notin {"write", "idle"} /\ n = 1 /\ new = old
      BY <2>4, MarkerType, Zenon
    <3>1. then' = next /\ n \in Nat /\ old \in Nat
      BY <1>1, <1>2, <2>2
    <3> HIDE DEF n, old, new
    <3>2. new = old + n - more /\ more \in {0, 1} /\ n >= more
      BY <3>0, <3>1
    <3> USE DEF n, old, new
    <3>3. Real[x] <= Real'[x]
      BY <3>1, <3>2
    <3>4. Recorded(x)'
      BY <1>1, <2>1, <2>4, <3>1, <3>2 DEF Recorded, InTscribe
    <3>5. ASSUME NEW k \in 1..Len(file'[x])
          PROVE  file'[x][k] = IF k <= Real'[x] THEN k ELSE 0
      <4>1. k \in 1..Len(file[x]) /\ file'[x][k] = file[x][k]
        BY <1>1
      <4>2. k \in Nat /\ k <= Real[x] /\ file[x][k] = k
        BY <1>2, <2>1, <2>2, <4>1
      <4>3. Real'[x] \in Nat
        BY <3>1, <3>2
      <4>4. k <= Real'[x]
        BY <2>2, <3>3, <4>2, <4>3
      <4>5. QED
        BY <4>1, <4>2, <4>4
    <3>6. QED
      BY <3>4, <3>5
  <2>5. QED
    BY <2>3, <2>4
<1>5. pc' # "transcript"
  BY <1>1
<1>6. Transcripts'
  BY <1>4, <1>5, Zenon DEF Transcripts
<1>7. QED
  BY <1>3, <1>6

\* Steps that go on or end outside of tscribe.
LEMMA OutsideKeeps ==
  ASSUME IInv, ~InTscribe, ~InTscribe', file' = file, Real' = Real
  PROVE  Entry' /\ Transcripts'
<1>1. Entry'
  BY DEF Entry
<1>2. \A fd \in Streams :
        /\ Recorded(fd)'
        /\ \A k \in 1..Len(file'[fd]) : file'[fd][k] = IF k <= Real'[fd] THEN k ELSE 0
  BY DEF IInv, Transcripts, Recorded
<1>3. pc' # "transcript"
  BY DEF InTscribe
<1>4. Transcripts'
  BY <1>2, <1>3, Zenon DEF Transcripts
<1>5. QED
  BY <1>1, <1>4

\* Steps of others, and calls that are made again.
LEMMA OthersKeep ==
  ASSUME IInv, UNCHANGED <<pc, tsVars>>, Real' = Real
  PROVE  Entry' /\ Transcripts'
<1>1. Entry'
  BY DEF IInv, Entry, InTscribe, tsVars
<1>2. Transcripts'
  BY DEF IInv, Transcripts, Recorded, InTscribe, tsVars
<1>3. QED
  BY <1>1, <1>2

\* The kernel takes a piece: tscribe is called with exactly that piece.
LEMMA WriteSomeKeeps ==
  ASSUME IInv, NEW n, WriteSome(n)
  PROVE  Entry' /\ Transcripts'
<1> DEFINE data == Bytes(asked - len + bc + 1, n)
<1>1. n \in Nat /\ n > 0 /\ n <= len - bc /\ asked - len + bc \in Nat
  BY WriteSomeFits
<1>2. asked - len + bc + 1 \in Nat /\ asked - len + bc + 1 > 0
  BY <1>1
<1>3. /\ data \in Seq(Nat) /\ Len(data) = n
      /\ \A k \in 1..n : data[k] = (asked - len + bc + 1) + k - 1
  BY <1>1, <1>2, BytesType, Zenon
<1>4. Transcribe("out", data, "write") /\ ~InTscribe /\ "out" \in Streams
  BY Zenon DEF WriteSome, Running, InTscribe, Streams
<1>5. Real["out"] = asked - len + bc /\ Real'["out"] = asked - len + (bc + n)
  BY DEF WriteSome, Real, Streams
<1>0. len \in Nat /\ bc \in Nat /\ asked \in Nat
  BY DEF IInv, TypeInv
<1> HIDE DEF data
<1>6. /\ Real'["out"] = Real["out"] + Len(data)
      /\ \A k \in 1..Len(data) : data[k] = Real["out"] + k
  BY <1>0, <1>1, <1>3, <1>5
<1>7. \A x \in Streams \ {"out"} : Real'[x] = Real[x]
  BY DEF WriteSome, Real, Streams
<1>8. QED
  BY <1>3, <1>4, <1>6, <1>7, TranscribeKeeps, Zenon

\* The kernel gives some bytes: tscribe is called with exactly these.
LEMMA ReadSomeKeeps ==
  ASSUME IInv, NEW n, ReadSome(n)
  PROVE  Entry' /\ Transcripts'
<1> DEFINE data == Bytes(sent - inPipe + 1, n)
<1>1. n \in Nat /\ n > 0 /\ n <= inPipe /\ sent - inPipe \in Nat
  BY ReadSomeFits
<1>2. sent - inPipe + 1 \in Nat /\ sent - inPipe + 1 > 0
  BY <1>1
<1>3. /\ data \in Seq(Nat) /\ Len(data) = n
      /\ \A k \in 1..n : data[k] = (sent - inPipe + 1) + k - 1
  BY <1>1, <1>2, BytesType, Zenon
<1>4. Transcribe("in", data, "idle") /\ ~InTscribe /\ "in" \in Streams
  BY Zenon DEF ReadSome, Running, InTscribe, Streams
<1>5. Real["in"] = sent - inPipe /\ Real'["in"] = sent - (inPipe - n)
  BY DEF ReadSome, Real, Streams
<1>6. inPipe \in Nat /\ sent \in Nat
  BY DEF IInv, TypeInv
<1> HIDE DEF data
<1>7. /\ Real'["in"] = Real["in"] + Len(data)
      /\ \A k \in 1..Len(data) : data[k] = Real["in"] + k
  BY <1>1, <1>3, <1>5, <1>6
<1>8. \A x \in Streams \ {"in"} : Real'[x] = Real[x]
  BY DEF ReadSome, Real, Streams
<1>9. QED
  BY <1>3, <1>4, <1>7, <1>8, TranscribeKeeps, Zenon

\* A call that fails, or finds the end of file.
LEMMA FailureKeeps ==
  ASSUME IInv, WriteFails \/ WriteZero \/ ReadZero \/ ReadFails
  PROVE  Entry' /\ Transcripts'
<1>1. ~InTscribe /\ Real' = Real
  BY DEF WriteFails, WriteZero, ReadZero, ReadFails, Running, InTscribe, Real, callVars, peerVars
<1>2. PICK fd \in Streams, next \in {"write failed", "write: 0", "read: EOF", "read failed"} :
           Transcribe(fd, Marker, next)
  BY Zenon DEF WriteFails, WriteZero, ReadZero, ReadFails, Streams
<1>3. next \notin {"write", "idle"}
  BY <1>2
<1>4. QED
  BY <1>1, <1>2, <1>3, MarkerType, TranscribeKeeps, Zenon

\* The transcript is opened; nothing of the entry has been written yet.
LEMMA TsOpenKeeps ==
  ASSUME IInv, TsOpen
  PROVE  Entry' /\ Transcripts'
<1>1. /\ pc = "open" /\ pc' = "transcript" /\ tbc' = 0
      /\ entry' = entry /\ then' = then /\ file' = file /\ Real' = Real
  BY DEF TsOpen, Running, Real, callVars, peerVars
<1>2. Entry'
  BY <1>1 DEF IInv, Entry, InTscribe
<1>3. \A fd \in Streams :
        /\ Recorded(fd)'
        /\ \A k \in 1..Len(file'[fd]) : file'[fd][k] = IF k <= Real'[fd] THEN k ELSE 0
  BY <1>1 DEF IInv, Transcripts, Recorded, InTscribe
<1>4. tbc' <= Len(entry'.data)
  BY <1>1 DEF IInv, TypeInv
<1>5. Transcripts'
  BY <1>3, <1>4, Zenon DEF Transcripts
<1>6. QED
  BY <1>2, <1>5

\* The entry is complete, and whoever called tscribe goes on or ends the
\* program.
LEMMA TsReturnKeeps ==
  ASSUME IInv, TsReturn
  PROVE  Entry' /\ Transcripts'
<1>1. pc = "transcript" /\ tbc = Len(entry.data) /\ tsVars' = tsVars /\ Real' = Real
  BY DEF TsReturn, Running, Real, callVars, peerVars
<1>2. CASE then \notin {"write", "idle"}
  <2>1. pc' = pc
    BY <1>2 DEF TsReturn
  <2>2. QED
    BY <1>1, <2>1, OthersKeep, Zenon
<1>3. CASE then \in {"write", "idle"}
  <2>1. ~InTscribe'
    BY <1>3 DEF TsReturn, InTscribe
  <2>2. Entry'
    BY <2>1 DEF Entry
  <2>3. ASSUME NEW fd \in Streams
        PROVE  /\ Recorded(fd)'
               /\ \A k \in 1..Len(file'[fd]) : file'[fd][k] = IF k <= Real'[fd] THEN k ELSE 0
    <3>1. /\ Real[fd] \in Nat /\ Len(file[fd]) \in Nat
          /\ Len(entry.data) \in Nat /\ file' = file
      BY <1>1, RealType DEF IInv, TypeInv, tsVars
    <3>2. Len(file[fd]) = Real[fd]
      BY <1>1, <1>3, <3>1 DEF IInv, Transcripts, Recorded, InTscribe
    <3>3. QED
      BY <1>1, <2>1, <3>1, <3>2 DEF IInv, Transcripts, Recorded
  <2>4. pc' # "transcript"
    BY <2>1 DEF InTscribe
  <2>5. Transcripts'
    BY <2>3, <2>4, Zenon DEF Transcripts
  <2>6. QED
    BY <2>2, <2>5
<1>4. QED
  BY <1>2, <1>3

\* Concatenation, element by element.
LEMMA ConcatNat ==
  ASSUME NEW a \in Seq(Nat), NEW b \in Seq(Nat)
  PROVE  /\ a \o b \in Seq(Nat) /\ Len(a \o b) = Len(a) + Len(b)
         /\ \A k \in 1..Len(a) + Len(b) :
              (a \o b)[k] = IF k <= Len(a) THEN a[k] ELSE b[k - Len(a)]
  OBVIOUS

\* A part of a sequence, element by element.
LEMMA PartNat ==
  ASSUME NEW data \in Seq(Nat), NEW t \in Nat, NEW n \in Nat, t + n <= Len(data)
  PROVE  /\ SubSeq(data, t + 1, t + n) \in Seq(Nat)
         /\ Len(SubSeq(data, t + 1, t + n)) = n
         /\ \A k \in 1..n : SubSeq(data, t + 1, t + n)[k] = data[t + k]
<1>1. t + 1 \in Nat /\ t + n \in Nat /\ (t + n) - (t + 1) + 1 = n
  OBVIOUS
<1>2. SubSeq(data, t + 1, t + n) = [k \in 1..n |-> data[k + (t + 1) - 1]]
  BY <1>1
<1>3. \A k \in 1..n : data[k + (t + 1) - 1] \in Nat /\ k + (t + 1) - 1 = t + k
  OBVIOUS
<1>4. QED
  BY <1>2, <1>3

\* What a part of some data becomes at the end of a file.
LEMMA AppendPart ==
  ASSUME NEW old \in Seq(Nat), NEW data \in Seq(Nat), NEW t \in Nat, NEW n \in Nat,
         t + n <= Len(data)
  PROVE  /\ old \o SubSeq(data, t + 1, t + n) \in Seq(Nat)
         /\ Len(old \o SubSeq(data, t + 1, t + n)) = Len(old) + n
         /\ \A k \in 1..Len(old) + n :
              (old \o SubSeq(data, t + 1, t + n))[k]
                = IF k <= Len(old) THEN old[k] ELSE data[t + (k - Len(old))]
<1> DEFINE part == SubSeq(data, t + 1, t + n)
<1>1. part \in Seq(Nat) /\ Len(part) = n /\ \A k \in 1..n : part[k] = data[t + k]
  BY PartNat
<1> HIDE DEF part
<1>2. /\ old \o part \in Seq(Nat) /\ Len(old \o part) = Len(old) + n
      /\ \A k \in 1..Len(old) + n :
           (old \o part)[k] = IF k <= Len(old) THEN old[k] ELSE part[k - Len(old)]
  BY <1>1, ConcatNat, Zenon
<1>3. \A k \in 1..Len(old) + n : ~(k <= Len(old)) => k - Len(old) \in 1..n
  OBVIOUS
<1>4. QED
  BY <1>1, <1>2, <1>3, Zenon DEF part

\* The part of an entry that tells of the last bytes; L is its length.
LEMMA DataPart ==
  ASSUME NEW real \in Nat, NEW L \in Nat, NEW o \in Nat, NEW t \in Nat, NEW n \in Nat,
         t + n <= L, o = real - (L - t), NEW k \in 1..o + n
  PROVE  /\ k <= real
         /\ ~(k <= o) => t + (k - o) \in 1..L /\ real - L + (t + (k - o)) = k
  OBVIOUS

\* The marker, which is behind all that is real.
LEMMA MarkerPart ==
  ASSUME NEW real \in Nat, NEW o \in Nat, NEW t \in Nat, NEW n \in Nat,
         n > 0, t + n <= 1, o = real + 1 - (1 - t), NEW k \in 1..o + n, ~(k <= o)
  PROVE  t + (k - o) = 1 /\ ~(k <= real)
  OBVIOUS

\* A piece of the entry is appended to the transcript of its stream.
LEMMA TsWriteKeeps ==
  ASSUME IInv, NEW n, TsWrite(n)
  PROVE  Entry' /\ Transcripts'
<1> DEFINE data  == entry.data
           old   == file[entry.fd]
           new   == SubSeq(data, tbc + 1, tbc + n)
           real  == Real[entry.fd]
           extra == IF then \in {"write", "idle"} THEN 0 ELSE 1
<1>1. /\ pc = "transcript" /\ pc' = "transcript" /\ tbc' = tbc + n
      /\ entry' = entry /\ then' = then /\ Real' = Real
      /\ n \in 1..(Len(data) - tbc)
      /\ file' = [file EXCEPT ![entry.fd] = old \o new]
  BY DEF TsWrite, Running, Real, peerVars, callVars
<1>2. /\ entry.fd \in Streams /\ data \in Seq(Nat) /\ tbc \in Nat
      /\ file \in [Streams -> Seq(Nat)] /\ old \in Seq(Nat)
  BY DEF IInv, TypeInv
<1>3. n \in Nat /\ n > 0 /\ tbc + n <= Len(data) /\ Len(data) \in Nat
  BY <1>1, <1>2
<1>4. real \in Nat
  BY <1>2, RealType
<1>5. Entry'
  BY <1>1 DEF IInv, Entry, InTscribe
<1> DEFINE L == Len(data)
           o == Len(old)
           f == old \o new
<1>6. /\ f \in Seq(Nat) /\ Len(f) = o + n
      /\ \A k \in 1..o + n : f[k] = IF k <= o THEN old[k] ELSE data[tbc + (k - o)]
  <2> HIDE DEF data, old
  <2>1. data \in Seq(Nat) /\ old \in Seq(Nat) /\ tbc \in Nat /\ n \in Nat /\ tbc + n <= Len(data)
    BY <1>2, <1>3
  <2>2. QED
    BY <2>1, AppendPart, ZenonT(60)
<1>7. o = real + extra - (L - tbc)
  BY <1>1, <1>2 DEF IInv, Transcripts, Recorded, InTscribe
<1>8. /\ file'[entry.fd] = f
      /\ \A x \in Streams \ {entry.fd} : file'[x] = file[x]
  BY <1>1, <1>2
<1>9. \/ extra = 0 /\ \A k \in 1..L : data[k] = real - L + k
      \/ extra = 1 /\ L = 1 /\ data[1] = 0
  BY <1>1, MarkerType DEF IInv, Entry, InTscribe
<1>10. \A k \in 1..o : old[k] = IF k <= real THEN k ELSE 0
  BY <1>2 DEF IInv, Transcripts
<1>11. o \in Nat
  BY <1>2
<1>12. ASSUME NEW k \in 1..Len(f)
       PROVE  f[k] = IF k <= real THEN k ELSE 0
  <2> HIDE DEF data, old, new, real, extra, L, o, f
  <2>1. k \in 1..o + n
    BY <1>6
  <2>2. f[k] = IF k <= o THEN old[k] ELSE data[tbc + (k - o)]
    BY <1>6, <2>1, Zenon
  <2>3. CASE k <= o
    <3>1. k \in 1..o
      BY <1>3, <1>11, <2>1, <2>3
    <3>2. QED
      BY <1>10, <2>2, <2>3, <3>1, Zenon
  <2>4. CASE ~(k <= o)
    <3>1. CASE extra = 0 /\ \A i \in 1..L : data[i] = real - L + i
      <4>1. o = real - (L - tbc)
        BY <1>2, <1>3, <1>4, <1>7, <3>1 DEF L
      <4>2. /\ k <= real
            /\ tbc + (k - o) \in 1..L /\ real - L + (tbc + (k - o)) = k
        BY <1>2, <1>3, <1>4, <1>11, <2>1, <2>4, <4>1, DataPart DEF L
      <4>3. QED
        BY <2>2, <2>4, <3>1, <4>2, Zenon
    <3>2. CASE extra = 1 /\ L = 1 /\ data[1] = 0
      <4>1. tbc + n <= 1 /\ o = real + 1 - (1 - tbc)
        BY <1>3, <1>7, <3>2 DEF L
      <4>2. tbc + (k - o) = 1 /\ ~(k <= real)
        BY <1>2, <1>3, <1>4, <1>11, <2>1, <2>4, <4>1, MarkerPart
      <4>3. QED
        BY <2>2, <2>4, <3>2, <4>2, Zenon
    <3>3. QED
      BY <1>9, <3>1, <3>2, Zenon DEF L
  <2>5. QED
    BY <2>3, <2>4
<1>13. ASSUME NEW fd \in Streams
       PROVE  /\ Recorded(fd)'
              /\ \A k \in 1..Len(file'[fd]) : file'[fd][k] = IF k <= Real'[fd] THEN k ELSE 0
  <2>1. CASE fd # entry.fd
    <3>1. file'[fd] = file[fd] /\ entry'.fd # fd /\ Real'[fd] = Real[fd]
      BY <1>1, <1>8, <2>1, Zenon
    <3>2. entry.fd # fd
      BY <2>1
    <3>3. /\ Len(file[fd]) = Real[fd]
          /\ \A k \in 1..Len(file[fd]) : file[fd][k] = IF k <= Real[fd] THEN k ELSE 0
      BY <3>2, Zenon DEF IInv, Transcripts, Recorded
    <3>4. QED
      BY <3>1, <3>3, Zenon DEF Recorded
  <2>2. CASE fd = entry.fd
    <3>1. Len(f) = real + extra - (L - (tbc + n))
      <4>1. Len(f) = o + n /\ extra \in {0, 1} /\ L \in Nat
        BY <1>3, <1>6
      <4> HIDE DEF f, o, real, extra, L
      <4>2. QED
        BY <1>2, <1>3, <1>4, <1>7, <1>11, <4>1
    <3>2. file'[fd] = f /\ Real'[fd] = real /\ entry'.data = data
      BY <1>1, <1>8, <2>2, Zenon
    <3>3. Recorded(fd)'
      BY <1>1, <2>2, <3>1, <3>2, Zenon DEF Recorded, InTscribe
    <3>4. QED
      BY <1>12, <3>2, <3>3, Zenon
  <2>3. QED
    BY <2>1, <2>2
<1>14. tbc' <= Len(entry'.data)
  BY <1>1, <1>3
<1>15. Transcripts'
  BY <1>13, <1>14, Zenon DEF Transcripts
<1>16. QED
  BY <1>5, <1>15

\* Every step keeps the transcripts true.
LEMMA TranscriptsStep ==
  ASSUME IInv, Next
  PROVE  Entry' /\ Transcripts'
<1>0. /\ len \in Nat /\ bc \in Nat /\ asked \in Nat /\ inPipe \in Nat /\ sent \in Nat
      /\ pc = "idle" => bc = len
  BY Zenon DEF IInv, TypeInv, Written
<1>1. CASE \E n \in Lens : xwrite(n)
  <2>1. PICK n \in Lens : xwrite(n)
    BY <1>1
  <2>2. n \in Nat
    BY IoWrapAssumption
  <2>3. Real' = Real
    BY <1>0, <2>1, <2>2 DEF xwrite, Running, Real, peerVars
  <2>4. QED
    BY <2>1, <2>3, OutsideKeeps DEF xwrite, Running, InTscribe, tsVars
<1>2. CASE (\E n \in DestSizes : xread(n)) \/ selectfd \/ WriteDone \/ ReadNothing \/ SelectReturns
  <2>1. ~InTscribe /\ ~InTscribe' /\ file' = file
    BY <1>2 DEF xread, selectfd, WriteDone, ReadNothing, SelectReturns, Running, InTscribe, tsVars
  <2>2. Real' = Real
    BY <1>2 DEF xread, selectfd, WriteDone, ReadNothing, SelectReturns, Real, callVars, peerVars
  <2>3. QED
    BY <2>1, <2>2, OutsideKeeps
<1>3. CASE WriteKills \/ SelectFails \/ TsFails \/ Interrupted \/ Ended
  <2>1. UNCHANGED <<pc, tsVars, callVars, peerVars>>
    BY <1>3 DEF WriteKills, SelectFails, TsFails, Interrupted, Ended, C, vars
  <2>2. Real' = Real
    BY <2>1 DEF Real, callVars, peerVars
  <2>3. QED
    BY <2>1, <2>2, OthersKeep
<1>4. CASE PeerSends \/ PeerTakes \/ PeerHangsUp
  <2>1. UNCHANGED <<pc, tsVars, callVars>>
    BY <1>4 DEF PeerSends, PeerTakes, PeerHangsUp
  <2>2. sent' - inPipe' = sent - inPipe
    <3>1. CASE PeerSends
      BY <1>0, <3>1 DEF PeerSends
    <3>2. CASE PeerTakes \/ PeerHangsUp
      BY <3>2 DEF PeerTakes, PeerHangsUp
    <3>3. QED
      BY <1>4, <3>1, <3>2
  <2>3. Real' = Real
    BY <2>1, <2>2 DEF Real, callVars
  <2>4. QED
    BY <2>1, <2>3, OthersKeep
<1>5. CASE WriteFails \/ WriteZero \/ ReadZero \/ ReadFails
  BY <1>5, FailureKeeps
<1>6. CASE \/ \E n \in 1..MaxOut : WriteSome(n)
           \/ \E n \in 1..MaxIn : ReadSome(n)
           \/ \E n \in 1..MaxOut + MaxIn : TsWrite(n)
  BY <1>6, WriteSomeKeeps, ReadSomeKeeps, TsWriteKeeps, Zenon
<1>7. CASE TsOpen \/ TsReturn
  BY <1>7, TsOpenKeeps, TsReturnKeeps
<1>8. QED
  BY <1>1, <1>2, <1>3, <1>4, <1>5, <1>6, <1>7, Zenon DEF Next, Callers, Call, Fails
-----------------------------------------------------------------------------
\* The inductive invariant holds in every state.
LEMMA IoInvariant == Spec => []IInv
<1>1. ASSUME IInv, [Next]_vars
      PROVE  IInv'
  <2>1. CASE Next
    <3>1. TypeInv'
      BY <1>1, <2>1, TypeStep
    <3>2. Written'
      BY <1>1, <2>1, WrittenStep
    <3>3. Entry' /\ Transcripts'
      BY <1>1, <2>1, TranscriptsStep
    <3>4. QED
      BY <3>1, <3>2, <3>3 DEF IInv
  <2>2. CASE UNCHANGED vars
    <3>1. /\ pc' = pc /\ destsz' = destsz /\ len' = len /\ bc' = bc /\ asked' = asked
          /\ entry' = entry /\ then' = then /\ tbc' = tbc /\ file' = file
          /\ inPipe' = inPipe /\ outPipe' = outPipe /\ sent' = sent
          /\ accepted' = accepted
      BY <2>2 DEF vars, callVars, tsVars, peerVars
    <3>2. TypeInv'
      BY <1>1, <3>1 DEF IInv, TypeInv
    <3>3. Written'
      BY <1>1, <3>1, Zenon DEF IInv, Written, InTscribe
    <3>4. UNCHANGED <<pc, tsVars>> /\ Real' = Real
      BY <3>1 DEF Real, tsVars
    <3>5. Entry' /\ Transcripts'
      BY <1>1, <3>4, OthersKeep
    <3>6. QED
      BY <3>2, <3>3, <3>5 DEF IInv
  <2>3. QED
    BY <1>1, <2>1, <2>2
<1>2. QED
  BY IoInit, <1>1, PTL DEF Spec

\* Whatever pieces the kernel takes and wherever signals interrupt, for every
\* size of the calls and of the pipe, the peer gets the bytes given to xwrite
\* once each, in order, and all of them by the time it returns.
THEOREM WrittenOnceInOrder == Spec => []OnceInOrder
<1>1. IInv => OnceInOrder
  <2> SUFFICES ASSUME IInv PROVE OnceInOrder
    OBVIOUS
  <2> DEFINE m == asked - len + bc
  <2>1. /\ len \in Nat /\ bc \in Nat /\ asked \in Nat /\ bc <= len /\ len <= asked
        /\ accepted = Bytes(1, m)
        /\ pc = "idle" => bc = len
    BY Zenon DEF IInv, TypeInv, Written
  <2>2. m \in Nat /\ m <= asked /\ (bc = len => m = asked)
    BY <2>1
  <2> HIDE DEF m
  <2>3. accepted = [k \in 1..m |-> 1 + k - 1]
    BY <2>1, Zenon DEF Bytes
  <2>4. Len(accepted) = m
    BY <2>2, <2>3
  <2>5. accepted = Bytes(1, Len(accepted))
    BY <2>3, <2>4, Zenon DEF Bytes
  <2>6. Len(accepted) <= asked /\ (pc = "idle" => Len(accepted) = asked)
    <3>1. pc = "idle" => bc = len
      BY <2>1, Zenon
    <3>2. QED
      BY <2>2, <2>4, <3>1
  <2>7. QED
    BY <2>5, <2>6, Zenon DEF OnceInOrder, Running
<1>2. QED
  BY <1>1, IoInvariant, PTL

\* Between calls the transcripts hold what was really read and written, and at
\* no time anything else; they are behind by the current entry at most.
THEOREM TranscriptsTell == Spec => []TranscriptTells
<1>1. ASSUME IInv, NEW fd \in Streams
      PROVE  LET real == IF fd = "out" THEN accepted ELSE Bytes(1, sent - inPipe)
                 lag  == IF pc \in {"open", "transcript"} /\ entry.fd = fd
                         THEN Len(entry.data) ELSE 0
             IN  /\ IsPrefix(file[fd], real \o Marker)
                 /\ Len(file[fd]) >= Len(real) - lag
                 /\ Running("idle") => file[fd] = real
  <2> DEFINE real == IF fd = "out" THEN accepted ELSE Bytes(1, sent - inPipe)
             lag  == IF pc \in {"open", "transcript"} /\ entry.fd = fd
                     THEN Len(entry.data) ELSE 0
             f == file[fd]
             n == Real[fd]
  <2>1. n \in Nat /\ f \in Seq(Nat) /\ entry.data \in Seq(Nat) /\ tbc \in Nat
    BY <1>1, RealType DEF IInv, TypeInv
  <2>2. real = [k \in 1..n |-> 1 + k - 1]
    BY <1>1, Zenon DEF IInv, Written, Real, Bytes
  <2> HIDE DEF n
  <2>3. real \in Seq(Nat) /\ Len(real) = n /\ \A k \in 1..n : real[k] = k
    BY <2>1, <2>2
  <2>4. \A k \in 1..Len(f) : f[k] = IF k <= n THEN k ELSE 0
    BY <1>1, Zenon DEF IInv, Transcripts, n
  <2>5. Len(f) <= n + 1 /\ Len(f) >= n - lag
    <3>1. CASE InTscribe /\ entry.fd = fd
      <4> DEFINE L == Len(entry.data)
                 w == IF pc = "open" THEN 0 ELSE tbc
                 extra == IF then \in {"write", "idle"} THEN 0 ELSE 1
      <4>1. Len(f) = n + extra - (L - w)
        BY <1>1, <3>1, Zenon DEF IInv, Transcripts, Recorded, n
      <4>2. w \in Nat /\ w <= L /\ L \in Nat /\ extra \in {0, 1}
        BY <1>1, <2>1, <3>1 DEF IInv, Transcripts, InTscribe
      <4>3. lag = L
        BY <3>1, Zenon DEF InTscribe
      <4> HIDE DEF L, w, extra, lag, f
      <4>4. QED
        BY <2>1, <4>1, <4>2, <4>3
    <3>2. CASE ~(InTscribe /\ entry.fd = fd)
      <4>1. Len(f) = n
        BY <1>1, <3>2, Zenon DEF IInv, Transcripts, Recorded, n
      <4>2. lag = 0
        BY <3>2, Zenon DEF InTscribe
      <4> HIDE DEF lag, f
      <4>3. QED
        BY <2>1, <4>1, <4>2
    <3>3. QED
      BY <3>1, <3>2
  <2>6. pc = "idle" => Len(f) = n
    BY <1>1 DEF IInv, Transcripts, Recorded, InTscribe, n
  <2> DEFINE all == real \o Marker
  <2> HIDE DEF f, real, lag
  <2>7. IsPrefix(f, all)
    <3>1. all \in Seq(Nat) /\ Len(all) = n + 1 /\ \A k \in 1..n + 1 : all[k] = IF k <= n THEN k ELSE 0
      <4>1. /\ all \in Seq(Nat) /\ Len(all) = Len(real) + Len(Marker)
            /\ \A k \in 1..Len(real) + Len(Marker) :
                 all[k] = IF k <= Len(real) THEN real[k] ELSE Marker[k - Len(real)]
        BY <2>3, MarkerType, ConcatNat, Zenon
      <4> HIDE DEF all
      <4>2. QED
        BY <2>1, <2>3, <4>1, MarkerType
    <3> HIDE DEF all
    <3>2. \A k \in 1..Len(f) : f[k] = all[k]
      BY <2>1, <2>4, <2>5, <3>1
    <3>3. SubSeq(f, 1, Len(f)) = SubSeq(all, 1, Len(f))
      BY <2>1, <2>5, <3>1, <3>2
    <3>4. QED
      BY <2>5, <3>1, <3>3 DEF IsPrefix
  <2>8. pc = "idle" => f = real
    BY <2>1, <2>3, <2>4, <2>6
  <2>9. QED
    BY <2>3, <2>5, <2>7, <2>8, Zenon DEF Running, f, real, lag
<1>2. IInv => TranscriptTells
  BY <1>1, Zenon DEF TranscriptTells
<1>3. QED
  BY <1>2, IoInvariant, PTL
-----------------------------------------------------------------------------
\* As long as select's word has not been used up by a read, it is true.
SelectedIsReadable == selected => inPipe > 0 \/ eof

\* Only the peer and a read change what there is to read: the peer adds to it
\* or hangs up, which is readable too, and a read uses select's word up.
LEMMA SelectedStep ==
  ASSUME TypeInv, SelectedIsReadable, [Next]_vars
  PROVE  SelectedIsReadable'
<1> USE DEF SelectedIsReadable, callVars, tsVars, peerVars, C, Transcribe
<1>1. CASE Callers
  BY <1>1 DEF Callers, xwrite, xread, selectfd
<1>2. CASE Call
  <2>1. CASE \E n \in 1..MaxIn : ReadSome(n)
    BY <2>1 DEF ReadSome
  <2>2. CASE SelectReturns
    BY <2>2 DEF SelectReturns
  <2>3. CASE UNCHANGED <<selected, inPipe, eof>>
    BY <2>3
  <2>4. QED
    BY <1>2, <2>1, <2>2, <2>3
       DEF Call, WriteSome, WriteFails, WriteKills, WriteDone, ReadNothing, ReadZero,
           TsOpen, TsReturn, TsWrite
<1>3. CASE Fails
  BY <1>3 DEF Fails, WriteFails, WriteZero, ReadFails, SelectFails, TsFails
<1>4. CASE PeerSends
  BY <1>4 DEF PeerSends, TypeInv
<1>5. CASE PeerTakes \/ PeerHangsUp
  BY <1>5 DEF PeerTakes, PeerHangsUp
<1>6. CASE Interrupted \/ Ended \/ UNCHANGED vars
  BY <1>6 DEF Interrupted, Ended, vars
<1>7. QED
  BY <1>1, <1>2, <1>3, <1>4, <1>5, <1>6 DEF Next

\* The only way back from xread without an answer is when there is nothing to
\* read and the peer is still there.
LEMMA OnlyNothingComesBack ==
  ASSUME [Next]_vars, pc = "read", pc' = "idle"
  PROVE  ReadNothing
<1>1. CASE Callers
  BY <1>1 DEF Callers, xwrite, xread, selectfd, Running
<1>2. CASE Call
  BY <1>2 DEF Call, WriteSome, WriteFails, WriteKills, WriteDone, ReadSome, ReadZero,
              SelectReturns, TsOpen, TsReturn, TsWrite, Transcribe, C, Running
<1>3. CASE Fails
  BY <1>3 DEF Fails, WriteFails, WriteZero, ReadFails, SelectFails, TsFails, Transcribe, C, Running
<1>4. CASE PeerSends \/ PeerTakes \/ PeerHangsUp
  BY <1>4 DEF PeerSends, PeerTakes, PeerHangsUp
<1>5. CASE Interrupted \/ Ended \/ UNCHANGED vars
  BY <1>5 DEF Interrupted, Ended, vars
<1>6. QED
  BY <1>1, <1>2, <1>3, <1>4, <1>5 DEF Next

\* ReadableIsRead: after select has said that there is something to read, xread
\* does not come back without it, as uc_ia.c takes for granted, however many
\* signals and calls of xwrite come in between.
THEOREM SelectedIsRead == Spec => ReadableIsRead
<1>1. Init => SelectedIsReadable
  BY DEF Init, SelectedIsReadable
<1>2. IInv /\ SelectedIsReadable /\ [Next]_vars => SelectedIsReadable'
  BY SelectedStep DEF IInv
<1>3. SelectedIsReadable /\ [Next]_vars =>
        [selected /\ pc = "read" /\ pc' = "idle" => r' # -1]_vars
  <2> SUFFICES ASSUME SelectedIsReadable, [Next]_vars, selected, pc = "read", pc' = "idle"
               PROVE  FALSE
    OBVIOUS
  <2>1. ReadNothing
    BY OnlyNothingComesBack
  <2>2. QED
    BY <2>1 DEF ReadNothing, SelectedIsReadable
<1>4. QED
  BY <1>1, <1>2, <1>3, IoInvariant, PTL DEF Spec, ReadableIsRead
=============================================================================
