-------------------------- MODULE ArtifactFileProofs --------------------------
(***************************************************************************)
(* Proofs about ArtifactFile, for any number of runs of calibrate, any set *)
(* of artifacts and any length: whatever is torn or overlapped, the        *)
(* service accepts only a payload that some run set out to write whole.    *)
(***************************************************************************)
EXTENDS ArtifactFile, SequenceTheorems, TLAPS

(* A run has set out to write artifact a. *)
Begun(a) == \E w \in Writers : writer[w].pc # "idle" /\ writer[w].artifact = a

(* A header comes from a run, though what follows it may not. *)
Genuine(piece) ==
  piece.piece = "header" =>
    \E a \in Written : Begun(a) /\ piece = Header(a.container, Payload(a), a.parts)

Jobs     == [pc : {"writing", "done", "failed"}, artifact : Written, out : 0..MaxParts + 1]
Verdicts == [result : Results, payload : Seq(Pieces)]
Reads    == [pc : {"reading", "done"}, bytes : Seq(Pieces), verdict : Verdicts]

Shape ==
  /\ file \in [exists : BOOLEAN, pieces : Seq(Pieces)]
  /\ writer \in [Writers -> {Idle} \cup Jobs]
  /\ reader \in {Idle} \cup Reads
  /\ sole \in Writers \cup {Nobody}

HeadersInFile == \A i \in 1..Len(file.pieces) : Genuine(file.pieces[i])

HeadersRead ==
  reader.pc # "idle" => \A i \in 1..Len(reader.bytes) : Genuine(reader.bytes[i])

(* What AcceptedIsWhole says of a verdict. *)
Whole(verdict) ==
  verdict.result = "accepted" =>
    \E a \in Written :
      /\ Begun(a)
      /\ verdict.payload = Payload(a)
      /\ a.container = "current" /\ a.decodable /\ a.sound
      /\ a.schema \in {"same", "minor"}

VerdictWhole == reader.pc # "idle" => Whole(reader.verdict)

IInv == Shape /\ HeadersInFile /\ HeadersRead /\ VerdictWhole

-----------------------------------------------------------------------------
LEMMA PayloadShape ==
  ASSUME NEW a \in Written
  PROVE  /\ Payload(a) \in Seq(Pieces)
         /\ Len(Payload(a)) = a.parts
         /\ a.parts \in 1..MaxParts
         /\ \A n \in 1..a.parts : Payload(a)[n] = Part(a, n)
<1>1. a.parts \in 1..MaxParts /\ MaxParts \in Nat
  BY ArtifactAssumption DEF Artifacts
<1>2. \A n \in 1..a.parts : Part(a, n) \in Pieces
  BY <1>1 DEF Pieces
<1>3. Payload(a) \in [1..a.parts -> Pieces]
  BY <1>2 DEF Payload
<1>4. Payload(a) \in Seq(Pieces)
  BY <1>1, <1>3, SeqDef
<1>5. Len(Payload(a)) = a.parts
  BY <1>1, <1>3, <1>4, LenProperties
<1> QED
  BY <1>1, <1>4, <1>5 DEF Payload

(* What a run writes consists of pieces, and its header is its own. *)
LEMMA EncodeShape ==
  ASSUME NEW a \in Written
  PROVE  /\ Encode(a) \in Seq(Pieces)
         /\ Len(Encode(a)) \in 1..MaxParts + 1
         /\ \A i \in 1..Len(Encode(a)) : Encode(a)[i].piece = "header" =>
              Encode(a)[i] = Header(a.container, Payload(a), a.parts)
<1> DEFINE h == Header(a.container, Payload(a), a.parts)
<1>1. /\ Payload(a) \in Seq(Pieces)
      /\ Len(Payload(a)) = a.parts
      /\ a.parts \in 1..MaxParts /\ MaxParts \in Nat
      /\ \A n \in 1..a.parts : Payload(a)[n] = Part(a, n)
  BY PayloadShape, ArtifactAssumption
<1>2. \A n \in 1..a.parts : Payload(a)[n].piece # "header"
  <2>1. \A n : Part(a, n).piece # "header"
    BY DEF Part
  <2> QED
    BY <1>1, <2>1
<1>3. CASE a.container = "bare"
  BY <1>1, <1>2, <1>3 DEF Encode
<1>4. CASE a.container # "bare"
  <2>1. h \in Pieces
    BY DEF Pieces
  <2> HIDE DEF h
  <2>2. Encode(a) = <<h>> \o Payload(a)
    BY <1>4 DEF Encode, h
  <2>3. <<h>> \in Seq(Pieces) /\ Len(<<h>>) = 1 /\ <<h>>[1] = h
    BY <2>1
  <2>4. /\ Encode(a) \in Seq(Pieces)
        /\ Len(Encode(a)) = 1 + a.parts
        /\ Encode(a)[1] = h
        /\ \A i \in 2..(1 + a.parts) : Encode(a)[i] = Payload(a)[i - 1]
    BY <1>1, <2>2, <2>3, ConcatProperties
  <2>5. ASSUME NEW i \in 1..Len(Encode(a)), Encode(a)[i].piece = "header" PROVE i = 1
    <3>1. CASE i # 1
      <4>1. i \in 2..(1 + a.parts) /\ i - 1 \in 1..a.parts
        BY <1>1, <2>4, <3>1
      <4>2. Encode(a)[i].piece = Payload(a)[i - 1].piece
        BY <2>4, <4>1
      <4> QED
        BY <1>2, <2>5, <4>1, <4>2
    <3> QED
      BY <3>1
  <2> QED
    BY <1>1, <2>4, <2>5 DEF h
<1> QED
  BY <1>3, <1>4

(* Writing at a position adds the piece, keeps the others, and may leave a *)
(* hole.                                                                   *)
LEMMA PutShape ==
  ASSUME NEW pieces \in Seq(Pieces), NEW n \in Nat \ {0}, NEW p \in Pieces
  PROVE  /\ Put(pieces, n, p) \in Seq(Pieces)
         /\ \A i \in 1..Len(Put(pieces, n, p)) :
              LET q == Put(pieces, n, p)[i]
              IN  q = p \/ q = Hole \/ \E j \in 1..Len(pieces) : q = pieces[j]
<1> DEFINE m == IF n > Len(pieces) THEN n ELSE Len(pieces)
<1>1. m \in Nat /\ Len(pieces) \in Nat /\ Hole \in Pieces
  BY DEF Pieces
<1>2. \A j \in 1..Len(pieces) : pieces[j] \in Pieces
  OBVIOUS
<1>3. Put(pieces, n, p) \in [1..m -> Pieces]
  BY <1>1, <1>2 DEF Put
<1> HIDE DEF m
<1>4. Put(pieces, n, p) \in Seq(Pieces)
  BY <1>1, <1>3, SeqDef
<1>5. Len(Put(pieces, n, p)) = m
  BY <1>1, <1>3, <1>4, LenProperties
<1>6. ASSUME NEW i \in 1..m
      PROVE  Put(pieces, n, p)[i] =
               IF i = n THEN p ELSE IF i <= Len(pieces) THEN pieces[i] ELSE Hole
  BY <1>6 DEF Put, m
<1> QED
  BY <1>1, <1>4, <1>5, <1>6

(* An artifact's own merits decide between an error and its payload.       *)
LEMMA Interpreted ==
  ASSUME NEW a \in Written
  PROVE  \/ /\ ~a.decodable
            /\ Interpret(Payload(a)) = Reject("undecodable")
         \/ /\ a.schema = "unreadable"
            /\ Interpret(Payload(a)) = Reject("unreadable_schema")
         \/ /\ a.schema = "major"
            /\ Interpret(Payload(a)) = Reject("schema_major")
         \/ /\ ~a.sound /\ a.schema \in {"same", "minor"}
            /\ Interpret(Payload(a)) = Reject("invalid")
         \/ /\ a.decodable /\ a.sound /\ a.schema \in {"same", "minor"}
            /\ Interpret(Payload(a)) = Accept(Payload(a))
<1>1. a \in Artifacts /\ Payload(a)[1] = Part(a, 1)
  BY PayloadShape, ArtifactAssumption
<1>2. Payload(a)[1].of = a
  BY <1>1 DEF Part
<1>3. /\ a.decodable \in BOOLEAN /\ a.sound \in BOOLEAN
      /\ a.schema \in {"same", "minor", "major", "unreadable"}
  BY <1>1 DEF Artifacts
<1>4. Interpret(Payload(a)) =
        IF ~a.decodable THEN Reject("undecodable")
        ELSE IF a.schema = "unreadable" THEN Reject("unreadable_schema")
        ELSE IF a.schema = "major" THEN Reject("schema_major")
        ELSE IF ~a.sound THEN Reject("invalid")
        ELSE Accept(Payload(a))
  BY <1>2, Zenon DEF Interpret
<1> QED
  BY <1>3, <1>4

(* The heart of the matter: what decode takes apart, under genuine headers, *)
(* is the whole payload of the header's artifact.                          *)
Framing == {Reject("missing_header"), Reject("truncated"), Reject("crc_mismatch"),
            Reject("container")}

LEMMA DecodeTakesWhole ==
  ASSUME NEW bytes \in Seq(Pieces), Decode(bytes) \notin Framing,
         \A i \in 1..Len(bytes) : Genuine(bytes[i])
  PROVE  \E a \in Written :
           /\ Begun(a) /\ a.container = "current"
           /\ bytes[1] = Header(a.container, Payload(a), a.parts)
           /\ bytes[2] = Part(a, 1)
           /\ Decode(bytes) = Interpret(Payload(a))
<1> DEFINE head == bytes[1]  rest == Tail(bytes)  payload == SubSeq(rest, 1, head.len)
<1>1. bytes # <<>> /\ bytes[1].piece = "header"
  BY DEF Decode, Framing
<1>2. 1 \in 1..Len(bytes) /\ Genuine(head)
  BY <1>1, EmptySeq
<1>3. PICK a \in Written : Begun(a) /\ head = Header(a.container, Payload(a), a.parts)
  BY <1>1, <1>2 DEF Genuine
<1>4. head.crc = Payload(a) /\ head.version = a.container /\ head.len = a.parts
  BY <1>3 DEF Header
<1>5. /\ Payload(a) \in Seq(Pieces) /\ a \in Artifacts
      /\ Payload(a)[1] = Part(a, 1) /\ a.parts \in 1..MaxParts /\ MaxParts \in Nat
  BY PayloadShape, ArtifactAssumption
<1>6. /\ rest \in Seq(Pieces) /\ Len(rest) \in Nat /\ Len(rest) = Len(bytes) - 1
      /\ \A i \in 1..Len(rest) : rest[i] = bytes[i + 1]
  BY <1>1, HeadTailProperties
<1>7. /\ Len(rest) >= a.parts /\ payload = Payload(a) /\ a.container = "current"
      /\ Decode(bytes) = Interpret(payload)
  <2> HIDE DEF rest, payload, head
  <2>1. Decode(bytes) =
          CASE Len(rest) < head.len     -> Reject("truncated")
            [] Len(rest) >= head.len /\ payload # head.crc -> Reject("crc_mismatch")
            [] Len(rest) >= head.len /\ payload = head.crc /\ head.version # "current" ->
                 Reject("container")
            [] OTHER -> Interpret(payload)
    BY <1>1, Zenon DEF Decode, head, rest, payload
  <2> QED
    BY <1>4, <1>5, <1>6, <2>1 DEF Framing
<1>8. bytes[2] = Part(a, 1)
  <2>1. payload[1] = rest[1] /\ rest[1] = bytes[2]
    BY <1>4, <1>5, <1>6, <1>7, SubSeqProperties
  <2> QED
    BY <1>5, <1>7, <2>1
<1> QED
  BY <1>3, <1>7, <1>8

LEMMA DecodeAccepts ==
  ASSUME NEW bytes \in Seq(Pieces),
         \A i \in 1..Len(bytes) : Genuine(bytes[i])
  PROVE  Decode(bytes) \in Verdicts /\ Whole(Decode(bytes))
<1>r. \A why \in Results : why # "accepted" => Reject(why) \in Verdicts /\ Whole(Reject(why))
  BY DEF Reject, Verdicts, Whole
<1>1. CASE Decode(bytes) \in Framing
  BY <1>1, <1>r DEF Framing, Results
<1>2. CASE Decode(bytes) \notin Framing
  <2>1. PICK a \in Written :
          Begun(a) /\ a.container = "current" /\ Decode(bytes) = Interpret(Payload(a))
    BY <1>2, DecodeTakesWhole
  <2>2. CASE Interpret(Payload(a)) = Accept(Payload(a))
             /\ a.decodable /\ a.sound /\ a.schema \in {"same", "minor"}
    BY <2>1, <2>2, PayloadShape DEF Accept, Verdicts, Whole, Results
  <2> QED
    BY <2>1, <2>2, <1>r, Interpreted DEF Results
<1> QED
  BY <1>1, <1>2
-----------------------------------------------------------------------------
LEMMA InitEstablishes == Init => IInv
  BY DEF Init, IInv, Shape, HeadersInFile, HeadersRead, VerdictWhole, Idle

(* A run never goes back to what it wrote: steps that only begin or        *)
(* advance runs keep headers genuine and verdicts whole.                   *)
BegunKept == \A a \in Written : Begun(a) => Begun(a)'

LEMMA KeptGenuine ==
  ASSUME BegunKept, NEW piece, Genuine(piece)
  PROVE  Genuine(piece)'
BY DEF BegunKept, Genuine, Header, Payload, Part

LEMMA KeptWhole ==
  ASSUME BegunKept, NEW verdict, Whole(verdict)
  PROVE  Whole(verdict)'
BY DEF BegunKept, Whole, Payload, Part

(* A step that leaves the reader alone. *)
LEMMA ReaderUndisturbed ==
  ASSUME IInv, BegunKept, UNCHANGED reader
  PROVE  HeadersRead' /\ VerdictWhole'
BY KeptGenuine, KeptWhole DEF IInv, HeadersRead, VerdictWhole

LEMMA OpenKeeps ==
  ASSUME IInv, NEW w \in Writers, Open(w)
  PROVE  IInv'
<1>1. PICK a \in Written :
        writer' = [writer EXCEPT ![w] = [pc |-> "writing", artifact |-> a, out |-> 0]]
  BY DEF Open
<1>2. writer \in [Writers -> {Idle} \cup Jobs] /\ writer[w].pc = "idle"
  BY DEF IInv, Shape, Open
<1>3. [pc |-> "writing", artifact |-> a, out |-> 0] \in Jobs
  BY ArtifactAssumption DEF Jobs
<1>4. writer' \in [Writers -> {Idle} \cup Jobs]
  BY <1>1, <1>2, <1>3
<1>5. BegunKept
  BY <1>1, <1>2 DEF BegunKept, Begun
<1>6. file' = [exists |-> TRUE, pieces |-> <<>>] /\ Len(file'.pieces) = 0
  BY DEF Open
<1>7. Shape'
  BY <1>4, <1>6 DEF IInv, Shape, Open
<1>8. HeadersInFile'
  BY <1>6 DEF HeadersInFile
<1> QED
  BY <1>5, <1>7, <1>8, ReaderUndisturbed DEF IInv, Open

(* A run that has begun and moves on. *)
LEMMA WritePieceKeeps ==
  ASSUME IInv, NEW w \in Writers, WritePiece(w)
  PROVE  IInv'
<1> DEFINE a == writer[w].artifact  p == Encode(a)[Offset(w)]
<1>1. /\ writer \in [Writers -> {Idle} \cup Jobs] /\ writer[w] \in Jobs
      /\ file \in [exists : BOOLEAN, pieces : Seq(Pieces)]
  BY DEF IInv, Shape, WritePiece, Idle
<1>2. a \in Written /\ writer[w].out \in 0..MaxParts + 1 /\ MaxParts \in Nat
  BY <1>1, ArtifactAssumption DEF Jobs
<1>3. /\ Len(Encode(a)) \in 1..MaxParts + 1
      /\ Encode(a) \in Seq(Pieces)
      /\ \A i \in 1..Len(Encode(a)) : Encode(a)[i].piece = "header" =>
           Encode(a)[i] = Header(a.container, Payload(a), a.parts)
  BY <1>2, EncodeShape
<1>4. Offset(w) \in 1..Len(Encode(a)) /\ Offset(w) = writer[w].out + 1
  BY <1>2, <1>3 DEF Offset, WritePiece
<1>5. p \in Pieces /\ Offset(w) \in Nat \ {0}
  BY <1>3, <1>4
<1>6. Begun(a)
  BY DEF Begun, WritePiece
<1>7. Genuine(p)
  BY <1>2, <1>3, <1>4, <1>6 DEF Genuine
<1>8. writer' = [writer EXCEPT ![w].out = @ + 1] /\ writer[w].out + 1 \in 0..MaxParts + 1
  BY <1>2, <1>3, <1>4 DEF WritePiece
<1>9. writer' \in [Writers -> {Idle} \cup Jobs]
  BY <1>1, <1>8 DEF Jobs
<1>10. BegunKept
  BY <1>1, <1>8 DEF BegunKept, Begun, Jobs
<1>11. file' = [file EXCEPT !.pieces = Put(file.pieces, Offset(w), p)]
  BY DEF WritePiece
<1>12. /\ file' \in [exists : BOOLEAN, pieces : Seq(Pieces)]
       /\ file'.pieces = Put(file.pieces, Offset(w), p)
  BY <1>1, <1>5, <1>11, PutShape
<1>13. Shape'
  BY <1>9, <1>12 DEF IInv, Shape, WritePiece
<1>14. \A i \in 1..Len(file'.pieces) : Genuine(file'.pieces[i])
  <2>1. Genuine(Hole)
    BY DEF Genuine, Hole
  <2>2. \A j \in 1..Len(file.pieces) : Genuine(file.pieces[j])
    BY DEF IInv, HeadersInFile
  <2>3. \A i \in 1..Len(file'.pieces) :
          LET q == file'.pieces[i]
          IN  q = p \/ q = Hole \/ \E j \in 1..Len(file.pieces) : q = file.pieces[j]
    <3>1. file.pieces \in Seq(Pieces)
      BY <1>1
    <3> HIDE DEF p
    <3>2. \A i \in 1..Len(Put(file.pieces, Offset(w), p)) :
            LET q == Put(file.pieces, Offset(w), p)[i]
            IN  q = p \/ q = Hole \/ \E j \in 1..Len(file.pieces) : q = file.pieces[j]
      BY <1>5, <3>1, PutShape
    <3> QED
      BY <1>12, <3>2
  <2> HIDE DEF p
  <2> QED
    BY <1>7, <2>1, <2>2, <2>3
<1>15. HeadersInFile'
  BY <1>10, <1>14, KeptGenuine DEF HeadersInFile
<1> QED
  BY <1>10, <1>13, <1>15, ReaderUndisturbed DEF IInv, WritePiece

LEMMA StopKeeps ==
  ASSUME IInv, NEW w \in Writers, Close(w) \/ Fail(w)
  PROVE  IInv'
<1>1. PICK p \in {"done", "failed"} : writer' = [writer EXCEPT ![w].pc = p]
  BY DEF Close, Fail
<1>2. /\ writer \in [Writers -> {Idle} \cup Jobs]
      /\ writer[w] \in Jobs
  BY DEF IInv, Shape, Close, Fail, Idle
<1>3. writer' \in [Writers -> {Idle} \cup Jobs]
  BY <1>1, <1>2 DEF Jobs
<1>4. BegunKept
  BY <1>1, <1>2 DEF BegunKept, Begun, Jobs
<1>5. UNCHANGED <<file, reader, sole>>
  BY DEF Close, Fail
<1>6. Shape'
  BY <1>3, <1>5 DEF IInv, Shape
<1>7. HeadersInFile'
  BY <1>4, <1>5, KeptGenuine DEF IInv, HeadersInFile
<1> QED
  BY <1>4, <1>5, <1>6, <1>7, ReaderUndisturbed DEF IInv

LEMMA WritersUndisturbed ==
  ASSUME IInv, UNCHANGED <<file, writer>>
  PROVE  BegunKept /\ HeadersInFile'
<1>1. BegunKept
  BY DEF BegunKept, Begun
<1> QED
  BY <1>1, KeptGenuine DEF IInv, HeadersInFile

LEMMA ReaderKeeps ==
  ASSUME IInv, StartRead \/ ReadPiece \/ EndRead \/ Restart
  PROVE  IInv'
<1>1. UNCHANGED <<file, writer, sole>>
  BY DEF StartRead, ReadPiece, EndRead, Restart
<1>2. BegunKept /\ HeadersInFile'
  BY <1>1, WritersUndisturbed
<1>3. /\ reader \in {Idle} \cup Reads
      /\ file.pieces \in Seq(Pieces)
  BY DEF IInv, Shape
<1>4. CASE StartRead
  <2>1. PICK p \in {"reading", "done"}, why \in {"none", "io"} :
          reader' = [pc |-> p, bytes |-> <<>>, verdict |-> Reject(why)]
    BY <1>4 DEF StartRead
  <2>2. Reject(why) \in Verdicts /\ Reject(why).result # "accepted"
    BY DEF Reject, Verdicts, Results
  <2>3. reader' \in Reads
    BY <2>1, <2>2 DEF Reads
  <2> QED
    BY <1>1, <1>2, <2>1, <2>2, <2>3
    DEF IInv, Shape, HeadersRead, VerdictWhole, Whole
<1>5. CASE ReadPiece
  <2>1. reader \in Reads /\ reader.bytes \in Seq(Pieces)
    BY <1>3, <1>5 DEF ReadPiece, Idle, Reads
  <2> DEFINE n == Len(reader.bytes) + 1  q == file.pieces[n]
  <2>2. n \in 1..Len(file.pieces)
    BY <1>3, <1>5, <2>1 DEF ReadPiece
  <2>3. q \in Pieces /\ Genuine(q)
    BY <1>3, <2>2 DEF IInv, HeadersInFile
  <2>4. reader' = [reader EXCEPT !.bytes = Append(reader.bytes, q)]
    BY <1>5 DEF ReadPiece
  <2> HIDE DEF q
  <2>5. /\ reader' \in Reads
        /\ reader'.bytes = Append(reader.bytes, q)
        /\ reader'.verdict = reader.verdict
        /\ reader'.pc = reader.pc
    BY <2>1, <2>3, <2>4 DEF Reads
  <2>6. \A i \in 1..Len(reader'.bytes) : Genuine(reader'.bytes[i])
    <3>1. \A i \in 1..Len(reader.bytes) : Genuine(reader.bytes[i])
      BY <1>5 DEF IInv, HeadersRead, ReadPiece
    <3>2. /\ Len(reader'.bytes) = n /\ reader'.bytes[n] = q
          /\ \A i \in 1..Len(reader.bytes) : reader'.bytes[i] = reader.bytes[i]
      BY <2>1, <2>3, <2>5, AppendProperties
    <3> QED
      BY <2>1, <2>3, <3>1, <3>2
  <2>7. HeadersRead'
    BY <1>2, <2>6, KeptGenuine DEF HeadersRead
  <2>8. VerdictWhole'
    BY <1>2, <1>5, <2>5, KeptWhole DEF IInv, VerdictWhole, ReadPiece
  <2> QED
    BY <1>1, <1>2, <2>5, <2>7, <2>8 DEF IInv, Shape
<1>6. CASE EndRead
  <2>1. reader \in Reads /\ reader.bytes \in Seq(Pieces)
    BY <1>3, <1>6 DEF EndRead, Idle, Reads
  <2>2. \A i \in 1..Len(reader.bytes) : Genuine(reader.bytes[i])
    BY <1>6 DEF IInv, HeadersRead, EndRead
  <2>3. Decode(reader.bytes) \in Verdicts /\ Whole(Decode(reader.bytes))
    BY <2>1, <2>2, DecodeAccepts
  <2>4. reader' = [reader EXCEPT !.pc = "done", !.verdict = Decode(reader.bytes)]
    BY <1>6 DEF EndRead
  <2>5. /\ reader' \in Reads
        /\ reader'.bytes = reader.bytes
        /\ reader'.verdict = Decode(reader.bytes)
    BY <2>1, <2>3, <2>4 DEF Reads
  <2>6. HeadersRead'
    BY <1>2, <2>2, <2>5, KeptGenuine DEF HeadersRead
  <2>7. VerdictWhole'
    BY <1>2, <2>3, <2>5, KeptWhole DEF VerdictWhole
  <2> QED
    BY <1>1, <1>2, <2>5, <2>6, <2>7 DEF IInv, Shape
<1>7. CASE Restart
  BY <1>1, <1>2, <1>7
  DEF IInv, Shape, Restart, HeadersRead, VerdictWhole, Idle
<1> QED
  BY <1>4, <1>5, <1>6, <1>7

LEMMA NextKeeps == IInv /\ [Next]_vars => IInv'
<1> SUFFICES ASSUME IInv, [Next]_vars PROVE IInv'
  OBVIOUS
<1>1. CASE UNCHANGED vars
  <2>1. UNCHANGED <<file, writer, reader, sole>>
    BY <1>1 DEF vars
  <2>2. BegunKept /\ HeadersInFile'
    BY <2>1, WritersUndisturbed
  <2> QED
    BY <2>1, <2>2, ReaderUndisturbed DEF IInv, Shape
<1> QED
  BY <1>1, OpenKeeps, WritePieceKeeps, StopKeeps, ReaderKeeps DEF Next

LEMMA Invariant == Spec => []IInv
  BY InitEstablishes, NextKeeps, PTL DEF Spec

-----------------------------------------------------------------------------
(* Files hold pieces, runs are where their encoding lets them be, and a    *)
(* read ends in one of decode's verdicts.                                  *)
THEOREM TypeCorrect == Spec => []TypeOK
<1>1. IInv => TypeOK
  BY DEF IInv, Shape, TypeOK, Idle, Jobs, Reads, Verdicts
<1> QED
  BY <1>1, Invariant, PTL

(* Whatever is torn, overlapped or rewritten while it is read, a payload   *)
(* that decode accepts is the whole of one artifact that a run set out to  *)
(* write, of this build's container and schema and sound.                  *)
THEOREM OnlyWholeAccepted == Spec => []AcceptedIsWhole
<1>1. IInv => AcceptedIsWhole
  BY DEF IInv, VerdictWhole, Whole, Begun, AcceptedIsWhole, Judged
<1> QED
  BY <1>1, Invariant, PTL

-----------------------------------------------------------------------------
(* A run that is alone with the file owns it: what it has put out so far   *)
(* is what the file holds, and after its end that is the whole encoding.   *)
Owned ==
  sole # Nobody =>
    LET a == writer[sole].artifact  n == writer[sole].out
    IN /\ writer[sole].pc # "idle"
       /\ \A v \in Writers : v # sole => writer[v].pc # "writing"
       /\ Len(file.pieces) = n /\ n <= Len(Encode(a))
       /\ \A i \in 1..n : file.pieces[i] = Encode(a)[i]
       /\ writer[sole].pc = "done" => n = Len(Encode(a))

(* A verdict is decode's on the bytes read, unless there was no file. *)
Reasoned ==
  reader.pc = "done" =>
    \/ reader.verdict = Decode(reader.bytes)
    \/ reader.bytes = <<>> /\ reader.verdict = Reject("io")

QInv == Owned /\ Reasoned

(* Adding at the end of a file keeps what is there. *)
LEMMA PutAppends ==
  ASSUME NEW pieces \in Seq(Pieces), NEW p \in Pieces
  PROVE  LET q == Put(pieces, Len(pieces) + 1, p)
         IN /\ Len(q) = Len(pieces) + 1
            /\ \A i \in 1..Len(pieces) : q[i] = pieces[i]
            /\ q[Len(pieces) + 1] = p
<1> DEFINE m == Len(pieces) + 1  q == Put(pieces, m, p)
<1>1. Len(pieces) \in Nat /\ m \in Nat \ {0}
  OBVIOUS
<1>2. q = [i \in 1..m |-> IF i = m THEN p ELSE IF i <= Len(pieces) THEN pieces[i] ELSE Hole]
  BY <1>1 DEF Put
<1>3. q \in Seq(Pieces)
  BY <1>1, PutShape
<1> HIDE DEF q
<1>4. Len(q) = m
  BY <1>1, <1>2, <1>3, LenProperties
<1> QED
  BY <1>1, <1>2, <1>4 DEF q

LEMMA OwnedByOpen ==
  ASSUME IInv, QInv, NEW w \in Writers, Open(w)
  PROVE  Owned'
<1>1. PICK a \in Written :
        writer' = [writer EXCEPT ![w] = [pc |-> "writing", artifact |-> a, out |-> 0]]
  BY DEF Open
<1>2. writer \in [Writers -> {Idle} \cup Jobs]
  BY DEF IInv, Shape
<1>3. /\ file' = [exists |-> TRUE, pieces |-> <<>>] /\ Len(file'.pieces) = 0
      /\ sole' = IF \A v \in Writers : writer[v].pc # "writing" THEN w ELSE Nobody
  BY DEF Open
<1>4. CASE sole' # Nobody
  <2>1. sole' = w /\ \A v \in Writers : writer[v].pc # "writing"
    BY <1>3, <1>4
  <2>2. writer'[w].pc = "writing" /\ writer'[w].artifact = a /\ writer'[w].out = 0
    BY <1>1, <1>2
  <2>3. \A v \in Writers : v # w => writer'[v] = writer[v]
    BY <1>1, <1>2
  <2>4. Encode(a) \in Seq(Pieces) /\ Len(Encode(a)) \in Nat
    BY EncodeShape
  <2>5. (Encode(writer[sole].artifact))' = Encode(a)
    BY <2>1, <2>2 DEF Encode, Header, Payload, Part
  <2> QED
    BY <1>3, <2>1, <2>2, <2>3, <2>4, <2>5 DEF Owned
<1> QED
  BY <1>4 DEF Owned

LEMMA OwnedByWritePiece ==
  ASSUME IInv, QInv, NEW w \in Writers, WritePiece(w)
  PROVE  Owned'
<1> SUFFICES ASSUME sole' # Nobody PROVE Owned'
  BY DEF Owned
<1>1. sole = w /\ sole' = w
  BY DEF QInv, Owned, WritePiece
<1> DEFINE a == writer[w].artifact  n == writer[w].out  p == Encode(a)[n + 1]
<1>2. /\ writer \in [Writers -> {Idle} \cup Jobs] /\ writer[w] \in Jobs
      /\ file \in [exists : BOOLEAN, pieces : Seq(Pieces)]
  BY DEF IInv, Shape, WritePiece, Idle
<1>3. a \in Written /\ n \in Nat
  BY <1>2, ArtifactAssumption DEF Jobs
<1>4. Encode(a) \in Seq(Pieces) /\ Len(Encode(a)) \in Nat
  BY <1>3, EncodeShape
<1>5. /\ n < Len(Encode(a)) /\ p \in Pieces
      /\ Len(file.pieces) = n
      /\ \A i \in 1..n : file.pieces[i] = Encode(a)[i]
  BY <1>1, <1>3, <1>4 DEF QInv, Owned, WritePiece
<1>6. /\ writer' = [writer EXCEPT ![w].out = n + 1]
      /\ file' = [file EXCEPT !.pieces = Put(file.pieces, n + 1, p)]
  BY DEF WritePiece, Offset
<1>7. /\ writer'[w].artifact = a /\ writer'[w].out = n + 1
      /\ writer'[w].pc = "writing"
      /\ \A v \in Writers : v # w => writer'[v] = writer[v]
  BY <1>2, <1>6 DEF Jobs, WritePiece
<1>8. (Encode(writer[sole].artifact))' = Encode(a)
  BY <1>1, <1>7 DEF Encode, Header, Payload, Part
<1>9. file'.pieces = Put(file.pieces, n + 1, p)
  BY <1>2, <1>6
<1> HIDE DEF p
<1>10. /\ Len(file'.pieces) = n + 1
       /\ \A i \in 1..n : file'.pieces[i] = file.pieces[i]
       /\ file'.pieces[n + 1] = p
  BY <1>2, <1>5, <1>9, PutAppends
<1>11. \A i \in 1..(n + 1) : file'.pieces[i] = Encode(a)[i]
  BY <1>3, <1>5, <1>10 DEF p
<1>12. \A v \in Writers : v # w => writer'[v].pc # "writing"
  BY <1>1, <1>7 DEF QInv, Owned
<1> QED
  BY <1>1, <1>3, <1>4, <1>5, <1>7, <1>8, <1>10, <1>11, <1>12 DEF Owned

LEMMA OwnedByStop ==
  ASSUME IInv, QInv, NEW w \in Writers, Close(w) \/ Fail(w)
  PROVE  Owned'
<1>1. PICK p \in {"done", "failed"} :
        /\ writer' = [writer EXCEPT ![w].pc = p]
        /\ p = "done" => writer[w].out = Len(Encode(writer[w].artifact))
  BY DEF Close, Fail
<1>2. /\ writer \in [Writers -> {Idle} \cup Jobs] /\ writer[w] \in Jobs
      /\ writer[w].pc = "writing" /\ UNCHANGED <<file, reader, sole>>
  BY DEF IInv, Shape, Close, Fail, Idle
<1>3. /\ \A v \in Writers : v # w => writer'[v] = writer[v]
      /\ writer'[w].pc = p /\ writer'[w].artifact = writer[w].artifact
      /\ writer'[w].out = writer[w].out
  BY <1>1, <1>2 DEF Jobs
<1> SUFFICES ASSUME sole # Nobody PROVE Owned'
  BY <1>2 DEF Owned
<1>4. sole = w /\ sole' = w
  BY <1>2 DEF QInv, Owned
<1>5. (Encode(writer[sole].artifact))' = Encode(writer[w].artifact)
  BY <1>3, <1>4 DEF Encode, Header, Payload, Part
<1> QED
  BY <1>1, <1>2, <1>3, <1>4, <1>5 DEF QInv, Owned

(* The reader changes neither the file nor its owner. *)
LEMMA OwnedUndisturbed ==
  ASSUME QInv, UNCHANGED <<file, writer, sole>>
  PROVE  Owned'
BY DEF QInv, Owned, Encode, Header, Payload, Part

LEMMA ReasonedUndisturbed ==
  ASSUME QInv, UNCHANGED reader
  PROVE  Reasoned'
BY DEF QInv, Reasoned, Decode, Interpret, Reject, Accept

LEMMA ReasonedByReader ==
  ASSUME IInv, QInv, StartRead \/ ReadPiece \/ EndRead \/ Restart
  PROVE  Reasoned'
<1>1. CASE StartRead
  BY <1>1 DEF StartRead, Reasoned, Reject
<1>2. CASE ReadPiece
  <2>1. reader \in Reads /\ reader.pc = "reading"
    BY <1>2 DEF IInv, Shape, ReadPiece, Idle, Reads
  <2>2. reader'.pc = "reading"
    BY <1>2, <2>1 DEF ReadPiece, Reads
  <2> QED
    BY <2>2 DEF Reasoned
<1>3. CASE EndRead
  <2>1. reader \in Reads
    BY <1>3 DEF IInv, Shape, EndRead, Idle, Reads
  <2>2. reader'.bytes = reader.bytes /\ reader'.verdict = Decode(reader.bytes)
    BY <1>3, <2>1 DEF EndRead, Reads
  <2>3. Decode(reader.bytes)' = Decode(reader.bytes)
    BY <2>2 DEF Decode, Interpret, Reject, Accept
  <2> QED
    BY <2>2, <2>3 DEF Reasoned
<1>4. CASE Restart
  BY <1>4 DEF Restart, Reasoned, Idle
<1> QED
  BY <1>1, <1>2, <1>3, <1>4

LEMMA InitOwns == Init => QInv
  BY DEF Init, QInv, Owned, Reasoned, Idle

LEMMA NextOwns == IInv /\ QInv /\ [Next]_vars => QInv'
<1> SUFFICES ASSUME IInv, QInv, [Next]_vars PROVE QInv'
  OBVIOUS
<1>1. CASE UNCHANGED vars
  BY <1>1, OwnedUndisturbed, ReasonedUndisturbed DEF vars, QInv
<1>2. ASSUME NEW w \in Writers, Open(w) \/ WritePiece(w) \/ Close(w) \/ Fail(w)
      PROVE  QInv'
  <2>1. UNCHANGED reader
    BY <1>2 DEF Open, WritePiece, Close, Fail
  <2> QED
    BY <1>2, <2>1, OwnedByOpen, OwnedByWritePiece, OwnedByStop, ReasonedUndisturbed DEF QInv
<1>3. CASE StartRead \/ ReadPiece \/ EndRead \/ Restart
  <2>1. UNCHANGED <<file, writer, sole>>
    BY <1>3 DEF StartRead, ReadPiece, EndRead, Restart
  <2> QED
    BY <1>3, <2>1, OwnedUndisturbed, ReasonedByReader DEF QInv
<1> QED
  BY <1>1, <1>2, <1>3 DEF Next

LEMMA OwnershipInvariant == Spec => [](IInv /\ QInv)
  BY InitEstablishes, InitOwns, NextKeeps, NextOwns, PTL DEF Spec

(* Decoding undoes encoding. *)
LEMMA DecodeOfEncode ==
  ASSUME NEW a \in Written
  PROVE  Decode(Encode(a)).result = Merits(a)
<1>1. /\ Payload(a) \in Seq(Pieces) /\ Len(Payload(a)) = a.parts
      /\ a.parts \in 1..MaxParts /\ MaxParts \in Nat
      /\ Payload(a)[1] = Part(a, 1)
      /\ a.container \in {"current", "foreign", "bare"}
  BY PayloadShape, ArtifactAssumption DEF Artifacts
<1>2. CASE a.container = "bare"
  <2>1. Payload(a)[1].piece # "header"
    BY <1>1 DEF Part
  <2> QED
    BY <1>2, <2>1 DEF Encode, Decode, Merits, Reject
<1>3. CASE a.container # "bare"
  <2> DEFINE h == Header(a.container, Payload(a), a.parts)
  <2>1. h \in Pieces /\ h.piece = "header" /\ h.version = a.container
        /\ h.crc = Payload(a) /\ h.len = a.parts
    BY DEF Pieces, Header
  <2> HIDE DEF h
  <2>2. Encode(a) = <<h>> \o Payload(a)
    BY <1>3 DEF Encode, h
  <2>3. /\ Encode(a) \in Seq(Pieces) /\ Encode(a) # <<>>
        /\ Encode(a)[1] = h /\ Tail(Encode(a)) = Payload(a)
    <3>1. <<h>> \in Seq(Pieces) /\ Len(<<h>>) = 1 /\ <<h>>[1] = h
      BY <2>1
    <3>2. /\ Encode(a) \in Seq(Pieces) /\ Len(Encode(a)) = 1 + a.parts
          /\ Encode(a)[1] = h
          /\ \A i \in 2..(1 + a.parts) : Encode(a)[i] = Payload(a)[i - 1]
      BY <1>1, <2>2, <3>1, ConcatProperties
    <3>3. Encode(a) # <<>>
      BY <1>1, <3>2
    <3>4. /\ Tail(Encode(a)) \in Seq(Pieces) /\ Len(Tail(Encode(a))) = a.parts
          /\ \A i \in 1..a.parts : Tail(Encode(a))[i] = Encode(a)[i + 1]
      BY <1>1, <3>2, <3>3, HeadTailProperties
    <3>5. \A i \in 1..a.parts : Tail(Encode(a))[i] = Payload(a)[i]
      BY <1>1, <3>2, <3>4
    <3> QED
      BY <1>1, <3>2, <3>3, <3>4, <3>5, SeqEqual
  <2>4. SubSeq(Payload(a), 1, a.parts) = Payload(a)
    BY <1>1, SubSeqFull
  <2>5. Decode(Encode(a)) = IF a.container # "current" THEN Reject("container")
                            ELSE Interpret(Payload(a))
    <3>1. Decode(Encode(a)) =
          CASE Len(Payload(a)) < h.len     -> Reject("truncated")
            [] Len(Payload(a)) >= h.len /\ SubSeq(Payload(a), 1, h.len) # h.crc -> Reject("crc_mismatch")
            [] Len(Payload(a)) >= h.len /\ SubSeq(Payload(a), 1, h.len) = h.crc /\ h.version # "current" ->
                 Reject("container")
            [] OTHER -> Interpret(SubSeq(Payload(a), 1, h.len))
      BY <2>1, <2>3, Zenon DEF Decode
    <3>2. /\ Len(Payload(a)) >= h.len /\ ~(Len(Payload(a)) < h.len)
          /\ SubSeq(Payload(a), 1, h.len) = Payload(a)
          /\ h.crc = Payload(a)
      BY <1>1, <2>1, <2>4
    <3>3. CASE h.version # "current"
      BY <2>1, <3>1, <3>2, <3>3
    <3>4. CASE h.version = "current"
      BY <2>1, <3>1, <3>2, <3>4
    <3> QED
      BY <3>3, <3>4
  <2> QED
    BY <1>1, <1>3, <2>5 DEF Merits, Reject
<1> QED
  BY <1>2, <1>3

(* A file written to its end, with nobody else at it since it was opened,  *)
(* is judged on the artifact's own merits, whatever was there before.      *)
THEOREM QuietReadFaithful == Spec => []QuietReadIsFaithful
<1>1. IInv /\ QInv => QuietReadIsFaithful
  <2> SUFFICES ASSUME IInv, QInv, Judged, sole # Nobody, writer[sole].pc = "done",
                      reader.bytes = file.pieces
               PROVE  reader.verdict.result = Merits(writer[sole].artifact)
    BY DEF QuietReadIsFaithful
  <2> DEFINE a == writer[sole].artifact
  <2>1. sole \in Writers /\ writer[sole] \in Jobs /\ a \in Written
    BY DEF IInv, Shape, Idle, Jobs
  <2>2. Encode(a) \in Seq(Pieces) /\ Len(Encode(a)) \in Nat /\ Len(Encode(a)) # 0
    BY <2>1, EncodeShape, ArtifactAssumption
  <2>3. /\ file.pieces \in Seq(Pieces) /\ Len(file.pieces) = Len(Encode(a))
        /\ \A i \in 1..Len(Encode(a)) : file.pieces[i] = Encode(a)[i]
    BY DEF IInv, Shape, QInv, Owned
  <2>4. file.pieces = Encode(a)
    BY <2>2, <2>3, SeqEqual
  <2>5. reader.bytes # <<>>
    BY <2>2, <2>4
  <2>6. reader.verdict = Decode(Encode(a))
    BY <2>4, <2>5 DEF QInv, Reasoned, Judged
  <2> QED
    BY <2>1, <2>6, DecodeOfEncode
<1> QED
  BY <1>1, OwnershipInvariant, PTL

(* A payload is taken apart only under this build's container version, and *)
(* an artifact is validated only under this build's schema major.          *)
THEOREM OwnFormatOnly == Spec => []DecodesOwnFormat
<1>1. IInv /\ QInv => DecodesOwnFormat
  <2> SUFFICES ASSUME IInv, QInv, Judged,
                      reader.verdict.result \in
                        {"undecodable", "unreadable_schema", "schema_major", "invalid"}
               PROVE  /\ reader.bytes[1].version = "current"
                      /\ reader.verdict.result = "invalid" =>
                           reader.bytes[2].of.schema \in {"same", "minor"}
    BY DEF DecodesOwnFormat
  <2>1. reader \in Reads /\ reader.bytes \in Seq(Pieces)
    BY DEF IInv, Shape, Judged, Idle, Reads
  <2>2. reader.verdict = Decode(reader.bytes)
    BY DEF QInv, Reasoned, Judged, Reject
  <2>3. Decode(reader.bytes) \notin Framing
    BY <2>2 DEF Framing, Reject
  <2>4. \A i \in 1..Len(reader.bytes) : Genuine(reader.bytes[i])
    BY DEF IInv, HeadersRead, Judged
  <2>5. PICK a \in Written :
          /\ a.container = "current"
          /\ reader.bytes[1] = Header(a.container, Payload(a), a.parts)
          /\ reader.bytes[2] = Part(a, 1)
          /\ Decode(reader.bytes) = Interpret(Payload(a))
    BY <2>1, <2>3, <2>4, DecodeTakesWhole
  <2>6. reader.bytes[1].version = "current" /\ reader.bytes[2].of = a
    BY <2>5 DEF Header, Part
  <2>7. reader.verdict.result = "invalid" => a.schema \in {"same", "minor"}
    BY <2>2, <2>5, Interpreted DEF Reject, Accept
  <2> QED
    BY <2>6, <2>7
<1> QED
  BY <1>1, OwnershipInvariant, PTL
=============================================================================
