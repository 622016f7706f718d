----------------------------- MODULE ArtifactFile -----------------------------
(***************************************************************************)
(* A calibration artifact on disk (antenna-core/artifact): calibrate runs  *)
(* write it, the service reads it when it starts, and nothing makes the    *)
(* two take turns.  A write truncates the file and fills it piece by       *)
(* piece, and may stop half-way; a read goes through whatever is there.    *)
(* All that stands between a torn file and a served calibration is the     *)
(* order of checks in decode.                                              *)
(*                                                                         *)
(* A file is a sequence of pieces: a header, then parts of a payload.  The *)
(* checksum in a header is the payload itself, that is, CRC32 is taken to  *)
(* have no collisions.  Each part is marked with the artifact it encodes.  *)
(***************************************************************************)
EXTENDS Integers, Sequences

CONSTANTS
  Writers,     (* calibrate runs of this or of other builds, one write each *)
  Names,       (* artifacts that are told apart                             *)
  MaxParts,    (* bound: parts of a payload                                 *)
  Nobody       (* not a writer                                              *)

(* What a build may write.  "bare" is a payload without a container, as    *)
(* the first builds wrote it; "foreign" is another container version.      *)
Artifacts ==
  [name : Names, parts : 1..MaxParts, container : {"current", "foreign", "bare"},
   decodable : BOOLEAN, schema : {"same", "minor", "major", "unreadable"}, sound : BOOLEAN]

CONSTANT Written  (* the artifacts the writers choose from *)

ASSUME ArtifactAssumption ==
  /\ MaxParts \in Nat \ {0}
  /\ Written \subseteq Artifacts
  /\ Nobody \notin Writers

VARIABLES
  file,    (* whether the file exists, and its pieces                       *)
  writer,  (* each run: what it writes and how many pieces are out          *)
  reader,  (* the service's read: the bytes so far, and its verdict         *)
  sole     (* history: the last run to open the file, if it did so alone    *)

vars == <<file, writer, reader, sole>>

-----------------------------------------------------------------------------
Part(a, n) == [piece |-> "part", of |-> a, n |-> n]
Hole       == [piece |-> "hole"]
Header(version, crc, len) ==
  [piece |-> "header", version |-> version, crc |-> crc, len |-> len]

Payload(a) == [n \in 1..a.parts |-> Part(a, n)]

(* Mutant: the declared length counts the header. *)
EncodeCountsHeader(a) ==
  IF a.container = "bare" THEN Payload(a)
  ELSE <<Header(a.container, Payload(a), a.parts + 1)>> \o Payload(a)

Encode(a) ==
  IF a.container = "bare" THEN Payload(a)
  ELSE <<Header(a.container, Payload(a), a.parts)>> \o Payload(a)

Reject(why) == [result |-> why, payload |-> <<>>]
Accept(p)   == [result |-> "accepted", payload |-> p]

(* Decoding a payload and what follows; its fields are those of the        *)
(* artifact it starts with.                                                *)
Interpret(p) ==
  LET a == p[1].of
  IN IF ~a.decodable THEN Reject("undecodable")
     ELSE IF a.schema = "unreadable" THEN Reject("unreadable_schema")
     ELSE IF a.schema = "major" THEN Reject("schema_major")
     ELSE IF ~a.sound THEN Reject("invalid")
     ELSE Accept(p)

(* Mutant: the checksum is not compared. *)
DecodeUnchecked(bytes) ==
  IF bytes = <<>> \/ bytes[1].piece # "header" THEN Reject("missing_header")
  ELSE LET head == bytes[1]
           rest == Tail(bytes)
       IN IF Len(rest) < head.len THEN Reject("truncated")
          ELSE IF head.version # "current" THEN Reject("container")
          ELSE IF rest[1].piece = "part" THEN Interpret(SubSeq(rest, 1, head.len))
          ELSE Reject("undecodable")

(* decode: framing, checksum, container version, and only then the payload *)
(* and its schema.  Bytes after the declared length are not looked at.     *)
Decode(bytes) ==
  IF bytes = <<>> \/ bytes[1].piece # "header" THEN Reject("missing_header")
  ELSE LET head    == bytes[1]
           rest    == Tail(bytes)
           payload == SubSeq(rest, 1, head.len)
       IN CASE Len(rest) < head.len     -> Reject("truncated")
            [] Len(rest) >= head.len /\ payload # head.crc -> Reject("crc_mismatch")
            [] Len(rest) >= head.len /\ payload = head.crc /\ head.version # "current" ->
                 Reject("container")
            [] OTHER -> Interpret(payload)

-----------------------------------------------------------------------------
Idle == [pc |-> "idle"]

Init ==
  /\ file   = [exists |-> FALSE, pieces |-> <<>>]
  /\ writer = [w \in Writers |-> Idle]
  /\ reader = Idle
  /\ sole   = Nobody

(* std::fs::write opens the file and truncates it ... *)
Open(w) ==
  /\ writer[w].pc = "idle"
  /\ \E a \in Written :
       writer' = [writer EXCEPT ![w] = [pc |-> "writing", artifact |-> a, out |-> 0]]
  /\ file' = [exists |-> TRUE, pieces |-> <<>>]
  /\ sole' = IF \A v \in Writers : writer[v].pc # "writing" THEN w ELSE Nobody
  /\ UNCHANGED reader

(* A piece at position n of the file; a gap left by another run's          *)
(* truncation reads as zeros.                                              *)
Put(pieces, n, piece) ==
  [i \in 1..(IF n > Len(pieces) THEN n ELSE Len(pieces)) |->
     IF i = n THEN piece ELSE IF i <= Len(pieces) THEN pieces[i] ELSE Hole]

Offset(w) == writer[w].out + 1

(* ... puts the bytes at its own position ... *)
WritePiece(w) ==
  /\ writer[w].pc = "writing"
  /\ writer[w].out < Len(Encode(writer[w].artifact))
  /\ file' = [file EXCEPT !.pieces = Put(@, Offset(w), Encode(writer[w].artifact)[Offset(w)])]
  /\ writer' = [writer EXCEPT ![w].out = @ + 1]
  /\ UNCHANGED <<reader, sole>>

(* ... and closes, or stops anywhere: killed, or out of disk space. *)
Close(w) ==
  /\ writer[w].pc = "writing"
  /\ writer[w].out = Len(Encode(writer[w].artifact))
  /\ writer' = [writer EXCEPT ![w].pc = "done"]
  /\ UNCHANGED <<file, reader, sole>>

Fail(w) ==
  /\ writer[w].pc = "writing"
  /\ writer' = [writer EXCEPT ![w].pc = "failed"]
  /\ UNCHANGED <<file, reader, sole>>

(* The service starts and opens the artifact. *)
StartRead ==
  /\ reader.pc = "idle"
  /\ reader' = IF file.exists
                 THEN [pc |-> "reading", bytes |-> <<>>, verdict |-> Reject("none")]
                 ELSE [pc |-> "done", bytes |-> <<>>, verdict |-> Reject("io")]
  /\ UNCHANGED <<file, writer, sole>>

ReadPiece ==
  /\ reader.pc = "reading"
  /\ Len(reader.bytes) < Len(file.pieces)
  /\ reader' = [reader EXCEPT !.bytes = Append(@, file.pieces[Len(@) + 1])]
  /\ UNCHANGED <<file, writer, sole>>

(* End of file, or of what is left of it. *)
EndRead ==
  /\ reader.pc = "reading"
  /\ Len(reader.bytes) >= Len(file.pieces)
  /\ reader' = [reader EXCEPT !.pc = "done", !.verdict = Decode(reader.bytes)]
  /\ UNCHANGED <<file, writer, sole>>

(* The service is started again. *)
Restart ==
  /\ reader.pc = "done"
  /\ reader' = Idle
  /\ UNCHANGED <<file, writer, sole>>

Next ==
  \/ \E w \in Writers : Open(w) \/ WritePiece(w) \/ Close(w) \/ Fail(w)
  \/ StartRead \/ ReadPiece \/ EndRead \/ Restart

Spec == Init /\ [][Next]_vars

-----------------------------------------------------------------------------
Pieces ==
  {Part(a, n) : a \in Written, n \in 1..MaxParts} \cup {Hole}
    \cup {Header(a.container, Payload(a), a.parts) : a \in Written}

Results == {"none", "io", "accepted", "missing_header", "truncated", "crc_mismatch", "container",
            "undecodable", "unreadable_schema", "schema_major", "invalid"}

TypeOK ==
  /\ file.exists \in BOOLEAN
  /\ file.pieces \in Seq(Pieces)
  /\ \A w \in Writers : writer[w].pc # "idle" =>
       /\ writer[w].artifact \in Written
       /\ writer[w].out \in 0..MaxParts + 1
  /\ sole \in Writers \cup {Nobody}
  /\ reader.pc # "idle" => reader.bytes \in Seq(Pieces) /\ reader.verdict.result \in Results

Judged == reader.pc = "done"

(* Only whole artifacts are served: an accepted payload is, part for part, *)
(* one artifact that a run set out to write, fit for this build, although  *)
(* writes were torn, overlapped each other or went on during the read.     *)
AcceptedIsWhole ==
  Judged /\ reader.verdict.result = "accepted" =>
    \E w \in Writers :
      /\ writer[w].pc # "idle"
      /\ LET a == writer[w].artifact
         IN /\ reader.verdict.payload = Payload(a)
            /\ a.container = "current" /\ a.decodable /\ a.sound
            /\ a.schema \in {"same", "minor"}

(* A payload is only ever taken apart under the container version this     *)
(* build knows, and validated only under its schema major.                 *)
DecodesOwnFormat ==
  Judged /\ reader.verdict.result \in {"undecodable", "unreadable_schema", "schema_major", "invalid"} =>
    /\ reader.bytes[1].version = "current"
    /\ reader.verdict.result = "invalid" => reader.bytes[2].of.schema \in {"same", "minor"}

(* A file that a run wrote to its end, with no other run at work since it  *)
(* opened it, is judged on the artifact's own merits, whatever earlier     *)
(* runs left there.                                                        *)
Merits(a) ==
  CASE a.container = "bare"    -> "missing_header"
    [] a.container = "foreign" -> "container"
    [] OTHER                   -> Interpret(Payload(a)).result

QuietReadIsFaithful ==
  Judged /\ sole # Nobody /\ writer[sole].pc = "done" /\ reader.bytes = file.pieces
    => reader.verdict.result = Merits(writer[sole].artifact)
=============================================================================
