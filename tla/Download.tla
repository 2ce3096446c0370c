------------------------------- MODULE Download -------------------------------
(***************************************************************************)
(* Reading an asset back: the Range header (apps/api parse_range), the     *)
(* range of the content (AssetService::content) and the stream of chunks   *)
(* (LocalArtifactStore::open).                                             *)
(*                                                                         *)
(* A byte is its position.  Total is the byte count of the asset's row,    *)
(* which is not 0, since put refuses an empty file; the file is the one    *)
(* Upload left under the storage key, or has been cut short or removed     *)
(* behind the program's back.                                              *)
(***************************************************************************)
EXTENDS Integers

CONSTANTS MaxBytes,  \* the largest byte count of an asset
          MaxHeader, \* the largest number in a header
          ChunkSize  \* 64 KiB in the code

ASSUME SizesAssumption ==
  /\ MaxBytes \in Nat \ {0} /\ ChunkSize \in Nat \ {0}
  /\ MaxHeader \in Nat

VARIABLES total,    \* byte count of the row
          file,     \* bytes in the file, -1 if there is none
          header,   \* the Range header of the request
          answer,   \* "none", a status, or how the body ended
          range,    \* the range answered with
          sent,     \* how many bytes of the body were sent
          position  \* where the file is read next

vars == <<total, file, header, answer, range, sent, position>>

(***************************************************************************)
(* "absent" is a request without the header.  One range has a first and a  *)
(* last number, of which one may be Empty; anything else (another unit,    *)
(* several ranges, no number or one that does not fit into a u64) is       *)
(* "invalid".                                                              *)
(***************************************************************************)
Empty   == -1
Numbers == 0..MaxHeader
Headers == [form : {"absent", "invalid"}]
             \cup [form : {"range"}, first : Numbers \cup {Empty},
                   last : Numbers \cup {Empty}]

Range(first, last) == [start |-> first, end |-> last]
Refused == Range(0, -1)

Least(a, b) == IF a < b THEN a ELSE b

-----------------------------------------------------------------------------
(***************************************************************************)
(* parse_range.                                                            *)
(***************************************************************************)
(* Variant: a suffix longer than the content is not cut. *)
SuffixUncut(length, bytes) ==
  IF length = 0 THEN Refused ELSE Range(bytes - length, bytes - 1)

Suffix(length, bytes) ==
  LET cut == Least(length, bytes)
  IN IF cut = 0 THEN Refused ELSE Range(bytes - cut, bytes - 1)

(* Variant: the end of a range is taken as it is given. *)
FromToUncut(first, last, bytes) ==
  LET end == IF last = Empty THEN bytes - 1 ELSE last
  IN IF first < bytes /\ first <= end THEN Range(first, end) ELSE Refused

FromTo(first, last, bytes) ==
  LET end == IF last = Empty THEN bytes - 1 ELSE Least(last, bytes - 1)
  IN IF first < bytes /\ first <= end THEN Range(first, end) ELSE Refused

ParseRange(h, bytes) ==
  IF h.form = "invalid" THEN Refused
  ELSE IF h.first # Empty THEN FromTo(h.first, h.last, bytes)
  ELSE IF h.last = Empty THEN Refused
  ELSE Suffix(h.last, bytes)

Whole(bytes) == Range(0, bytes - 1)
Length(r) == r.end - r.start + 1

-----------------------------------------------------------------------------
Init ==
  /\ total \in 1..MaxBytes
  /\ file \in -1..total
  /\ header \in Headers
  /\ answer = "none"
  /\ range = Refused
  /\ sent = 0
  /\ position = 0

Answer(status, r) ==
  /\ answer = "none"
  /\ answer' = status
  /\ range' = r
  /\ position' = r.start
  /\ UNCHANGED <<total, file, header, sent>>

(* download_artifact: the row first, then the header, then the file. *)
Reject ==
  \/ /\ header.form # "absent"
     /\ ParseRange(header, total) = Refused
     /\ Answer("416", Refused)
  \/ /\ file = -1
     /\ header.form # "absent" => ParseRange(header, total) # Refused
     /\ Answer("error", Refused)

Begin ==
  /\ file # -1
  /\ \/ header.form = "absent" /\ Answer("200", Whole(total))
     \/ /\ header.form # "absent"
        /\ ParseRange(header, total) # Refused
        /\ Answer("206", ParseRange(header, total))

Streaming == answer \in {"200", "206"}
Remaining == Length(range) - sent

(* Variant: a chunk is read whole, whatever remains of the range. *)
SendWholeChunk ==
  /\ Streaming /\ Remaining > 0
  /\ \E read \in 1..ChunkSize :
       /\ position + read <= file
       /\ sent' = sent + read
       /\ position' = position + read
  /\ UNCHANGED <<total, file, header, answer, range>>

(* One chunk; a read may return less than it was asked for. *)
Send ==
  /\ Streaming /\ Remaining > 0
  /\ \E read \in 1..Least(Remaining, ChunkSize) :
       /\ position + read <= file
       /\ sent' = sent + read
       /\ position' = position + read
  /\ UNCHANGED <<total, file, header, answer, range>>

(* Variant: the end of the file ends the body without an error. *)
AbortSilently ==
  /\ Streaming /\ Remaining > 0 /\ position >= file
  /\ answer' = "complete"
  /\ UNCHANGED <<total, file, header, range, sent, position>>

(* "artifact ended before its persisted byte count", or a read error. *)
Abort ==
  /\ Streaming /\ Remaining > 0
  /\ answer' = "aborted"
  /\ UNCHANGED <<total, file, header, range, sent, position>>

Finish ==
  /\ Streaming /\ Remaining = 0
  /\ answer' = "complete"
  /\ UNCHANGED <<total, file, header, range, sent, position>>

Next == Reject \/ Begin \/ Send \/ Abort \/ Finish

Spec == Init /\ [][Next]_vars

-----------------------------------------------------------------------------
TypeOK ==
  /\ total \in 1..MaxBytes /\ file \in -1..total /\ header \in Headers
  /\ answer \in {"none", "416", "error", "200", "206", "aborted", "complete"}
  /\ range.start \in 0..MaxBytes /\ range.end \in -1..MaxBytes - 1
  /\ sent \in 0..MaxBytes /\ position \in 0..MaxBytes

(***************************************************************************)
(* The positions a header asks for, as HTTP defines byte ranges: from      *)
(* first to last or to the end, or the last so many, of those there are.   *)
(* "supports one standard byte range for browser seeking, and returns 416  *)
(* for invalid or multiple ranges" (docs/DEVELOPMENT.md:100).              *)
(***************************************************************************)
Wanted ==
  {p \in 0..total - 1 :
     \/ header.form = "absent"
     \/ /\ header.form = "range" /\ header.first # Empty
        /\ header.first <= p
        /\ header.last # Empty => p <= header.last
     \/ /\ header.form = "range" /\ header.first = Empty
        /\ p >= total - header.last}

(***************************************************************************)
(* A request is refused with 416 exactly when it asks for nothing, and     *)
(* otherwise answered with the range it asks for and no other byte.        *)
(***************************************************************************)
AnswersWhatIsAsked ==
  /\ answer = "416" => Wanted = {}
  /\ answer \in {"200", "206", "aborted", "complete"} =>
       range.start..range.end = Wanted /\ Wanted # {}

(***************************************************************************)
(* What is sent never exceeds Content-Length and stays inside the range; a *)
(* body that ends well has all of it, also when reads are short or the     *)
(* file is: the client can tell a cut file from a whole one.               *)
(***************************************************************************)
CompleteIsAll ==
  /\ sent <= Length(range) /\ (sent > 0 => position - 1 \in Wanted)
  /\ answer = "complete" => sent = Length(range)
  /\ answer = "complete" => range.start + sent <= file
=============================================================================
