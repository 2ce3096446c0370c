---------------------------- MODULE DownloadProofs ----------------------------
(***************************************************************************)
(* Every request for a range is answered with the bytes it asks for, for   *)
(* contents, headers and chunks of any size.                               *)
(***************************************************************************)
EXTENDS Download, TLAPS

(***************************************************************************)
(* parse_range finds the positions wanted, and refuses when there is none. *)
(* The first number decides the branch; in each one the end is cut at the  *)
(* last byte, or the suffix at the whole content.                          *)
(***************************************************************************)
LEMMA ParsedIsWanted ==
  ASSUME total \in Nat \ {0}, header \in Headers, header.form # "absent",
         NEW r, r = ParseRange(header, total)
  PROVE  /\ r \in [start : Nat, end : Int]
         /\ r.start..r.end = Wanted
         /\ r = Refused \/ (r.start <= r.end /\ r.end < total)
<1> USE SizesAssumption DEF Range, Refused, Empty
<1>1. CASE header.form = "invalid"
  <2>1. r = Refused
    BY <1>1 DEF ParseRange
  <2>2. Wanted = {}
    BY <1>1 DEF Wanted
  <2> QED BY <2>1, <2>2
<1>2. CASE header.form # "invalid"
  <2>1. /\ header.form = "range"
        /\ header.first \in Nat \cup {-1} /\ header.last \in Nat \cup {-1}
    BY <1>2 DEF Headers, Numbers
  <2>2. CASE header.first # -1
    <3>1. Wanted = {p \in 0..total - 1 : header.first <= p
                                         /\ (header.last # -1 => p <= header.last)}
      BY <2>1, <2>2 DEF Wanted
    <3>2. r = FromTo(header.first, header.last, total)
      BY <1>2, <2>2 DEF ParseRange
    <3> DEFINE end == IF header.last = -1 THEN total - 1
                      ELSE Least(header.last, total - 1)
    <3>3. /\ end \in Int /\ end < total
          /\ \A p \in 0..total - 1 : (header.last # -1 => p <= header.last) <=> p <= end
      BY <2>1 DEF Least
    <3>4. r = IF header.first < total /\ header.first <= end
              THEN [start |-> header.first, end |-> end] ELSE [start |-> 0, end |-> -1]
      BY <3>2 DEF FromTo
    <3> HIDE DEF end
    <3>5. Wanted = {p \in 0..total - 1 : header.first <= p /\ p <= end}
      BY <3>1, <3>3
    <3> QED BY <2>1, <2>2, <3>3, <3>4, <3>5
  <2>3. CASE header.first = -1 /\ header.last = -1
    <3>1. r = Refused
      BY <1>2, <2>3 DEF ParseRange
    <3>2. Wanted = {}
      BY <2>1, <2>3 DEF Wanted
    <3> QED BY <3>1, <3>2
  <2>4. CASE header.first = -1 /\ header.last # -1
    <3>1. Wanted = {p \in 0..total - 1 : p >= total - header.last}
      BY <2>1, <2>4 DEF Wanted
    <3>2. r = Suffix(header.last, total)
      BY <1>2, <2>4 DEF ParseRange
    <3>3. CASE header.last = 0
      BY <2>1, <3>1, <3>2, <3>3 DEF Suffix, Least
    <3>4. CASE header.last > 0
      BY <2>1, <3>1, <3>2, <3>4 DEF Suffix, Least
    <3> QED BY <2>1, <2>4, <3>3, <3>4
  <2> QED BY <2>2, <2>3, <2>4
<1> QED BY <1>1, <1>2

-----------------------------------------------------------------------------
(***************************************************************************)
(* The invariant: the range answered with is the one wanted, and the file  *)
(* is read from the first byte of it on, as far as bytes were sent.        *)
(***************************************************************************)
Body == {"200", "206", "aborted", "complete"}

Inv ==
  /\ total \in 1..MaxBytes /\ file \in -1..total /\ header \in Headers
  /\ answer \in {"none", "416", "error"} \cup Body
  /\ answer \notin Body => sent = 0 /\ position = 0 /\ range = Refused
  /\ answer = "416" => Wanted = {}
  /\ answer \in Body =>
       /\ range \in [start : Nat, end : Int]
       /\ range.start..range.end = Wanted
       /\ range.start <= range.end /\ range.end < total
       /\ sent \in 0..Length(range)
       /\ position = range.start + sent
       /\ sent > 0 => position <= file
       /\ answer = "complete" => sent = Length(range)

LEMMA WholeIsWanted ==
  ASSUME total \in Nat \ {0}, header \in Headers, header.form = "absent"
  PROVE  0..total - 1 = Wanted
BY DEF Wanted

LEMMA Beginning == Init => Inv
BY SizesAssumption DEF Init, Inv, Body

LEMMA Answering == Inv /\ (Reject \/ Begin) => Inv'
<1> SUFFICES ASSUME Inv, Reject \/ Begin PROVE Inv'
  OBVIOUS
<1>1. answer = "none" /\ sent = 0
  BY DEF Inv, Body, Reject, Begin, Answer
<1>2. /\ UNCHANGED <<total, file, header, sent>>
      /\ position' = range'.start
  BY DEF Reject, Begin, Answer
<1>3. Wanted' = Wanted
  BY <1>2 DEF Wanted
<1>4. CASE Reject
  <2>1. /\ range' = Refused /\ Refused' = Refused
        /\ \/ answer' = "error"
           \/ answer' = "416" /\ header.form # "absent" /\ ParseRange(header, total) = Refused
    BY <1>4 DEF Reject, Answer, Refused, Range
  <2>2. answer' = "416" => Wanted = {}
    BY <2>1, ParsedIsWanted DEF Inv, Refused, Range
  <2> QED BY <1>1, <1>2, <1>3, <2>1, <2>2 DEF Inv, Body, Refused, Range
<1>5. CASE Begin
  <2>1. answer' \in {"200", "206"}
    BY <1>5 DEF Begin, Answer
  <2>2. /\ range' \in [start : Nat, end : Int]
        /\ range'.start..range'.end = Wanted
        /\ range'.start <= range'.end /\ range'.end < total
    <3>1. CASE header.form = "absent"
      <4>1. range' = [start |-> 0, end |-> total - 1]
        BY <1>5, <3>1 DEF Begin, Answer, Whole, Range
      <4> QED BY <3>1, <4>1, WholeIsWanted, SizesAssumption DEF Inv
    <3>2. CASE header.form # "absent"
      <4>1. range' = ParseRange(header, total) /\ range' # Refused
        BY <1>5, <3>2 DEF Begin, Answer
      <4> QED BY <3>2, <4>1, ParsedIsWanted, SizesAssumption DEF Inv
    <3> QED BY <3>1, <3>2
  <2> QED BY <1>1, <1>2, <1>3, <2>1, <2>2 DEF Inv, Body, Length
<1> QED BY <1>4, <1>5

LEMMA Sending == Inv /\ Send => Inv'
<1> SUFFICES ASSUME Inv, Send PROVE Inv'
  OBVIOUS
<1>1. /\ answer \in {"200", "206"} /\ Length(range) - sent > 0
      /\ UNCHANGED <<total, file, header, answer, range>>
  BY DEF Send, Streaming, Remaining
<1>2. PICK read \in 1..Least(Length(range) - sent, ChunkSize) :
        position + read <= file /\ sent' = sent + read /\ position' = position + read
  BY DEF Send, Remaining
<1>3. Wanted' = Wanted /\ Length(range)' = Length(range)
  BY <1>1 DEF Wanted, Length
<1>4. answer \in Body
  BY <1>1 DEF Body
<1>5. /\ range \in [start : Nat, end : Int] /\ sent \in 0..Length(range)
      /\ position = range.start + sent /\ file \in Int
  BY <1>4 DEF Inv
<1>6. Length(range) \in Int
  BY <1>5 DEF Length
<1>7. read \in Int /\ read > 0 /\ read <= Length(range) - sent
  BY <1>2, <1>5, <1>6, SizesAssumption DEF Least
<1>8. /\ sent' \in 0..Length(range)
      /\ position' = range.start + sent'
      /\ position' <= file
  BY <1>2, <1>5, <1>6, <1>7
<1> QED BY <1>1, <1>3, <1>4, <1>8 DEF Inv, Body

LEMMA Ending == Inv /\ (Abort \/ Finish) => Inv'
<1> SUFFICES ASSUME Inv, Abort \/ Finish PROVE Inv'
  OBVIOUS
<1>1. /\ answer \in Body
      /\ \/ answer' = "aborted"
         \/ answer' = "complete" /\ Length(range) - sent = 0
      /\ UNCHANGED <<total, file, header, range, sent, position>>
  BY DEF Abort, Finish, Streaming, Remaining, Body
<1>2. Wanted' = Wanted /\ Length(range)' = Length(range)
  BY <1>1 DEF Wanted, Length
<1>3. Length(range) \in Int /\ sent \in Int
  BY <1>1 DEF Inv, Length
<1> QED BY <1>1, <1>2, <1>3 DEF Inv, Body

LEMMA DownloadInvariance == Spec => []Inv
<1>1. Inv /\ UNCHANGED vars => Inv'
  BY DEF Inv, vars, Wanted, Length
<1>2. Inv /\ [Next]_vars => Inv'
  BY <1>1, Answering, Sending, Ending DEF Next
<1> QED BY Beginning, <1>2, PTL DEF Spec

(***************************************************************************)
(* Ranges, counts and positions stay inside of the file's row.             *)
(***************************************************************************)
THEOREM TypeCorrect == Spec => []TypeOK
<1>1. Inv => TypeOK
  <2> SUFFICES ASSUME Inv PROVE TypeOK
    OBVIOUS
  <2>1. /\ total \in 1..MaxBytes /\ file \in -1..total /\ header \in Headers
        /\ answer \in {"none", "416", "error", "200", "206", "aborted", "complete"}
    BY DEF Inv, Body
  <2>2. CASE answer \in Body
    <3>1. /\ range.start \in Nat /\ range.end \in Int
          /\ range.start <= range.end /\ range.end < total
          /\ sent \in 0..Length(range) /\ position = range.start + sent
      BY <2>2 DEF Inv
    <3>2. Length(range) = range.end - range.start + 1
      BY DEF Length
    <3> QED BY <2>1, <3>1, <3>2, SizesAssumption DEF TypeOK
  <2>3. CASE answer \notin Body
    <3>1. sent = 0 /\ position = 0 /\ range.start = 0 /\ range.end = -1
      BY <2>3 DEF Inv, Refused, Range
    <3> QED BY <2>1, <3>1, SizesAssumption DEF TypeOK
  <2> QED BY <2>2, <2>3
<1> QED BY <1>1, DownloadInvariance, PTL

(***************************************************************************)
(* A range is refused only if it wants no byte, and answered with exactly  *)
(* the bytes it wants.                                                     *)
(***************************************************************************)
THEOREM RangesAreRight == Spec => []AnswersWhatIsAsked
<1>1. Inv => AnswersWhatIsAsked
  <2> SUFFICES ASSUME Inv PROVE AnswersWhatIsAsked
    OBVIOUS
  <2>1. CASE answer \in Body
    <3>1. /\ range.start \in Nat /\ range.end \in Int /\ range.start <= range.end
          /\ range.start..range.end = Wanted
      BY <2>1 DEF Inv
    <3>2. range.start \in Wanted
      BY <3>1
    <3> QED BY <2>1, <3>1, <3>2 DEF AnswersWhatIsAsked, Body
  <2>2. CASE answer \notin Body
    BY <2>2 DEF Inv, AnswersWhatIsAsked, Body
  <2> QED BY <2>1, <2>2
<1> QED BY <1>1, DownloadInvariance, PTL

(***************************************************************************)
(* No byte outside of the range is sent, and a body that ends well has all *)
(* of it, whatever the chunks are and although the file may be short.      *)
(***************************************************************************)
THEOREM BodiesAreWhole == Spec => []CompleteIsAll
<1>1. Inv => CompleteIsAll
  <2> SUFFICES ASSUME Inv PROVE CompleteIsAll
    OBVIOUS
  <2>1. CASE answer \in Body
    <3>1. /\ range.start \in Nat /\ range.end \in Int /\ range.start <= range.end
          /\ range.start..range.end = Wanted
          /\ sent \in 0..Length(range) /\ position = range.start + sent
          /\ sent > 0 => position <= file
          /\ answer = "complete" => sent = Length(range)
      BY <2>1 DEF Inv
    <3>2. Length(range) = range.end - range.start + 1
      BY DEF Length
    <3>3. sent <= Length(range) /\ (sent > 0 => position - 1 \in range.start..range.end)
      BY <3>1, <3>2
    <3>4. answer = "complete" => sent > 0 /\ range.start + sent <= file
      BY <3>1, <3>2
    <3> QED BY <3>1, <3>3, <3>4 DEF CompleteIsAll
  <2>2. CASE answer \notin Body
    BY <2>2 DEF Inv, CompleteIsAll, Body, Length, Refused, Range
  <2> QED BY <2>1, <2>2
<1> QED BY <1>1, DownloadInvariance, PTL
=============================================================================
