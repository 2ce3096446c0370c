------------------------------- MODULE Timeline -------------------------------
(***************************************************************************)
(* The cues of a transcript: the commands of the web editor on its draft   *)
(* (apps/web transcriptEditor.ts, called by TranscriptReview), its check   *)
(* of the draft before a save, and the check of the server                 *)
(* (crates/application validate_timeline).                                 *)
(*                                                                         *)
(* Times are integers, Unit of them to a millisecond: with Unit = 1 only   *)
(* whole milliseconds are typed, with a larger one fractions too, which    *)
(* Number(value) keeps and an i64 of the server does not take.             *)
(***************************************************************************)
EXTENDS Integers, SequencesExt

CONSTANTS Transcripts,  \* the transcripts that are opened in the editor
          WordCount,    \* their number of words, whose ids are 1..WordCount
          Duration,     \* of the audio
          Nudge,        \* 50 ms in the code
          Unit,
          MaxCommands   \* bound: commands given to one draft

ASSUME NumbersAssumption ==
  /\ {WordCount, Duration, Nudge, Unit} \subseteq Nat \ {0}
  /\ MaxCommands \in Nat

VARIABLES draft,    \* the cues, in their order
          commands  \* how many were given

timelineVars == <<draft, commands>>

Typed == -1..Duration + 1  \* what the fields may hold, also when out of range
Texts == {"text", "blank"} \* the field takes no more than 200 characters

Word == [id : Nat, start : Int, end : Int, text : Texts]
Cue  == [start : Int, end : Int, words : Seq(Word)]

Words(cues) == FlattenSeq([i \in DOMAIN cues |-> cues[i].words])

-----------------------------------------------------------------------------
(* validate_timeline *)

(* Where the element before i ends. *)
EndBefore(seq, i, first) == IF i = 1 THEN first ELSE seq[i - 1].end

Whole(time) == time % Unit = 0

(* Variant: a cue is compared with the start of the previous one. *)
CuesStartInOrder(cues) ==
  \A i \in DOMAIN cues :
    /\ cues[i].words # <<>>
    /\ cues[i].start >= IF i = 1 THEN 0 ELSE cues[i - 1].start
    /\ cues[i].start < cues[i].end /\ cues[i].end <= Duration

CuesInOrder(cues) ==
  \A i \in DOMAIN cues :
    /\ cues[i].words # <<>>
    /\ cues[i].start >= EndBefore(cues, i, 0)
    /\ cues[i].start < cues[i].end /\ cues[i].end <= Duration

WordsInOrder(cue) ==
  \A k \in DOMAIN cue.words :
    LET word == cue.words[k] IN
    /\ word.text = "text"
    /\ word.start >= EndBefore(cue.words, k, cue.start)
    /\ word.start < word.end /\ word.end <= cue.end

(* The fields of TranscriptCue and TimedWord are of type i64. *)
Decodes(cues) ==
  /\ \A i \in DOMAIN cues : Whole(cues[i].start) /\ Whole(cues[i].end)
  /\ \A k \in DOMAIN Words(cues) :
       Whole(Words(cues)[k].start) /\ Whole(Words(cues)[k].end)

ServerAccepts(cues) ==
  /\ Decodes(cues)
  /\ cues # <<>>
  /\ CuesInOrder(cues)
  /\ \A i \in DOMAIN cues : WordsInOrder(cues[i])

ASSUME TranscriptsAssumption ==
  \A cues \in Transcripts :
    /\ cues \in Seq(Cue)
    /\ ServerAccepts(cues)
    /\ Len(Words(cues)) = WordCount
    /\ \A k \in 1..WordCount : Words(cues)[k].id = k

-----------------------------------------------------------------------------
(* validateTimeline: what the editor shows as issues, by cue and word. *)

(* Variant: cues may overlap. *)
CueIssuesWithoutOverlap(cues) ==
  {i \in DOMAIN cues :
     \/ cues[i].start < 0 \/ cues[i].end <= cues[i].start \/ cues[i].end > Duration
     \/ cues[i].words = <<>>}

CueIssues(cues) ==
  {i \in DOMAIN cues :
     \/ cues[i].start < 0 \/ cues[i].end <= cues[i].start \/ cues[i].end > Duration
     \/ cues[i].start < EndBefore(cues, i, 0)
     \/ cues[i].words = <<>>}

WordIssues(cue) ==
  {k \in DOMAIN cue.words :
     LET word == cue.words[k] IN
     \/ word.text = "blank"
     \/ word.start < EndBefore(cue.words, k, cue.start)
     \/ word.end <= word.start
     \/ word.start < cue.start \/ word.end > cue.end}

NoIssues(cues) ==
  /\ cues # <<>>
  /\ CueIssues(cues) = {}
  /\ \A i \in DOMAIN cues : WordIssues(cues[i]) = {}

-----------------------------------------------------------------------------
(* The commands of the editor. *)

Command(cues) ==
  /\ commands < MaxCommands
  /\ draft' = cues
  /\ commands' = commands + 1

SetCueBounds(i) ==
  \E time \in Typed :
    \/ Command([draft EXCEPT ![i].start = time])
    \/ Command([draft EXCEPT ![i].end = time])

UpdateWord(i, k) ==
  \/ \E time \in Typed :
       \/ Command([draft EXCEPT ![i].words[k].start = time])
       \/ Command([draft EXCEPT ![i].words[k].end = time])
  \/ \E text \in Texts : Command([draft EXCEPT ![i].words[k].text = text])

(* Variant: the right part keeps the start of the cue. *)
SplitOnlyEnd(i, k) ==
  LET cue   == draft[i]
      left  == [cue EXCEPT !.words = SubSeq(@, 1, k - 1), !.end = cue.words[k - 1].end]
      right == [cue EXCEPT !.words = SubSeq(@, k, Len(@))]
  IN k > 1 /\ Command(ReplaceAt(InsertAt(draft, i + 1, right), i, left))

(* Word k and those behind it become a cue of their own. *)
SplitCue(i, k) ==
  LET cue   == draft[i]
      left  == [cue EXCEPT !.words = SubSeq(@, 1, k - 1), !.end = cue.words[k - 1].end]
      right == [cue EXCEPT !.words = SubSeq(@, k, Len(@)), !.start = cue.words[k].start]
  IN k > 1 /\ Command(ReplaceAt(InsertAt(draft, i + 1, right), i, left))

Merged(left, right) ==
  [left EXCEPT !.end = right.end, !.words = @ \o right.words]

(* Variant: the cue that was merged is not taken away. *)
MergeKeepsRight(i) ==
  /\ i > 1
  /\ Command(ReplaceAt(draft, i - 1, Merged(draft[i - 1], draft[i])))

MergeCueWithPrevious(i) ==
  /\ i > 1
  /\ Command(RemoveAt(ReplaceAt(draft, i - 1, Merged(draft[i - 1], draft[i])), i))

Least(a, b)   == IF a < b THEN a ELSE b
Largest(a, b) == IF a > b THEN a ELSE b

(* Variant: start and end are kept inside of the audio one by one. *)
NudgedEachEnd(word, delta) ==
  [word EXCEPT !.start = Largest(0, @ + delta), !.end = Least(Duration, @ + delta)]

Nudged(word, delta) ==
  LET bounded == Largest(0 - word.start, Least(delta, Duration - word.end))
  IN [word EXCEPT !.start = @ + bounded, !.end = @ + bounded]

NudgeWord(i, k) ==
  \E delta \in {0 - Nudge, Nudge} :
    Command([draft EXCEPT ![i].words[k] = Nudged(@, delta)])

TimelineInit ==
  /\ draft \in Transcripts
  /\ commands = 0

TimelineNext ==
  \E i \in DOMAIN draft :
    \/ SetCueBounds(i)
    \/ MergeCueWithPrevious(i)
    \/ \E k \in DOMAIN draft[i].words :
         UpdateWord(i, k) \/ SplitCue(i, k) \/ NudgeWord(i, k)

TimelineSpec == TimelineInit /\ [][TimelineNext]_timelineVars

-----------------------------------------------------------------------------
(***************************************************************************)
(* "The working-copy editor mirrors the server timeline invariants before  *)
(* save" (docs/DEVELOPMENT.md:104): the editor offers to save exactly the  *)
(* drafts the server takes, those with fractions of a millisecond apart,   *)
(* which the fields keep and the server cannot decode.                     *)
(***************************************************************************)
ValidatorsAgree == (NoIssues(draft) /\ Decodes(draft)) <=> ServerAccepts(draft)

(***************************************************************************)
(* What the server stores can be played: words follow each other across    *)
(* all cues, so that at most one word is active at any position, and the   *)
(* search of syncActiveWord for the first one finds it.                    *)
(***************************************************************************)
AcceptedIsPlayable ==
  ServerAccepts(draft) =>
    LET words == Words(draft) IN
    \A i, k \in DOMAIN words : i < k =>
      words[i].start < words[i].end /\ words[i].end <= words[k].start

(***************************************************************************)
(* No command loses, repeats or reorders a word, or leaves an empty cue.   *)
(***************************************************************************)
WordsAreKept ==
  /\ Len(Words(draft)) = WordCount
  /\ \A k \in 1..WordCount : Words(draft)[k].id = k
  /\ \A i \in DOMAIN draft : draft[i].words # <<>>

(***************************************************************************)
(* Splitting and merging cues leaves a valid draft valid and moves no word *)
(* in time.                                                                *)
(***************************************************************************)
StructureIsSafe ==
  [][Len(draft') # Len(draft) =>
       /\ Words(draft') = Words(draft)
       /\ ServerAccepts(draft) => ServerAccepts(draft')]_timelineVars

(***************************************************************************)
(* A nudge keeps the length of a word, and a word inside the audio inside. *)
(***************************************************************************)
Inside(word) == 0 <= word.start /\ word.end <= Duration

NudgeIsRigid ==
  [][\A k \in 1..WordCount :
       LET old == Words(draft)[k]
           new == Words(draft')[k]
       IN old.start # new.start /\ old.end # new.end =>
            /\ new.end - new.start = old.end - old.start
            /\ Inside(old) => Inside(new)]_timelineVars
=============================================================================
