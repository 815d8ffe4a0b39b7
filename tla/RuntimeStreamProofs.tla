-------------------------- MODULE RuntimeStreamProofs -------------------------
(***************************************************************************)
(* Theorems about the copies of a response, for every length of it, any    *)
(* number of loads and openings, failed writes and crashes.                *)
(***************************************************************************)
EXTENDS RuntimeStream, SequenceTheorems, TLAPS

(***************************************************************************)
(* Texts.                                                                  *)
(***************************************************************************)
LEMMA SaidIsText ==
  ASSUME said \in 0..MaxTokens
  PROVE  Said \in Text /\ Len(Said) = said /\ \A i \in 1..said : Said[i] = i
  BY StreamAssumption DEF Said, Text

LEMMA PrefixIs ==
  ASSUME said \in 0..MaxTokens, NEW t \in Text
  PROVE  IsPrefix(t, Said) <=> Len(t) <= said /\ \A i \in 1..Len(t) : t[i] = i
<1>1. Said \in Text /\ Len(Said) = said /\ \A i \in 1..said : Said[i] = i
  BY SaidIsText
<1>2. SubSeq(t, 1, Len(t)) = t
  BY SubSeqFull DEF Text
<1>3. ASSUME Len(t) <= said
      PROVE  /\ SubSeq(Said, 1, Len(t)) \in Text /\ Len(SubSeq(Said, 1, Len(t))) = Len(t)
             /\ \A i \in 1..Len(t) : SubSeq(Said, 1, Len(t))[i] = i
  <2>1. Len(t) \in Nat /\ \A i \in 1..Len(t) : i \in 1..said
    BY <1>3, LenProperties DEF Text
  <2>2. \A i \in 1..Len(t) : Said[i] \in 1..MaxTokens /\ Said[1 + i - 1] = i
    BY <1>1, <2>1, StreamAssumption
  <2> QED
    BY <2>1, <2>2, SubSeqProperties DEF Text
<1>4. ASSUME IsPrefix(t, Said) PROVE Len(t) <= said /\ \A i \in 1..Len(t) : t[i] = i
  BY <1>1, <1>2, <1>3, <1>4 DEF IsPrefix
<1>5. ASSUME Len(t) <= said, \A i \in 1..Len(t) : t[i] = i PROVE IsPrefix(t, Said)
  <2>1. t = SubSeq(Said, 1, Len(t))
    BY <1>3, <1>5 DEF Text
  <2> QED
    BY <1>1, <1>2, <1>5, <2>1 DEF IsPrefix
<1> QED
  BY <1>4, <1>5

\* A text that ends where the agent is, in two parts.
LEMMA Parts ==
  ASSUME said \in 0..MaxTokens, NEW a \in Text, NEW b \in Text, a \o b = Said
  PROVE  /\ IsPrefix(a, Said) /\ Len(a) <= said
         /\ b = <<>> => a = Said
         /\ b # <<>> => Last(b) = said /\ Len(a) < said
<1>1. Said \in Text /\ Len(Said) = said /\ \A i \in 1..said : Said[i] = i
  BY SaidIsText
<1>2. Len(a) + Len(b) = said /\ \A i \in 1..Len(a) : a[i] = Said[i]
  BY <1>1 DEF Text
<1>3. b # <<>> => b[Len(b)] = Said[Len(a) + Len(b)] /\ Len(b) > 0
  BY <1>1, <1>2 DEF Text
<1>4. b = <<>> => a = Said
  BY DEF Text
<1> QED
  BY <1>1, <1>2, <1>3, <1>4, PrefixIs DEF Last, Text

LEMMA SaidGrows ==
  ASSUME said \in 0..MaxTokens, said' = said + 1, said < MaxTokens,
         NEW a \in Text, NEW b \in Text, a \o b = Said
  PROVE  /\ Append(b, said + 1) \in Text
         /\ a \o Append(b, said + 1) = Said'
<1>1. Said \in Text /\ Len(Said) = said /\ \A i \in 1..said : Said[i] = i
  BY SaidIsText
<1>2. Said' = Append(Said, said + 1)
  BY <1>1, StreamAssumption DEF Said, Text
<1>3. Append(b, said + 1) \in Text
  BY StreamAssumption DEF Text
<1>4. a \o Append(b, said + 1) = Append(a \o b, said + 1)
  BY StreamAssumption DEF Text
<1> QED
  BY <1>2, <1>3, <1>4

LEMMA PrefixGrows ==
  ASSUME said \in 0..MaxTokens, said' = said + 1, said < MaxTokens,
         NEW t \in Text, IsPrefix(t, Said)
  PROVE  IsPrefix(t, Said')
<1>1. Len(t) <= said /\ \A i \in 1..Len(t) : t[i] = i
  BY PrefixIs
<1>2. Said' = Append(Said, said + 1) /\ Said \in Text /\ Len(Said) = said
  BY SaidIsText, StreamAssumption DEF Said, Text
<1>3. SubSeq(Said', 1, Len(t)) = SubSeq(Said, 1, Len(t)) /\ Len(Said') = said + 1
  BY <1>1, <1>2, StreamAssumption DEF Text
<1> QED
  BY <1>1, <1>2, <1>3 DEF IsPrefix, Text

\* What is appended decides how far a text reaches.
LEMMA LastOfParts ==
  ASSUME NEW a \in Text, NEW b \in Text, b # <<>>
  PROVE  a \o b \in Text /\ a \o b # <<>> /\ Last(a \o b) = Last(b)
<1>1. Len(b) > 0 /\ Len(a \o b) = Len(a) + Len(b) /\ a \o b \in Text
  BY DEF Text
<1>2. (a \o b)[Len(a) + Len(b)] = b[Len(b)]
  BY <1>1 DEF Text
<1> QED
  BY <1>1, <1>2 DEF Last, Text

LEMMA UptoIs ==
  ASSUME NEW x, x.text \in Text
  PROVE  Upto(x) \in Nat /\ (Upto(x) = 0 <=> x.text = <<>>)
<1>1. x.text # <<>> => x.text[Len(x.text)] \in 1..MaxTokens
  <2>1. x.text # <<>> => Len(x.text) \in 1..Len(x.text)
    BY DEF Text
  <2> QED
    BY <2>1, ElementOfSeq DEF Text
<1> QED
  BY <1>1, StreamAssumption DEF Upto, Last

LEMMA UptoPrefix ==
  ASSUME said \in 0..MaxTokens, NEW x, x.text \in Text, IsPrefix(x.text, Said)
  PROVE  Upto(x) = Len(x.text) /\ Upto(x) <= said
<1>1. Len(x.text) <= said /\ \A i \in 1..Len(x.text) : x.text[i] = i
  BY PrefixIs
<1>2. x.text # <<>> => Len(x.text) \in 1..Len(x.text)
  BY DEF Text
<1> QED
  BY <1>1, <1>2 DEF Upto, Last, Text

-------------------------------------------------------------------------------
(***************************************************************************)
(* Copies and frames.                                                      *)
(***************************************************************************)
\* What is merged or folded: a frame, or a copy that was read.
Messages == [phase : {"start", "delta", "end", "snapshot"}, rev : Nat, text : Text]

\* x stands where k stands.
Fits(x, k) == x.rev = k.rev /\ Upto(x) = Upto(k) /\ (x.text = <<>> <=> k.text = <<>>)

\* The copy that a message makes of another.
Made(copy, f) == AsCopy(f, TextBefore(copy, f))

LEMMA CopyOfFrame ==
  ASSUME NEW copy \in Copy \cup {None}, NEW f \in Messages
  PROVE  /\ Made(copy, f) \in Copy /\ Made(copy, f) # None
         /\ Made(copy, f).rev = f.rev
         /\ Made(copy, f).streaming <=> f.phase # "end"
         /\ f.phase # "delta" \/ copy = None => Made(copy, f).text = f.text /\ Fits(Made(copy, f), f)
         /\ f.text # <<>> => Fits(Made(copy, f), f)
         /\ f.phase = "delta" /\ copy # None => Made(copy, f).text = copy.text \o f.text
<1>1. copy # None => copy \in Copy /\ copy.text \in Text
  BY DEF Copy
<1>2. f.rev \in Nat /\ f.text \in Text
  BY DEF Messages
<1>3. TextBefore(copy, f) \in Text
  <2>1. <<>> \in Text
    BY EmptySeq DEF Text
  <2> QED
    BY <1>1, <2>1 DEF TextBefore
<1>4. TextBefore(copy, f) \o f.text \in Text
  BY <1>2, <1>3 DEF Text
<1>5. Made(copy, f) =
        [rev |-> f.rev, text |-> TextBefore(copy, f) \o f.text, streaming |-> f.phase # "end"]
  BY DEF AsCopy, Made
<1>6. /\ Made(copy, f) \in Copy /\ Made(copy, f) # None /\ Made(copy, f).rev = f.rev
      /\ Made(copy, f).streaming <=> f.phase # "end"
      /\ Made(copy, f).text = TextBefore(copy, f) \o f.text
  <2> DEFINE text == TextBefore(copy, f) \o f.text
             streaming == f.phase # "end"
  <2>1. text \in Text /\ streaming \in BOOLEAN
    BY <1>4
  <2>2. Made(copy, f) = [rev |-> f.rev, text |-> text, streaming |-> streaming]
    BY <1>5
  <2> HIDE DEF text, streaming
  <2>3. /\ Made(copy, f) \in Copy /\ Made(copy, f).rev = f.rev
        /\ Made(copy, f).streaming = streaming /\ Made(copy, f).text = text
    BY <1>2, <2>1, <2>2 DEF Copy
  <2> QED
    BY <2>3, StreamAssumption DEF text, streaming
<1>7. ASSUME f.phase # "delta" \/ copy = None PROVE Made(copy, f).text = f.text
  <2>1. TextBefore(copy, f) = <<>>
    BY <1>7 DEF TextBefore
  <2> QED
    BY <1>2, <1>6, <2>1 DEF Text
<1>8. ASSUME f.text # <<>> PROVE Fits(Made(copy, f), f)
  <2>1. Made(copy, f).text # <<>> /\ Last(Made(copy, f).text) = Last(f.text)
    BY <1>2, <1>3, <1>6, <1>8, LastOfParts
  <2> QED
    BY <1>6, <1>8, <2>1 DEF Fits, Upto
<1>9. Made(copy, f).text = f.text => Fits(Made(copy, f), f)
  BY <1>6 DEF Fits, Upto
<1>10. f.phase = "delta" /\ copy # None => Made(copy, f).text = copy.text \o f.text
  BY <1>6 DEF TextBefore
<1> QED
  BY <1>6, <1>7, <1>8, <1>9, <1>10

\* A merge changes nothing, or it is newer.
LEMMA MergeIs ==
  ASSUME NEW copy \in Copy \cup {None}, NEW f \in Messages \cup {None}
  PROVE  /\ Merge(copy, f) \in Copy \cup {None}
         /\ copy # None => Merge(copy, f) # None
         /\ \/ Merge(copy, f) = copy
            \/ /\ f \in Messages /\ f # None
               /\ copy # None => f.rev > copy.rev
               /\ Merge(copy, f) = Made(copy, f)
<1>1. CASE f = None \/ (copy # None /\ f.rev <= copy.rev)
  BY <1>1 DEF Merge
<1>2. CASE ~(f = None \/ (copy # None /\ f.rev <= copy.rev))
  <2>1. f \in Messages /\ f.rev \in Nat /\ (copy # None => copy.rev \in Nat)
    BY <1>2 DEF Messages, Copy
  <2>2. Merge(copy, f) = Made(copy, f)
    BY <1>2 DEF Merge, Made
  <2>3. Merge(copy, f) \in Copy /\ Merge(copy, f) # None
    BY <2>1, <2>2, CopyOfFrame
  <2> QED
    BY <1>2, <2>1, <2>2, <2>3
<1> QED
  BY <1>1, <1>2

LEMMA FoldIs ==
  ASSUME NEW copy \in Copy \cup {None}, NEW f \in Messages \cup {None}
  PROVE  /\ Fold(copy, f) \in Copy \cup {None}
         /\ f # None => Fold(copy, f) = Made(copy, f) /\ Fold(copy, f) \in Copy
         /\ f = None => Fold(copy, f) = copy
<1>1. f # None => f \in Messages /\ Made(copy, f) \in Copy
  BY CopyOfFrame
<1> QED
  BY <1>1 DEF Fold, Made

LEMMA WholeIs ==
  ASSUME NEW copy \in Copy
  PROVE  /\ Whole(copy) \in Messages
         /\ Whole(copy).rev = copy.rev /\ Whole(copy).text = copy.text
         /\ Whole(copy).phase # "delta" /\ (Whole(copy).phase = "end" <=> ~copy.streaming)
         /\ Fits(Whole(copy), copy)
  BY DEF Whole, Frame, Copy, Messages, Fits, Upto

\* What a load puts into the window stands where one of the two stood.
LEMMA JoinIs ==
  ASSUME NEW copy \in Copy \cup {None}, NEW read \in Copy \cup {None}
  PROVE  /\ Join(copy, read) \in Copy \cup {None}
         /\ copy # None => Join(copy, read) # None
         /\ \/ Join(copy, read) = copy
            \/ /\ read # None /\ copy # None => read.rev > copy.rev
               /\ read # None /\ Join(copy, read) # None /\ Fits(Join(copy, read), read)
               /\ Join(copy, read).text = read.text
               /\ Join(copy, read).streaming = read.streaming
<1>1. CASE read = None
  BY <1>1 DEF Join
<1>2. CASE read # None
  <2>1. read \in Copy /\ Whole(read) \in Messages /\ Join(copy, read) = Merge(copy, Whole(read))
    BY <1>2, WholeIs DEF Join
  <2>2. CASE Merge(copy, Whole(read)) = copy
    BY <2>1, <2>2
  <2>3. CASE /\ copy # None => Whole(read).rev > copy.rev
             /\ Merge(copy, Whole(read)) = Made(copy, Whole(read))
    <3>1. /\ Join(copy, read) \in Copy /\ Join(copy, read) # None
          /\ Join(copy, read).rev = Whole(read).rev
          /\ Join(copy, read).streaming <=> Whole(read).phase # "end"
          /\ Join(copy, read).text = Whole(read).text /\ Fits(Join(copy, read), Whole(read))
      <4>1. Whole(read).phase # "delta" /\ Join(copy, read) = Made(copy, Whole(read))
        BY <2>1, <2>3, WholeIs
      <4>2. Made(copy, Whole(read)) \in Copy /\ Made(copy, Whole(read)) # None
        BY <2>1, CopyOfFrame
      <4>3. Made(copy, Whole(read)).rev = Whole(read).rev
        BY <2>1, CopyOfFrame
      <4>4. Made(copy, Whole(read)).streaming <=> Whole(read).phase # "end"
        BY <2>1, CopyOfFrame
      <4>5. /\ Made(copy, Whole(read)).text = Whole(read).text
            /\ Fits(Made(copy, Whole(read)), Whole(read))
        BY <2>1, <4>1, CopyOfFrame
      <4> QED
        BY <4>1, <4>2, <4>3, <4>4, <4>5
    <3>2. read.streaming \in BOOLEAN /\ Join(copy, read).streaming \in BOOLEAN
      BY <2>1, <3>1 DEF Copy
    <3>3. Fits(Join(copy, read), read)
      BY <2>1, <3>1, WholeIs DEF Fits
    <3>4. Join(copy, read).streaming = read.streaming
      BY <2>1, <3>1, <3>2, WholeIs
    <3>5. Whole(read).rev = read.rev /\ Whole(read).text = read.text
      BY <2>1, WholeIs
    <3> QED
      BY <1>2, <2>3, <3>1, <3>3, <3>4, <3>5
  <2> QED
    BY <2>1, <2>2, <2>3, MergeIs
<1> QED
  BY <1>1, <1>2

-------------------------------------------------------------------------------
(***************************************************************************)
(* Type correctness.                                                       *)
(***************************************************************************)
LEMMA FramesAreMessages == Frames \subseteq Messages
  BY DEF Frames, Messages

LEMMA StreamTypes ==
  ASSUME TypeOK
  PROVE  /\ stream.phase \in {"none", "open", "ended", "cut"} /\ stream.rev \in Nat
         /\ stream.full \in Text /\ stream.live \in Text /\ stream.stored \in Text
         /\ LiveRev \in Nat /\ stream.full \o stream.live \in Text
<1>1. /\ stream.phase \in {"none", "open", "ended", "cut"} /\ stream.rev \in Nat
      /\ stream.full \in Text /\ stream.live \in Text /\ stream.stored \in Text
  BY DEF TypeOK
<1> QED
  BY <1>1 DEF LiveRev, Text

LEMMA FrameTypes ==
  ASSUME TypeOK
  PROVE  /\ Started \in Frames \cup {None} /\ LiveDelta \in Frames \cup {None}
         /\ StoredDelta \in Frames \cup {None} /\ End \in Frames
  <1>1. <<>> \in Text
    BY EmptySeq DEF Text
  <1> QED
    BY <1>1, StreamTypes DEF Started, LiveDelta, StoredDelta, End, Frame, Frames

LEMMA EmptyTexts ==
  /\ <<>> \in Text /\ NoLoad.detail = None /\ NoLoad.snapshot = None
  /\ NoLoad \in [stage : {"none", "detail", "snapshot", "post", "posted"},
                 detail : Copy \cup {None}, snapshot : Copy \cup {None}]
  BY EmptySeq DEF Text, NoLoad

LEMMA StoreIs ==
  ASSUME TypeOK, NEW first \in Frames \cup {None}, NEW last \in Frames \cup {None},
         Store(first, last)
  PROVE  /\ disk' \in Copy \cup {None} /\ failed' \in BOOLEAN /\ faults' \in 0..MaxFaults
         /\ listed' \in Copy \cup {None}
         /\ disk' \in {disk, Fold(disk, first), Fold(Fold(disk, first), last)}
         /\ listed' \in {listed, disk, Fold(disk, first), Fold(Fold(disk, first), last)}
         /\ ~failed' => ~failed /\ disk' = Fold(Fold(disk, first), last)
         /\ failed => disk' = disk /\ listed' = listed
         /\ first = None /\ last = None => disk' = disk /\ listed' = listed /\ failed' = failed
<1> DEFINE one == Fold(disk, first)
           both == Fold(one, last)
<1>1. /\ disk \in Copy \cup {None} /\ listed \in Copy \cup {None}
      /\ faults \in 0..MaxFaults /\ failed \in BOOLEAN
  BY DEF TypeOK
<1>2. first \in Messages \cup {None} /\ last \in Messages \cup {None}
  BY FramesAreMessages
<1>3. one \in Copy \cup {None}
  BY <1>1, <1>2, FoldIs
<1>4. both \in Copy \cup {None}
  BY <1>2, <1>3, FoldIs
<1>5. CASE failed \/ (first = None /\ last = None)
  <2>1. first = None /\ last = None => both = disk
    BY DEF Fold
  <2>2. UNCHANGED <<disk, listed, failed, faults>>
    BY <1>5 DEF Store
  <2> QED
    BY <1>1, <1>5, <2>1, <2>2
<1>6. CASE ~(failed \/ (first = None /\ last = None))
  <2>1. PICK upto \in {<<disk>>, <<disk, one>>, <<disk, one, both>>} :
          /\ disk' = Last(upto)
          /\ listed' \in IF listed = disk THEN Range(upto) ELSE {listed}
          /\ \/ disk' = both /\ UNCHANGED <<failed, faults>>
             \/ faults < MaxFaults /\ faults' = faults + 1 /\ failed' = TRUE
    BY <1>6 DEF Store
  <2> HIDE DEF one, both
  <2>2. Last(upto) \in {disk, one, both} /\ Range(upto) \subseteq {disk, one, both}
    BY <2>1 DEF Last, Range
  <2>3. disk' \in {disk, one, both} /\ listed' \in {listed, disk, one, both}
    BY <2>1, <2>2
  <2>4. disk' \in Copy \cup {None} /\ listed' \in Copy \cup {None}
    BY <1>1, <1>3, <1>4, <2>3
  <2>5. /\ faults' \in 0..MaxFaults /\ failed' \in BOOLEAN
        /\ ~failed' => ~failed /\ disk' = both
    <3>1. CASE disk' = both /\ UNCHANGED <<failed, faults>>
      BY <1>1, <3>1
    <3>2. CASE faults < MaxFaults /\ faults' = faults + 1 /\ failed' = TRUE
      <4>1. faults' \in 0..MaxFaults
        BY <1>1, <3>2, StreamAssumption
      <4> QED
        BY <3>2, <4>1
    <3> QED
      BY <2>1, <3>1, <3>2
  <2> QED
    BY <1>6, <2>3, <2>4, <2>5 DEF one, both
<1> QED
  BY <1>5, <1>6

LEMMA PublishIs ==
  ASSUME TypeOK, NEW first \in Frames \cup {None}, NEW last \in Frames \cup {None},
         Publish(first, last)
  PROVE  /\ hub' = Merge(Merge(hub, first), last) /\ Merge(hub, first) \in Copy \cup {None}
         /\ hub' \in Copy \cup {None}
         /\ frames' \in Seq(Frames) /\ updates' \in Seq(Loads \cup {None})
         /\ Range(frames') = Range(frames) \cup ({first, last} \ {None})
<1>1. first \in Messages \cup {None} /\ last \in Messages \cup {None}
  BY FramesAreMessages
<1>2. Merge(hub, first) \in Copy \cup {None}
  BY <1>1, MergeIs DEF TypeOK
<1>3. hub' = Merge(Merge(hub, first), last) /\ hub' \in Copy \cup {None}
  BY <1>1, <1>2, MergeIs DEF Publish
<1>4. ASSUME NEW f \in Frames \cup {None}
      PROVE  Queued(f) \in Seq(Frames) /\ Range(Queued(f)) = {f} \ {None}
  BY <1>4 DEF Queued, Range
<1>5. frames \o Queued(first) \in Seq(Frames)
      /\ Range(frames \o Queued(first)) = Range(frames) \cup ({first} \ {None})
  BY <1>4, RangeConcatenation DEF TypeOK
<1>6. /\ frames \o Queued(first) \o Queued(last) \in Seq(Frames)
      /\ Range(frames \o Queued(first) \o Queued(last))
           = Range(frames) \cup ({first} \ {None}) \cup ({last} \ {None})
  <2>1. Queued(last) \in Seq(Frames) /\ Range(Queued(last)) = {last} \ {None}
    BY <1>4
  <2> DEFINE one == frames \o Queued(first)
  <2>2. one \in Seq(Frames) /\ Range(one) = Range(frames) \cup ({first} \ {None})
    BY <1>5
  <2> HIDE DEF one
  <2>3. one \o Queued(last) \in Seq(Frames)
        /\ Range(one \o Queued(last)) = Range(one) \cup Range(Queued(last))
    BY <2>1, <2>2, RangeConcatenation, ConcatProperties
  <2> QED
    BY <2>1, <2>2, <2>3 DEF one
<1>7. updates' \in Seq(Loads \cup {None})
  BY DEF Publish, TypeOK
<1> QED
  BY <1>2, <1>3, <1>6, <1>7 DEF Publish

Streams == [phase : {"none", "open", "ended", "cut"}, rev : Nat, full : Text, live : Text,
            stored : Text]

LEMMA StreamStep ==
  ASSUME TypeOK
  PROVE  /\ Flushed \in Streams /\ [Flushed EXCEPT !.stored = <<>>] \in Streams
         /\ Ended \in Streams
<1>1. stream \in Streams
  BY DEF TypeOK, Streams
<1>2. LiveRev \in Nat /\ stream.full \o stream.live \in Text /\ <<>> \in Text
  BY StreamTypes, EmptyTexts
<1>3. Flushed \in Streams
  BY <1>1, <1>2 DEF Flushed, Streams
<1> QED
  <2>1. LiveRev + 1 \in Nat
    BY <1>2
  <2>2. [Flushed EXCEPT !.stored = <<>>] \in Streams
    BY <1>2, <1>3 DEF Streams
  <2>3. Ended \in Streams
    BY <1>2, <1>3, <2>1 DEF Ended, Streams
  <2> QED
    BY <1>3, <2>2, <2>3

LoadRecords == [stage : {"none", "detail", "snapshot", "post", "posted"},
                detail : Copy \cup {None}, snapshot : Copy \cup {None}]

LEMMA TypeParts ==
  ASSUME said' \in 0..MaxTokens, stream' \in Streams, failed' \in BOOLEAN, closed' \in BOOLEAN,
         disk' \in Copy \cup {None}, listed' \in Copy \cup {None}, hub' \in Copy \cup {None},
         frames' \in Seq(Frames), batch' \in Seq(Frames), updates' \in Seq(Loads \cup {None}),
         window' \in [open : BOOLEAN, opened : 0..MaxOpens, loaded : BOOLEAN,
                      item : Copy \cup {None}],
         load' \in [Loads -> LoadRecords], faults' \in 0..MaxFaults
  PROVE  TypeOK'
  BY DEF TypeOK, Streams, LoadRecords

LEMMA WindowTypes ==
  ASSUME TypeOK
  PROVE  /\ window \in [open : BOOLEAN, opened : 0..MaxOpens, loaded : BOOLEAN,
                        item : Copy \cup {None}]
         /\ window.open \in BOOLEAN /\ window.opened \in 0..MaxOpens
         /\ window.item \in Copy \cup {None} /\ window.loaded \in BOOLEAN
         /\ load \in [Loads -> LoadRecords] /\ NoLoad \in LoadRecords
         /\ \A l \in Loads : load[l] \in LoadRecords /\ load[l].detail \in Copy \cup {None}
                             /\ load[l].snapshot \in Copy \cup {None}
         /\ \A l \in Loads : Begin(l) \in LoadRecords
<1>1. /\ window \in [open : BOOLEAN, opened : 0..MaxOpens, loaded : BOOLEAN,
                     item : Copy \cup {None}]
      /\ load \in [Loads -> LoadRecords]
  BY DEF TypeOK, LoadRecords
<1>2. NoLoad \in LoadRecords
  BY EmptyTexts DEF LoadRecords
<1>3. \A l \in Loads : load[l] \in LoadRecords /\ load[l].detail \in Copy \cup {None}
                       /\ load[l].snapshot \in Copy \cup {None}
  BY <1>1 DEF LoadRecords
<1>4. \A l \in Loads : Begin(l) \in LoadRecords
  BY <1>2 DEF Begin, LoadRecords
<1> QED
  BY <1>1, <1>2, <1>3, <1>4

LEMMA CollectorTypeStep ==
  ASSUME TypeOK, Speak \/ LiveTimer \/ DurableTimer \/ Finish \/ Close
  PROVE  TypeOK'
<1> USE FrameTypes, StreamStep, StreamTypes
<1>0. /\ None \in Frames \cup {None} /\ End \in Frames \cup {None}
      /\ stream \in Streams /\ said \in 0..MaxTokens /\ failed \in BOOLEAN /\ closed \in BOOLEAN
      /\ disk \in Copy \cup {None} /\ listed \in Copy \cup {None} /\ hub \in Copy \cup {None}
      /\ frames \in Seq(Frames)
      /\ updates \in Seq(Loads \cup {None}) /\ faults \in 0..MaxFaults
  BY DEF TypeOK, Streams
<1>1. batch \in Seq(Frames) /\ load \in [Loads -> LoadRecords]
      /\ window \in [open : BOOLEAN, opened : 0..MaxOpens, loaded : BOOLEAN,
                     item : Copy \cup {None}]
  BY WindowTypes DEF TypeOK
<1>2. CASE Speak
  <2>1. said' \in 0..MaxTokens /\ said + 1 \in 1..MaxTokens
    BY <1>0, <1>2, StreamAssumption DEF Speak
  <2>2. Append(stream.live, said + 1) \in Text /\ Append(stream.stored, said + 1) \in Text
    BY <2>1, AppendProperties DEF Text
  <2>3. stream' \in Streams
    BY <1>0, <1>2, <2>2 DEF Speak, Streams
  <2>4. Store(Started, None) /\ Publish(Started, None) /\ UNCHANGED <<closed, batch, window, load>>
    BY <1>2 DEF Speak, windowVars
  <2> QED
    BY <1>0, <1>1, <2>1, <2>3, <2>4, StoreIs, PublishIs, TypeParts
<1>3. CASE LiveTimer
  <2>1. /\ stream' = Flushed /\ Publish(LiveDelta, None)
        /\ UNCHANGED <<said, failed, closed, disk, listed, batch, window, load, faults>>
    BY <1>3 DEF LiveTimer, windowVars
  <2> QED
    BY <1>0, <1>1, <2>1, PublishIs, TypeParts
<1>4. CASE DurableTimer
  <2>1. /\ stream' = [Flushed EXCEPT !.stored = <<>>]
        /\ Store(StoredDelta, None) /\ Publish(LiveDelta, None)
        /\ UNCHANGED <<said, closed, batch, window, load>>
    BY <1>4 DEF DurableTimer, windowVars
  <2> QED
    BY <1>0, <1>1, <2>1, StoreIs, PublishIs, TypeParts
<1>5. CASE Finish
  <2>1. /\ stream' = Ended /\ Store(StoredDelta, End) /\ Publish(LiveDelta, End)
        /\ UNCHANGED <<said, closed, batch, window, load>>
    BY <1>5 DEF Finish, windowVars
  <2> QED
    BY <1>0, <1>1, <2>1, StoreIs, PublishIs, TypeParts
<1>6. CASE Close
  <2>1. closed' = TRUE /\ UNCHANGED <<said, batch, window, load>>
    BY <1>6 DEF Close, windowVars
  <2>2. CASE stream.phase = "open"
    <3>1. stream' = Ended /\ Store(StoredDelta, End) /\ Publish(LiveDelta, End)
      BY <1>6, <2>2 DEF Close
    <3> QED
      BY <1>0, <1>1, <2>1, <3>1, StoreIs, PublishIs, TypeParts
  <2>3. CASE stream.phase # "open"
    <3>1. UNCHANGED <<stream, failed, disk, listed, faults, hub, frames, updates>>
      BY <1>6, <2>3 DEF Close
    <3> QED
      BY <1>0, <1>1, <2>1, <3>1, TypeParts
  <2> QED
    BY <2>2, <2>3
<1> QED
  BY <1>2, <1>3, <1>4, <1>5, <1>6

LEMMA WindowTypeStep ==
  ASSUME TypeOK,
         \/ ClearRun \/ Crash \/ TakeFrames \/ ApplyFrame
         \/ \E l \in Loads : Open(l) \/ Reload(l) \/ LoadFails(l) \/ Loading(l)
  PROVE  TypeOK'
<1>0. /\ stream \in Streams /\ said \in 0..MaxTokens /\ failed \in BOOLEAN /\ closed \in BOOLEAN
      /\ disk \in Copy \cup {None} /\ listed \in Copy \cup {None} /\ hub \in Copy \cup {None}
      /\ frames \in Seq(Frames)
      /\ updates \in Seq(Loads \cup {None}) /\ faults \in 0..MaxFaults /\ batch \in Seq(Frames)
      /\ <<>> \in Seq(Frames)
  BY EmptySeq DEF TypeOK, Streams
<1>1. /\ load \in [Loads -> LoadRecords]
      /\ window \in [open : BOOLEAN, opened : 0..MaxOpens, loaded : BOOLEAN,
                     item : Copy \cup {None}]
  BY WindowTypes
<1>2. updates # <<>> => Tail(updates) \in Seq(Loads \cup {None}) /\ Head(updates) \in Loads \cup {None}
  BY <1>0, HeadTailProperties
<1>3. CASE ClearRun
  <2>1. hub' = None /\ UNCHANGED <<said, stream, failed, closed, disk, listed, frames, updates, batch,
                                   window, load, faults>>
    BY <1>3 DEF ClearRun, agentVars, windowVars
  <2> QED
    BY <1>0, <1>1, <2>1, TypeParts
<1>4. CASE Crash
  <2>1. stream' \in Streams
    BY <1>4, EmptyTexts DEF Crash, NoStream, Streams
  <2>2. window' \in [open : BOOLEAN, opened : 0..MaxOpens, loaded : BOOLEAN, item : Copy \cup {None}]
    BY <1>4, StreamAssumption DEF Crash, Shut
  <2>3. load' \in [Loads -> LoadRecords] /\ faults' \in 0..MaxFaults
    BY <1>0, <1>4, WindowTypes, StreamAssumption DEF Crash
  <2> QED
    BY <1>0, <1>4, <2>1, <2>2, <2>3, EmptySeq, TypeParts DEF Crash
<1>5. CASE TakeFrames
  <2>1. /\ updates' = Tail(updates) /\ updates # <<>>
        /\ frames' = <<>> /\ batch' \in {frames, <<>>}
        /\ UNCHANGED <<said, stream, failed, closed, disk, listed, hub, window, load, faults>>
    BY <1>5 DEF TakeFrames, Next1, agentVars
  <2> QED
    BY <1>0, <1>1, <1>2, <2>1, TypeParts
<1>6. CASE ApplyFrame
  <2>1. /\ batch # <<>> /\ batch' = Tail(batch)
        /\ window' = [window EXCEPT !.item = Merge(window.item, Head(batch))]
        /\ UNCHANGED <<said, stream, failed, closed, disk, listed, hub, frames, updates, load, faults>>
    BY <1>6 DEF ApplyFrame, Free, agentVars
  <2>2. Head(batch) \in Frames /\ Tail(batch) \in Seq(Frames)
    BY <1>0, <2>1, HeadTailProperties
  <2>3. Merge(window.item, Head(batch)) \in Copy \cup {None}
    BY <2>2, WindowTypes, FramesAreMessages, MergeIs
  <2>4. window' \in [open : BOOLEAN, opened : 0..MaxOpens, loaded : BOOLEAN, item : Copy \cup {None}]
    BY <1>1, <2>1, <2>3
  <2> QED
    BY <1>0, <1>1, <2>1, <2>2, <2>4, TypeParts
<1>7. ASSUME NEW l \in Loads, Open(l) PROVE TypeOK'
  <2>1. /\ window.opened < MaxOpens
        /\ window' = [open |-> TRUE, opened |-> window.opened + 1, loaded |-> FALSE, item |-> None]
        /\ load' = [k \in Loads |-> IF k = l THEN Begin(k) ELSE NoLoad]
        /\ updates' \in {<<None>>, <<>>}
        /\ UNCHANGED <<said, stream, failed, closed, disk, listed, hub, frames, batch, faults>>
    BY <1>7 DEF Open, agentVars
  <2>2. window' \in [open : BOOLEAN, opened : 0..MaxOpens, loaded : BOOLEAN, item : Copy \cup {None}]
    BY <1>1, <2>1, StreamAssumption
  <2>3. load' \in [Loads -> LoadRecords]
    BY <2>1, WindowTypes
  <2>4. updates' \in Seq(Loads \cup {None})
    <3> DEFINE S == Loads \cup {None}
    <3>1. None \in S
      OBVIOUS
    <3> HIDE DEF S
    <3>2. <<None>> \in Seq(S) /\ <<>> \in Seq(S)
      BY <3>1, EmptySeq
    <3> QED
      BY <2>1, <3>2 DEF S
  <2> QED
    BY <1>0, <2>1, <2>2, <2>3, <2>4, TypeParts
<1>8. ASSUME NEW l \in Loads, Reload(l) PROVE TypeOK'
  <2>1. /\ load' = [load EXCEPT ![l] = Begin(l)]
        /\ UNCHANGED <<said, stream, failed, closed, disk, listed, hub, frames, updates, batch, window, faults>>
    BY <1>8 DEF Reload, agentVars
  <2>2. load' \in [Loads -> LoadRecords]
    BY <1>1, <2>1, WindowTypes
  <2> QED
    BY <1>0, <1>1, <2>1, <2>2, TypeParts
<1>9. ASSUME NEW l \in Loads, ReadDetail(l) PROVE TypeOK'
  <2>1. /\ load' = [load EXCEPT ![l] = [load[l] EXCEPT !.stage = "snapshot", !.detail = listed]]
        /\ UNCHANGED <<said, stream, failed, closed, disk, listed, hub, frames, updates, batch, window, faults>>
    BY <1>1, <1>9 DEF ReadDetail, agentVars
  <2>2. [load[l] EXCEPT !.stage = "snapshot", !.detail = listed] \in LoadRecords
    BY <1>0, WindowTypes DEF LoadRecords
  <2>3. load' \in [Loads -> LoadRecords]
    BY <1>1, <2>1, <2>2
  <2> QED
    BY <1>0, <1>1, <2>1, <2>3, TypeParts
<1>10. ASSUME NEW l \in Loads, ReadSnapshot(l) PROVE TypeOK'
  <2>1. /\ load' = [load EXCEPT ![l] = [load[l] EXCEPT !.stage = "post", !.snapshot = hub]]
        /\ UNCHANGED <<said, stream, failed, closed, disk, listed, hub, frames, updates, batch, window, faults>>
    BY <1>1, <1>10 DEF ReadSnapshot, agentVars
  <2>2. [load[l] EXCEPT !.stage = "post", !.snapshot = hub] \in LoadRecords
    BY <1>0, WindowTypes DEF LoadRecords
  <2>3. load' \in [Loads -> LoadRecords]
    BY <1>1, <2>1, <2>2
  <2> QED
    BY <1>0, <1>1, <2>1, <2>3, TypeParts
<1>11. ASSUME NEW l \in Loads, Post(l) PROVE TypeOK'
  <2>1. /\ load' = [load EXCEPT ![l] = [load[l] EXCEPT !.stage = "posted"]]
        /\ updates' = Append(updates, l)
        /\ UNCHANGED <<said, stream, failed, closed, disk, listed, hub, frames, batch, window, faults>>
    BY <1>1, <1>11 DEF Post, agentVars
  <2>2. [load[l] EXCEPT !.stage = "posted"] \in LoadRecords
    BY WindowTypes DEF LoadRecords
  <2>3. load' \in [Loads -> LoadRecords] /\ updates' \in Seq(Loads \cup {None})
    BY <1>0, <1>1, <2>1, <2>2
  <2> QED
    BY <1>0, <1>1, <2>1, <2>3, TypeParts
<1>12. ASSUME NEW l \in Loads, ApplyLoad(l) PROVE TypeOK'
  <2>1. /\ updates # <<>> /\ updates' = Tail(updates)
        /\ window' = [window EXCEPT !.item = Join(Join(window.item, load[l].detail), load[l].snapshot),
                                    !.loaded = TRUE]
        /\ load' = [load EXCEPT ![l] = NoLoad]
        /\ UNCHANGED <<said, stream, failed, closed, disk, listed, hub, frames, batch, faults>>
    BY <1>12 DEF ApplyLoad, Next1, agentVars
  <2>2. Join(window.item, load[l].detail) \in Copy \cup {None}
    BY WindowTypes, JoinIs
  <2>3. Join(Join(window.item, load[l].detail), load[l].snapshot) \in Copy \cup {None}
    BY <2>2, WindowTypes, JoinIs
  <2>4. window' \in [open : BOOLEAN, opened : 0..MaxOpens, loaded : BOOLEAN, item : Copy \cup {None}]
    BY <1>1, <2>1, <2>3
  <2>5. load' \in [Loads -> LoadRecords]
    BY <1>1, <2>1, WindowTypes
  <2> QED
    BY <1>0, <1>2, <2>1, <2>4, <2>5, TypeParts
<1>13. ASSUME NEW l \in Loads, LoadFails(l) PROVE TypeOK'
  <2>1. /\ faults < MaxFaults /\ faults' = faults + 1
        /\ load' = [load EXCEPT ![l] = NoLoad]
        /\ UNCHANGED <<said, stream, failed, closed, disk, listed, hub, frames, updates, batch, window>>
    BY <1>13 DEF LoadFails, agentVars
  <2>2. load' \in [Loads -> LoadRecords]
    BY <1>1, <2>1, WindowTypes
  <2>3. faults' \in 0..MaxFaults
    BY <1>0, <2>1, StreamAssumption
  <2> QED
    BY <1>0, <1>1, <2>1, <2>2, <2>3, TypeParts
<1> QED
  BY <1>3, <1>4, <1>5, <1>6, <1>7, <1>8, <1>9, <1>10, <1>11, <1>12, <1>13 DEF Loading

LEMMA TypeStep == TypeOK /\ [Next]_vars => TypeOK'
<1> SUFFICES ASSUME TypeOK, [Next]_vars PROVE TypeOK'
  OBVIOUS
<1>1. CASE Next
  BY <1>1, CollectorTypeStep, WindowTypeStep DEF Next
<1>2. CASE UNCHANGED vars
  BY <1>2 DEF TypeOK, vars, agentVars, windowVars
<1> QED
  BY <1>1, <1>2

LEMMA TypeInit == Init => TypeOK
<1> SUFFICES ASSUME Init PROVE TypeOK
  OBVIOUS
<1>1. NoStream \in [phase : {"none", "open", "ended", "cut"}, rev : Nat, full : Text,
                    live : Text, stored : Text]
  BY EmptyTexts DEF NoStream
<1>2. Shut \in [open : BOOLEAN, opened : 0..MaxOpens, loaded : BOOLEAN, item : Copy \cup {None}]
  BY StreamAssumption DEF Shut
<1>3. load \in [Loads -> [stage : {"none", "detail", "snapshot", "post", "posted"},
                          detail : Copy \cup {None}, snapshot : Copy \cup {None}]]
  BY EmptyTexts DEF Init
<1>4. said \in 0..MaxTokens /\ faults \in 0..MaxFaults 
  BY StreamAssumption DEF Init
<1>7. failed \in BOOLEAN /\ closed \in BOOLEAN
  BY DEF Init
<1>5. frames \in Seq(Frames) /\ batch \in Seq(Frames) /\ updates \in Seq(Loads \cup {None})
  BY EmptySeq DEF Init
<1>6. disk \in Copy \cup {None} /\ listed \in Copy \cup {None} /\ hub \in Copy \cup {None}
  BY DEF Init
<1> QED
  BY <1>1, <1>2, <1>3, <1>4, <1>5, <1>6, <1>7 DEF Init, TypeOK

\* The variables keep their types.
THEOREM TypeCorrect == Spec => []TypeOK
  BY TypeInit, TypeStep, PTL DEF Spec

-------------------------------------------------------------------------------
(***************************************************************************)
(* Steps that say nothing new.                                             *)
(***************************************************************************)
LEMMA KnownTypes ==
  ASSUME TypeOK
  PROVE  /\ StoredCopies \subseteq Copy /\ Copies \subseteq Copy /\ Pending \subseteq Frames
         /\ StoredCopies \subseteq Copies /\ Copies \subseteq Known /\ Pending \subseteq Known
         /\ \A x \in Copies : x.streaming \in BOOLEAN
         /\ \A x \in Known : /\ x.rev \in Nat /\ x.text \in Text /\ Upto(x) \in Nat
                             /\ Upto(x) = 0 <=> x.text = <<>>
<1>1. StoredCopies \subseteq Copy
  BY WindowTypes DEF StoredCopies, TypeOK
<1>2. Copies \subseteq Copy
  BY <1>1, WindowTypes DEF Copies
<1>3. Pending \subseteq Frames
  BY RangeOfSeq DEF TypeOK, Pending
<1>4. StoredCopies \subseteq Copies /\ Copies \subseteq Known /\ Pending \subseteq Known
  BY StreamAssumption DEF Copies, Known, StoredCopies
<1>5. \A x \in Known : x.rev \in Nat /\ x.text \in Text
  BY <1>2, <1>3 DEF Known, Copy, Frames
<1>6. \A x \in Known : Upto(x) \in Nat /\ (Upto(x) = 0 <=> x.text = <<>>)
  BY <1>5, UptoIs
<1>7. \A x \in Copies : x.streaming \in BOOLEAN
  BY <1>2 DEF Copy
<1> QED
  BY <1>1, <1>2, <1>3, <1>4, <1>5, <1>6, <1>7

LEMMA RangeOfTail ==
  ASSUME NEW S, NEW s \in Seq(S), s # <<>>
  PROVE  Head(s) \in Range(s) /\ Range(Tail(s)) \subseteq Range(s)
<1>1. Len(s) \in Nat \ {0} /\ DOMAIN s = 1..Len(s) /\ Head(s) = s[1]
  BY EmptySeq, LenProperties
<1>2. Tail(s) \in Seq(S) /\ Len(Tail(s)) = Len(s) - 1
      /\ \A i \in 1..Len(Tail(s)) : Tail(s)[i] = s[i + 1]
  BY HeadTailProperties
<1>3. DOMAIN Tail(s) = 1..Len(Tail(s))
  BY <1>2, LenProperties
<1>4. \A i \in 1..Len(Tail(s)) : i + 1 \in 1..Len(s)
  BY <1>1, <1>2
<1> QED
  BY <1>1, <1>2, <1>3, <1>4 DEF Range

\* Nothing is written, and the window shows what something known says.
Quiet ==
  /\ UNCHANGED <<said, stream>>
  /\ stream.phase = "open" => UNCHANGED <<failed, closed, disk, hub>>
  /\ StoredCopies' \subseteq StoredCopies /\ Pending' \subseteq Pending

EndsWhole(x) == ~x.streaming => stream.phase = "ended" /\ x.text = Said

ItemStep ==
  \/ window'.item = window.item
  \/ window'.item = None /\ (window'.opened # window.opened \/ ~window'.open)
  \/ /\ window'.item # None /\ EndsWhole(window'.item)
     /\ \E k \in Known : /\ Fits(window'.item, k)
                         /\ window.item # None => k.rev > window.item.rev

LEMMA QuietStep ==
  ASSUME TypeOK, TypeOK', StreamInv, Quiet, ItemStep
  PROVE  StreamInv'
<1> USE KnownTypes DEF StreamInv
<1>1. /\ said' = said /\ stream' = stream /\ Said' = Said
      /\ StoredCopies' \subseteq StoredCopies /\ Pending' \subseteq Pending
  BY DEF Quiet, Said
<1>2. \A x \in Known' : \E k \in Known : Fits(x, k)
  <2>1. \A k \in Known : Fits(k, k)
    BY DEF Fits
  <2>2. CASE window'.item = None
    BY <1>1, <2>1, <2>2 DEF Known, Copies
  <2>3. CASE window'.item # None
    <3>1. \E k \in Known : Fits(window'.item, k)
      BY <2>1, <2>3 DEF ItemStep, Known, Copies
    <3> QED
      BY <1>1, <2>1, <3>1 DEF Known, Copies
  <2> QED
    BY <2>2, <2>3
<1>3. \A x \in Copies' : EndsWhole(x)
  <2>1. \A x \in Copies : x # None => EndsWhole(x)
    BY DEF EndsWhole, EndInv, EndedIsWhole, Copies
  <2> QED
    BY <1>1, <2>1 DEF Copies, ItemStep
<1>4. OrderInv'
  <2>1. \A x \in Known' : x.rev = 0 <=> x.text = <<>>
    BY <1>2 DEF Fits, OrderInv
  <2>2. \A x, y \in Known' : x.rev <= y.rev => Upto(x) <= Upto(y)
    BY <1>2 DEF Fits, OrderInv
  <2> QED
    BY <2>1, <2>2 DEF OrderInv
<1>5. CollectorInv'
  <2>1. CASE stream.phase = "none"
    BY <1>1, <1>2, <2>1 DEF CollectorInv
  <2>2. CASE stream.phase = "open"
    <3>1. /\ ~closed' /\ said > 0 /\ disk' = disk /\ hub' = hub /\ failed' = failed
      BY <2>2 DEF CollectorInv, Quiet
    <3>2. \A x \in Known' : /\ x.rev <= stream.rev /\ Upto(x) <= Len(stream.full)
                            /\ x.rev = stream.rev => Upto(x) = Len(stream.full)
      BY <1>2, <2>2 DEF CollectorInv, Fits
    <3> QED
      BY <1>1, <2>2, <3>1, <3>2 DEF CollectorInv
  <2> QED
    BY <1>1, <2>1, <2>2 DEF CollectorInv
<1>6. EndInv' /\ EndedIsWhole'
  BY <1>1, <1>3 DEF EndInv, EndedIsWhole, EndsWhole, Copies
<1>7. RevisionNamesText'
  BY <1>1 DEF RevisionNamesText
<1> QED
  BY <1>4, <1>5, <1>6, <1>7

LEMMA MergedItem ==
  ASSUME TypeOK, StreamInv, NEW f \in Pending, window'.item = Merge(window.item, f)
  PROVE  ItemStep
<1>1. f \in Known /\ f \in Messages /\ f.rev \in Nat
  BY KnownTypes, FramesAreMessages
<1>2. window.item \in Copy \cup {None} /\ (window.item # None => window.item.rev \in Nat)
  BY WindowTypes DEF Copy
<1>3. CASE Merge(window.item, f) = window.item
  BY <1>3 DEF ItemStep
<1>4. CASE /\ window.item # None => f.rev > window.item.rev
           /\ Merge(window.item, f) = Made(window.item, f)
  <2>0. window'.item = Made(window.item, f)
    BY <1>4
  <2>1. window.item # None => f.text # <<>>
    BY <1>1, <1>2, <1>4 DEF StreamInv, OrderInv
  <2>2. Fits(Made(window.item, f), f) /\ Made(window.item, f) # None
    BY <1>1, <1>2, <2>1, CopyOfFrame
  <2>3. Made(window.item, f).streaming <=> f.phase # "end"
    BY <1>1, <1>2, CopyOfFrame
  <2>4. f.phase = "end" => Made(window.item, f).text = f.text
    BY <1>1, <1>2, CopyOfFrame
  <2>5. EndsWhole(window'.item)
    BY <2>0, <2>3, <2>4 DEF EndsWhole, StreamInv, EndInv
  <2> QED
    BY <1>1, <1>4, <2>0, <2>2, <2>5 DEF ItemStep
<1> QED
  BY <1>1, <1>2, <1>3, <1>4, MergeIs

LEMMA JoinedItem ==
  ASSUME TypeOK, StreamInv, NEW l \in Loads,
         window'.item = Join(Join(window.item, load[l].detail), load[l].snapshot)
  PROVE  ItemStep
<1> DEFINE detail == load[l].detail
           snapshot == load[l].snapshot
           one == Join(window.item, detail)
<1>1. /\ detail \in Copy \cup {None} /\ snapshot \in Copy \cup {None}
      /\ window.item \in Copy \cup {None}
      /\ detail # None => detail \in StoredCopies
      /\ snapshot # None => snapshot \in StoredCopies
  BY WindowTypes DEF StoredCopies
<1>2. \A x \in StoredCopies : EndsWhole(x) /\ x \in Known /\ x.rev \in Nat
  <2>1. \A x \in StoredCopies : x # None
    BY DEF StoredCopies
  <2> QED
    BY <2>1, KnownTypes DEF StreamInv, EndInv, EndedIsWhole, EndsWhole
<1>3. window.item # None => window.item.rev \in Nat
  BY <1>1 DEF Copy
<1>4. one \in Copy \cup {None} /\ (window.item # None => one # None)
  BY <1>1, JoinIs
<1>5. \/ one = window.item
      \/ /\ window.item # None => detail.rev > window.item.rev
         /\ detail # None /\ one # None /\ Fits(one, detail)
         /\ one.text = detail.text /\ one.streaming = detail.streaming
  BY <1>1, JoinIs
<1> HIDE DEF one
<1>6. window'.item = Join(one, snapshot)
  BY DEF one
<1>7. \/ window'.item = one
      \/ /\ one # None => snapshot.rev > one.rev
         /\ snapshot # None /\ window'.item # None /\ Fits(window'.item, snapshot)
         /\ window'.item.text = snapshot.text /\ window'.item.streaming = snapshot.streaming
  <2>1. one \in Copy \cup {None} /\ snapshot \in Copy \cup {None}
    BY <1>1, <1>4
  <2> HIDE DEF snapshot
  <2>2. \/ Join(one, snapshot) = one
        \/ /\ snapshot # None /\ one # None => snapshot.rev > one.rev
           /\ snapshot # None /\ Join(one, snapshot) # None /\ Fits(Join(one, snapshot), snapshot)
           /\ Join(one, snapshot).text = snapshot.text
           /\ Join(one, snapshot).streaming = snapshot.streaming
    BY <2>1, JoinIs
  <2> QED
    BY <1>6, <2>2
<1> HIDE DEF detail, snapshot
<1>8. CASE one = window.item /\ window'.item = one
  BY <1>8 DEF ItemStep
<1>9. CASE /\ window.item # None => detail.rev > window.item.rev
           /\ detail # None /\ one # None /\ Fits(one, detail)
           /\ one.text = detail.text /\ one.streaming = detail.streaming
           /\ window'.item = one
  BY <1>1, <1>2, <1>9 DEF ItemStep, EndsWhole
<1>10. CASE /\ one # None => snapshot.rev > one.rev
           /\ snapshot # None /\ window'.item # None /\ Fits(window'.item, snapshot)
           /\ window'.item.text = snapshot.text /\ window'.item.streaming = snapshot.streaming
  <2>1. window.item # None => snapshot.rev > window.item.rev
    BY <1>1, <1>2, <1>3, <1>4, <1>5, <1>10 DEF Fits
  <2> QED
    BY <1>1, <1>2, <1>10, <2>1 DEF ItemStep, EndsWhole
<1> QED
  BY <1>5, <1>7, <1>8, <1>9, <1>10

QuietAction ==
  \/ ClearRun \/ TakeFrames \/ ApplyFrame \/ (Close /\ stream.phase # "open")
  \/ \E l \in Loads : Open(l) \/ Reload(l) \/ LoadFails(l) \/ Loading(l)

LEMMA QuietActions ==
  ASSUME TypeOK, StreamInv, QuietAction
  PROVE  Quiet /\ ItemStep
<1>1. ASSUME stream.phase = "open" PROVE ~closed
  BY <1>1 DEF StreamInv, CollectorInv
<1> USE DEF agentVars, windowVars
<1>2. CASE ClearRun
  BY <1>1, <1>2 DEF ClearRun, Quiet, ItemStep, StoredCopies, Pending
<1>3. CASE Close /\ stream.phase # "open"
  BY <1>3 DEF Close, Quiet, ItemStep, StoredCopies, Pending
<1>4. CASE TakeFrames
  <2>1. Range(<<>>) = {}
    BY DEF Range
  <2>2. /\ frames' = <<>> /\ batch' \in {frames, <<>>}
        /\ UNCHANGED <<agentVars, disk, listed, hub, window, load>>
    BY <1>4 DEF TakeFrames
  <2> QED
    BY <2>1, <2>2 DEF Quiet, ItemStep, StoredCopies, Pending
<1>5. CASE ApplyFrame
  <2>1. /\ batch # <<>> /\ batch' = Tail(batch) /\ window'.item = Merge(window.item, Head(batch))
        /\ UNCHANGED <<agentVars, disk, listed, hub, frames, load>>
    BY <1>5, WindowTypes DEF ApplyFrame, Free
  <2>2. Head(batch) \in Range(batch) /\ Range(Tail(batch)) \subseteq Range(batch)
    BY <2>1, RangeOfTail DEF TypeOK
  <2>3. Quiet
    BY <2>1, <2>2 DEF Quiet, StoredCopies, Pending
  <2> QED
    BY <2>1, <2>2, <2>3, MergedItem DEF Pending
<1>6. ASSUME NEW l \in Loads, Open(l) PROVE Quiet /\ ItemStep
  <2>1. window.opened \in 0..MaxOpens /\ window'.opened = window.opened + 1 /\ window'.item = None
    BY <1>6, WindowTypes DEF Open
  <2>2. \A k \in Loads : load'[k].detail = None /\ load'[k].snapshot = None
    BY <1>6, EmptyTexts DEF Open, Begin, NoLoad
  <2>3. UNCHANGED <<agentVars, disk, listed, hub, frames, batch>>
    BY <1>6 DEF Open
  <2>4. StoredCopies' \subseteq StoredCopies
    BY <2>2, <2>3 DEF StoredCopies
  <2> QED
    BY <2>1, <2>3, <2>4, StreamAssumption DEF Quiet, ItemStep, Pending
<1>7. ASSUME NEW l \in Loads, Reload(l) \/ LoadFails(l) PROVE Quiet /\ ItemStep
  <2>1. \A k \in Loads : load'[k].detail \in {load[k].detail, None}
                         /\ load'[k].snapshot \in {load[k].snapshot, None}
    BY <1>7, EmptyTexts, WindowTypes DEF Reload, LoadFails, Begin, NoLoad
  <2>2. UNCHANGED <<agentVars, disk, listed, hub, frames, batch, window>>
    BY <1>7 DEF Reload, LoadFails
  <2> QED
    BY <2>1, <2>2 DEF Quiet, ItemStep, Pending, StoredCopies
<1>8. ASSUME NEW l \in Loads, ReadDetail(l) \/ ReadSnapshot(l) \/ Post(l) PROVE Quiet /\ ItemStep
  <2>1. \A k \in Loads : load'[k].detail \in {load[k].detail, listed}
                         /\ load'[k].snapshot \in {load[k].snapshot, hub}
    BY <1>8, WindowTypes DEF ReadDetail, ReadSnapshot, Post, LoadRecords
  <2>2. UNCHANGED <<agentVars, disk, listed, hub, frames, batch, window>>
    BY <1>8 DEF ReadDetail, ReadSnapshot, Post
  <2>3. StoredCopies' \subseteq StoredCopies
    BY <2>1, <2>2 DEF StoredCopies
  <2> QED
    BY <2>2, <2>3 DEF Quiet, ItemStep, Pending
<1>9. ASSUME NEW l \in Loads, ApplyLoad(l) PROVE Quiet /\ ItemStep
  <2>1. window'.item = Join(Join(window.item, load[l].detail), load[l].snapshot)
    BY <1>9, WindowTypes DEF ApplyLoad
  <2>2. \A k \in Loads : load'[k].detail \in {load[k].detail, None}
                         /\ load'[k].snapshot \in {load[k].snapshot, None}
    BY <1>9, EmptyTexts, WindowTypes DEF ApplyLoad
  <2>3. UNCHANGED <<agentVars, disk, listed, hub, frames, batch>>
    BY <1>9 DEF ApplyLoad
  <2>4. Quiet
    BY <2>2, <2>3 DEF Quiet, Pending, StoredCopies
  <2> QED
    BY <2>1, <2>4, JoinedItem
<1> QED
  BY <1>2, <1>3, <1>4, <1>5, <1>6, <1>7, <1>8, <1>9 DEF QuietAction, Loading

-------------------------------------------------------------------------------
(***************************************************************************)
(* Steps of the collector while the agent speaks.                          *)
(***************************************************************************)
LEMMA OpenFacts ==
  ASSUME TypeOK, StreamInv, stream.phase = "open"
  PROVE  /\ said \in 1..MaxTokens /\ Said \in Text /\ Len(Said) = said /\ Said # <<>>
         /\ stream.full \o stream.live = Said /\ Len(stream.full) <= said
         /\ IsPrefix(stream.full, Said)
         /\ stream.live = <<>> => LiveRev = stream.rev /\ stream.full = Said
         /\ stream.live # <<>> => LiveRev = stream.rev + 1 /\ Last(stream.live) = said
                                  /\ Len(stream.full) < said
         /\ LiveRev \in Nat \ {0} /\ stream.rev \in Nat
         /\ hub # None /\ hub.rev = stream.rev /\ hub.text = stream.full
         /\ ~failed => disk # None /\ disk.text \o stream.stored = Said
<1>1. said \in 0..MaxTokens
  BY DEF TypeOK
<1>2. /\ said > 0 /\ stream.full \o stream.live = Said /\ (stream.rev = 0 <=> stream.full = <<>>)
      /\ hub # None /\ hub.rev = stream.rev /\ hub.text = stream.full
      /\ ~failed => disk # None /\ disk.text \o stream.stored = Said
  BY DEF StreamInv, CollectorInv
<1>3. Said \in Text /\ Len(Said) = said /\ Said # <<>>
  <2>1. Said \in Text /\ Len(Said) = said
    BY <1>1, SaidIsText
  <2>2. Len(<<>>) = 0
    BY EmptySeq
  <2> QED
    BY <1>1, <1>2, <2>1, <2>2
<1>4. /\ IsPrefix(stream.full, Said) /\ Len(stream.full) <= said
      /\ stream.live = <<>> => stream.full = Said
      /\ stream.live # <<>> => Last(stream.live) = said /\ Len(stream.full) < said
  BY <1>1, <1>2, StreamTypes, Parts
<1>5. /\ stream.live = <<>> => LiveRev = stream.rev
      /\ stream.live # <<>> => LiveRev = stream.rev + 1
  BY DEF LiveRev
<1>6. LiveRev \in Nat \ {0} /\ stream.rev \in Nat
  BY <1>2, <1>3, <1>4, <1>5, StreamTypes
<1>7. said \in 1..MaxTokens
  BY <1>1, <1>2, StreamAssumption
<1> QED
  BY <1>2, <1>3, <1>4, <1>5, <1>6, <1>7

\* Who is known is not beyond what was flushed.
LEMMA OldKnown ==
  ASSUME TypeOK, StreamInv, stream.phase = "open"
  PROVE  \A x \in Known : /\ x.rev <= LiveRev /\ Upto(x) <= said
                          /\ x.rev = LiveRev => Upto(x) = said
<1>1. \A x \in Known : /\ x.rev <= stream.rev /\ Upto(x) <= Len(stream.full)
                       /\ x.rev = stream.rev => Upto(x) = Len(stream.full)
                       /\ x.rev \in Nat /\ Upto(x) \in Nat
  BY KnownTypes DEF StreamInv, CollectorInv
<1>2. CASE stream.live = <<>>
  <2>1. LiveRev = stream.rev /\ Len(stream.full) = said
    BY <1>2, OpenFacts
  <2> QED
    BY <1>1, <2>1
<1>3. CASE stream.live # <<>>
  <2>1. /\ LiveRev = stream.rev + 1 /\ Len(stream.full) < said /\ stream.rev \in Nat
        /\ said \in Nat /\ Len(stream.full) \in Nat
    BY <1>3, OpenFacts, StreamTypes, StreamAssumption DEF Text
  <2> QED
    BY <1>1, <2>1
<1> QED
  BY <1>2, <1>3

LEMMA OldStored ==
  ASSUME TypeOK, StreamInv, stream.phase = "open"
  PROVE  \A x \in StoredCopies : x.streaming /\ IsPrefix(x.text, Said)
                                 /\ (x.rev = LiveRev => x.text = Said)
<1> SUFFICES ASSUME NEW x \in StoredCopies
             PROVE  x.streaming /\ IsPrefix(x.text, Said) /\ (x.rev = LiveRev => x.text = Said)
  OBVIOUS
<1>1. x \in Known /\ x \in Copies /\ x.text \in Text /\ x.streaming \in BOOLEAN /\ said \in 0..MaxTokens
  BY KnownTypes DEF TypeOK
<1>2. IsPrefix(x.text, Said) /\ x.streaming
  BY <1>1 DEF StreamInv, RevisionNamesText, EndInv
<1>3. Upto(x) = Len(x.text) /\ (x.rev = LiveRev => Upto(x) = said)
  BY <1>1, <1>2, OldKnown, UptoPrefix
<1>4. ASSUME Len(x.text) = said PROVE x.text = Said
  <2>1. Len(Said) = said
    BY OpenFacts
  <2> QED
    BY <1>1, <1>2, <1>4, <2>1, SubSeqFull, OpenFacts DEF IsPrefix, Text
<1> QED
  BY <1>2, <1>3, <1>4

\* What a flush tells the live stream and the disk.
LEMMA FlushedFrames ==
  ASSUME TypeOK, StreamInv, stream.phase = "open"
  PROVE  /\ LiveDelta # None => /\ LiveDelta \in Frames /\ LiveDelta.phase = "delta"
                                /\ LiveDelta.rev = LiveRev /\ LiveDelta.text = stream.live
                                /\ stream.live # <<>> /\ Upto(LiveDelta) = said
         /\ LiveDelta = None => stream.live = <<>>
         /\ StoredDelta # None => /\ StoredDelta \in Frames /\ StoredDelta.phase = "delta"
                                  /\ StoredDelta.rev = LiveRev /\ StoredDelta.text = stream.stored
         /\ StoredDelta = None => stream.stored = <<>>
         /\ End \in Frames /\ End.phase = "end" /\ End.rev = LiveRev + 1 /\ End.text = Said
         /\ End # None /\ Upto(End) = said
<1>1. LiveDelta \in Frames \cup {None} /\ StoredDelta \in Frames \cup {None} /\ End \in Frames
  BY FrameTypes
<1>2. End.text = Said /\ End.phase = "end" /\ End.rev = LiveRev + 1 /\ End # None
  BY <1>1, OpenFacts, StreamAssumption DEF End, Frame
<1>3. Upto(End) = said
  <2>1. Len(Said) = said /\ Said \in Text /\ said \in 0..MaxTokens
    BY OpenFacts DEF TypeOK
  <2>2. IsPrefix(End.text, Said)
    BY <1>2, <2>1, StreamAssumption DEF IsPrefix
  <2> QED
    BY <1>2, <2>1, <2>2, UptoPrefix
<1>4. stream.live # <<>> => LiveDelta = Frame("delta", LiveRev, stream.live)
  BY DEF LiveDelta
<1>5. stream.stored # <<>> => StoredDelta = Frame("delta", LiveRev, stream.stored)
  BY DEF StoredDelta
<1>6. \A r, t : /\ Frame("delta", r, t).phase = "delta" /\ Frame("delta", r, t).rev = r
                /\ Frame("delta", r, t).text = t
  BY DEF Frame
<1>7. (stream.live = <<>> => LiveDelta = None) /\ (stream.stored = <<>> => StoredDelta = None)
  BY DEF LiveDelta, StoredDelta
<1>8. stream.live # <<>> => LiveDelta # None /\ Upto(LiveDelta) = said
  BY <1>4, <1>6, OpenFacts, StreamTypes, StreamAssumption DEF Upto, Frame, Frames
<1>9. stream.stored # <<>> => StoredDelta # None
  BY <1>5, StreamTypes, StreamAssumption DEF Frame, Frames
<1> QED
  BY <1>1, <1>2, <1>3, <1>4, <1>5, <1>6, <1>7, <1>8, <1>9

\* A copy that has all the agent has said; last is the end of the stream, or
\* nothing.
NewCopy(x, last) ==
  /\ x # None /\ x.text = Said
  /\ x.rev = LiveRev \/ (x.rev = LiveRev + 1 /\ last = End)
  /\ x.streaming \/ last = End

LEMMA NewDisk ==
  ASSUME TypeOK, StreamInv, stream.phase = "open", NEW last \in {None, End},
         Store(StoredDelta, last)
  PROVE  /\ disk' = disk \/ NewCopy(disk', last)
         /\ listed' \in {listed, disk} \/ NewCopy(listed', last)
         /\ ~failed' => disk' # None /\ disk'.text = Said
<1> DEFINE one == Fold(disk, StoredDelta)
           both == Fold(one, last)
<1>1. /\ StoredDelta \in Messages \cup {None} /\ End \in Messages /\ End # None
      /\ StoredDelta \in Frames \cup {None} /\ last \in Frames \cup {None}
      /\ disk \in Copy \cup {None}
  BY FrameTypes, FramesAreMessages, FlushedFrames DEF TypeOK
<1>2. /\ disk' \in {disk, one, both} /\ listed' \in {listed, disk, one, both}
      /\ failed => disk' = disk /\ listed' = listed
      /\ ~failed' => ~failed /\ disk' = both
  BY <1>1, StoreIs
<1>3. CASE failed
  BY <1>2, <1>3
<1>4. CASE ~failed
  <2>1. disk \in Copy /\ disk.text \o stream.stored = Said /\ disk.text \in Text /\ disk # None
    BY <1>1, <1>4, OpenFacts DEF Copy
  <2>2. one # None /\ one.text = Said /\ (one = disk \/ (one.rev = LiveRev /\ one.streaming))
        /\ one \in Copy \cup {None}
    <3>1. one \in Copy \cup {None}
      BY <1>1, FoldIs
    <3>2. CASE StoredDelta = None
      <4>1. stream.stored = <<>> /\ one = disk
        BY <1>1, <3>2, FlushedFrames, FoldIs
      <4>2. disk.text = Said
        BY <2>1, <4>1, Parts, StreamTypes DEF TypeOK
      <4> QED
        BY <2>1, <3>1, <4>1, <4>2
    <3>3. CASE StoredDelta # None
      <4>1. one = Made(disk, StoredDelta)
        BY <1>1, <3>3, FoldIs
      <4>2. StoredDelta \in Messages /\ StoredDelta.phase = "delta" /\ StoredDelta.rev = LiveRev
            /\ StoredDelta.text = stream.stored
        BY <1>1, <3>3, FlushedFrames
      <4>3. Made(disk, StoredDelta) # None /\ Made(disk, StoredDelta).rev = LiveRev
        BY <2>1, <4>2, CopyOfFrame
      <4>4. Made(disk, StoredDelta).streaming
        BY <2>1, <4>2, CopyOfFrame
      <4>5. Made(disk, StoredDelta).text = disk.text \o StoredDelta.text
        BY <2>1, <4>2, CopyOfFrame
      <4>6. Made(disk, StoredDelta).text = Said
        BY <2>1, <4>2, <4>5
      <4> QED
        BY <3>1, <4>1, <4>3, <4>4, <4>6
    <3> QED
      BY <3>2, <3>3
  <2> HIDE DEF one
  <2>3. CASE last = None
    <3>1. both = one
      BY <1>1, <2>2, <2>3, FoldIs
    <3> QED
      BY <1>2, <2>2, <3>1 DEF NewCopy
  <2>4. CASE last = End
    <3>1. both = Made(one, End)
      BY <1>1, <2>2, <2>4, FoldIs
    <3>2. Made(one, End) # None /\ Made(one, End).rev = LiveRev + 1
      BY <1>1, <2>2, CopyOfFrame, FlushedFrames
    <3>3. Made(one, End).text = Said
      BY <1>1, <2>2, CopyOfFrame, FlushedFrames
    <3> QED
      BY <1>2, <2>2, <2>4, <3>1, <3>2, <3>3 DEF NewCopy
  <2> QED
    BY <2>3, <2>4
<1> QED
  BY <1>3, <1>4

LEMMA NewHub ==
  ASSUME TypeOK, StreamInv, stream.phase = "open", NEW last \in {None, End},
         Publish(LiveDelta, last)
  PROVE  /\ NewCopy(hub', last) /\ hub'.rev = IF last = None THEN LiveRev ELSE LiveRev + 1
         /\ Range(frames') = Range(frames) \cup ({LiveDelta, last} \ {None})
<1> DEFINE one == Merge(hub, LiveDelta)
<1>1. /\ LiveDelta \in Messages \cup {None} /\ End \in Messages /\ End # None
      /\ LiveDelta \in Frames \cup {None} /\ last \in Frames \cup {None}
      /\ hub \in Copy \cup {None}
  BY FrameTypes, FramesAreMessages, FlushedFrames DEF TypeOK
<1>2. /\ hub' = Merge(one, last) /\ one \in Copy \cup {None}
      /\ Range(frames') = Range(frames) \cup ({LiveDelta, last} \ {None})
  BY <1>1, PublishIs
<1>3. /\ hub \in Copy /\ hub # None /\ hub.rev = stream.rev /\ hub.text = stream.full
      /\ hub.text \in Text /\ hub.streaming /\ stream.rev \in Nat
  <2>1. hub # None /\ hub.rev = stream.rev /\ hub.text = stream.full /\ stream.rev \in Nat
    BY OpenFacts
  <2>2. hub \in StoredCopies
    BY <2>1 DEF StoredCopies
  <2> QED
    BY <1>1, <2>1, <2>2, OldStored DEF Copy
<1>4. one # None /\ one.rev = LiveRev /\ one.text = Said /\ one.streaming
  <2>1. CASE LiveDelta = None
    <3>1. one = hub /\ stream.live = <<>>
      BY <2>1, FlushedFrames DEF Merge
    <3> QED
      BY <1>3, <3>1, OpenFacts
  <2>2. CASE LiveDelta # None
    <3>1. /\ LiveDelta \in Messages /\ LiveDelta.phase = "delta" /\ LiveDelta.rev = LiveRev
          /\ LiveDelta.text = stream.live /\ LiveRev = stream.rev + 1
      BY <1>1, <2>2, FlushedFrames, OpenFacts
    <3>2. one = Made(hub, LiveDelta)
      BY <1>3, <2>2, <3>1 DEF Merge, Made
    <3>3. Made(hub, LiveDelta) # None /\ Made(hub, LiveDelta).rev = LiveRev
      BY <1>3, <3>1, CopyOfFrame
    <3>4. Made(hub, LiveDelta).streaming
      BY <1>3, <3>1, CopyOfFrame
    <3>5. Made(hub, LiveDelta).text = Said
      BY <1>3, <3>1, CopyOfFrame, OpenFacts
    <3> QED
      BY <3>2, <3>3, <3>4, <3>5
  <2> QED
    BY <2>1, <2>2
<1> HIDE DEF one
<1>5. CASE last = None
  <2>1. hub' = one
    BY <1>2, <1>5 DEF Merge
  <2> QED
    BY <1>2, <1>4, <1>5, <2>1 DEF NewCopy
<1>6. CASE last = End
  <2>1. End.rev = LiveRev + 1 /\ LiveRev \in Nat /\ End.phase # "delta" /\ End.text = Said
    BY FlushedFrames, OpenFacts
  <2>2. hub' = Made(one, End)
    BY <1>1, <1>2, <1>4, <1>6, <2>1 DEF Merge, Made
  <2>3. Made(one, End) # None /\ Made(one, End).rev = LiveRev + 1
    BY <1>1, <1>2, <2>1, CopyOfFrame
  <2>4. Made(one, End).text = Said
    BY <1>1, <1>2, <2>1, CopyOfFrame
  <2> QED
    BY <1>1, <1>2, <1>6, <2>2, <2>3, <2>4 DEF NewCopy
<1> QED
  BY <1>5, <1>6

\* A flush, or the end of the stream.
Advance(last) ==
  /\ UNCHANGED <<said, batch, window, load>>
  /\ Publish(LiveDelta, last)
  /\ \/ last = None /\ UNCHANGED <<disk, listed, failed>> /\ stream'.stored = stream.stored
     \/ Store(StoredDelta, last) /\ stream'.stored = <<>>
  /\ stream'.full = stream.full \o stream.live /\ stream'.live = <<>>
  /\ IF last = None
     THEN closed' = closed /\ stream'.phase = "open" /\ stream'.rev = LiveRev
     ELSE stream'.phase = "ended" /\ stream'.rev = LiveRev + 1

LEMMA AdvanceStep ==
  ASSUME TypeOK, TypeOK', StreamInv, stream.phase = "open", NEW last \in {None, End},
         Advance(last)
  PROVE  StreamInv'
<1>1. /\ said \in 1..MaxTokens /\ Said \in Text /\ Said # <<>> /\ LiveRev \in Nat \ {0}
      /\ Said' = Said /\ said' = said /\ End # None /\ IsPrefix(Said, Said)
  <2>1. Said \in Text /\ Len(Said) = said /\ said \in 0..MaxTokens
    BY OpenFacts DEF TypeOK
  <2>2. IsPrefix(Said, Said)
    BY <2>1, StreamAssumption DEF IsPrefix
  <2> QED
    BY <2>2, OpenFacts, FlushedFrames DEF Advance, Said
<1>2. NewCopy(hub', last) /\ hub'.rev = (IF last = None THEN LiveRev ELSE LiveRev + 1)
      /\ Range(frames') = Range(frames) \cup ({LiveDelta, last} \ {None})
  BY NewHub DEF Advance
<1>3. /\ disk' = disk \/ NewCopy(disk', last)
      /\ listed' \in {listed, disk} \/ NewCopy(listed', last)
  BY NewDisk DEF Advance
<1>4. UNCHANGED <<batch, window, load>>
  BY DEF Advance
<1>5. \A x \in Copies' : x \in Copies \/ NewCopy(x, last)
  BY <1>2, <1>3, <1>4 DEF Copies, StoredCopies
<1>6. \A x \in StoredCopies' : x \in StoredCopies \/ NewCopy(x, last)
  BY <1>2, <1>3, <1>4 DEF StoredCopies
<1>7. \A f \in Pending' : f \in Pending \/ (f \in {LiveDelta, last} /\ f # None)
  BY <1>2, <1>4 DEF Pending
<1>8. \A x : NewCopy(x, last) => x.text = Said /\ x.rev \in {LiveRev, LiveRev + 1} /\ Upto(x) = said
  <2> SUFFICES ASSUME NEW x, NewCopy(x, last) PROVE Upto(x) = said
    BY DEF NewCopy
  <2>1. x.text = Said /\ Len(Said) = said /\ said \in 0..MaxTokens
    BY OpenFacts DEF NewCopy, TypeOK
  <2> QED
    BY <1>1, <2>1, UptoPrefix
<1>9. \A f \in {LiveDelta, last} : f # None => f.rev \in {LiveRev, LiveRev + 1} /\ f.text # <<>>
                                               /\ Upto(f) = said
  BY <1>1, FlushedFrames
<1>10. \A x \in Known' : \/ x \in Known
                         \/ /\ x.rev \in {LiveRev, LiveRev + 1} /\ Upto(x) = said
                            /\ x.text # <<>>
  BY <1>1, <1>5, <1>7, <1>8, <1>9 DEF Known
<1>11. \A x \in Known' : /\ Upto(x) <= said /\ Upto(x) \in Nat /\ x.rev \in Nat
                         /\ x.rev >= LiveRev => Upto(x) = said
                         /\ x.rev < LiveRev => x \in Known
                         /\ x.rev = 0 <=> x.text = <<>>
  <2>1. \A x \in Known : /\ Upto(x) <= said /\ Upto(x) \in Nat /\ x.rev \in Nat
                         /\ x.rev <= LiveRev
                         /\ x.rev = LiveRev => Upto(x) = said
                         /\ x.rev = 0 <=> x.text = <<>>
    BY OldKnown, KnownTypes DEF StreamInv, OrderInv
  <2> QED
    BY <1>1, <1>10, <2>1
<1>12. OrderInv'
  <2>1. \A x, y \in Known : x.rev <= y.rev => Upto(x) <= Upto(y)
    BY DEF StreamInv, OrderInv
  <2>2. \A x, y \in Known' : x.rev <= y.rev => Upto(x) <= Upto(y)
    BY <1>1, <1>11, <2>1
  <2> QED
    BY <1>11, <2>2 DEF OrderInv
<1>13. RevisionNamesText'
  <2>1. \A x \in StoredCopies' : x.rev \in Nat
    BY <1>6, <1>8, <1>1, KnownTypes
  <2>2. \A x \in StoredCopies' : /\ IsPrefix(x.text, Said) /\ (x.rev >= LiveRev => x.text = Said)
                                 /\ x.rev < LiveRev => x \in StoredCopies
    <3>1. \A x \in StoredCopies : x.rev <= LiveRev /\ x.rev \in Nat
      BY OldKnown, KnownTypes
    <3> QED
      BY <1>1, <1>6, <1>8, <3>1, OldStored
  <2>3. \A x, y \in StoredCopies : x.rev = y.rev => x.text = y.text
    BY DEF StreamInv, RevisionNamesText
  <2> QED
    BY <1>1, <2>1, <2>2, <2>3 DEF RevisionNamesText
<1>14. EndedIsWhole' /\ EndInv'
  <2>1. \A x \in Copies : x.streaming
    BY KnownTypes DEF StreamInv, EndInv
  <2>2. \A f \in Pending : f.phase # "end"
    BY DEF StreamInv, EndInv
  <2>3. \A x \in Copies' : ~x.streaming => last = End /\ x.text = Said
    BY <1>5, <2>1 DEF NewCopy
  <2>4. \A f \in Pending' : f.phase = "end" => last = End /\ f.text = Said
    BY <1>7, <2>2, FlushedFrames
  <2>5. last = End => stream'.phase = "ended"
    BY <1>1 DEF Advance
  <2> QED
    BY <1>1, <2>3, <2>4, <2>5 DEF EndedIsWhole, EndInv, Copies
<1>15. CollectorInv'
  <2>1. CASE last = End
    BY <1>1, <2>1 DEF Advance, CollectorInv
  <2>2. CASE last = None
    <3>1. /\ stream'.full \o stream'.live = Said /\ stream'.full = Said /\ stream'.rev = LiveRev
          /\ stream'.phase = "open" /\ ~closed'
      <4>1. Said \o <<>> = Said
        BY <1>1 DEF Text
      <4> QED
        BY <2>2, <4>1, OpenFacts DEF Advance, StreamInv, CollectorInv
    <3>2. Len(Said) = said
      BY OpenFacts
    <3>3. \A x \in Known' : x.rev <= LiveRev
      <4>1. \A x \in Known : x.rev <= LiveRev
        BY OldKnown
      <4>2. \A x \in Copies' : x \in Copies \/ x.rev = LiveRev
        BY <1>1, <1>5, <2>2 DEF NewCopy
      <4>3. \A f \in Pending' : f \in Pending \/ f.rev = LiveRev
        BY <1>7, <2>2, FlushedFrames
      <4> QED
        BY <1>1, <4>1, <4>2, <4>3 DEF Known
    <3>4. hub' # None /\ hub'.rev = LiveRev /\ hub'.text = Said
      BY <1>2, <2>2 DEF NewCopy
    <3>5. ~failed' => disk' # None /\ disk'.text \o stream'.stored = Said
      <4>1. CASE UNCHANGED <<disk, listed, failed>> /\ stream'.stored = stream.stored
        BY <4>1, OpenFacts
      <4>2. CASE Store(StoredDelta, last) /\ stream'.stored = <<>>
        <5>1. Said \o <<>> = Said
          BY <1>1 DEF Text
        <5> QED
          BY <4>2, <5>1, NewDisk
      <4> QED
        BY <4>1, <4>2 DEF Advance
    <3>6. \A x \in Known' : /\ x.rev <= stream'.rev /\ Upto(x) <= Len(stream'.full)
                            /\ x.rev = stream'.rev => Upto(x) = Len(stream'.full)
      BY <1>1, <1>11, <3>1, <3>2, <3>3
    <3>7. said' > 0 /\ (stream'.rev = 0 <=> stream'.full = <<>>)
      BY <1>1, <3>1
    <3> QED
      BY <1>1, <3>1, <3>4, <3>5, <3>6, <3>7 DEF CollectorInv
  <2> QED
    BY <2>1, <2>2
<1> QED
  BY <1>12, <1>13, <1>14, <1>15 DEF StreamInv

LEMMA SpeakStep ==
  ASSUME TypeOK, TypeOK', StreamInv, Speak
  PROVE  StreamInv'
<1>1. /\ said \in 0..MaxTokens /\ said < MaxTokens /\ said' = said + 1 /\ said \in Nat
      /\ stream.phase \in {"none", "open"} /\ ~closed /\ closed' = closed
      /\ stream' = [stream EXCEPT !.phase = "open", !.live = Append(stream.live, said + 1),
                                  !.stored = Append(stream.stored, said + 1)]
      /\ Store(Started, None) /\ Publish(Started, None) /\ UNCHANGED <<batch, window, load>>
      /\ stream \in Streams
  BY StreamAssumption DEF Speak, windowVars, TypeOK, Streams
<1>2. /\ stream'.phase = "open" /\ stream'.rev = stream.rev /\ stream'.full = stream.full
      /\ stream'.live = Append(stream.live, said + 1)
      /\ stream'.stored = Append(stream.stored, said + 1)
  BY <1>1 DEF Streams
<1>3. CASE stream.phase = "open"
  <2>1. Started = None
    BY <1>3 DEF Started
  <2>2. hub' = hub /\ Range(frames') = Range(frames)
    <3>1. /\ hub' = Merge(Merge(hub, None), None)
          /\ Range(frames') = Range(frames) \cup ({None, None} \ {None})
      BY <1>1, <2>1, PublishIs
    <3> QED
      BY <3>1 DEF Merge
  <2>3. disk' = disk /\ listed' = listed /\ failed' = failed
    BY <1>1, <2>1, StoreIs
  <2>4. StoredCopies' = StoredCopies /\ Copies' = Copies /\ Pending' = Pending /\ Known' = Known
    BY <1>1, <2>2, <2>3 DEF StoredCopies, Copies, Pending, Known
  <2>5. OrderInv'
    BY <2>4 DEF StreamInv, OrderInv
  <2>6. RevisionNamesText'
    <3>1. \A x \in StoredCopies : IsPrefix(x.text, Said')
      BY <1>1, KnownTypes, PrefixGrows DEF StreamInv, RevisionNamesText
    <3> QED
      BY <2>4, <3>1 DEF StreamInv, RevisionNamesText
  <2>7. EndedIsWhole' /\ EndInv'
    <3>1. \A x \in Copies : x.streaming
      BY <1>3, KnownTypes DEF StreamInv, EndInv
    <3>2. \A f \in Pending : f.phase # "end"
      BY <1>3 DEF StreamInv, EndInv
    <3> QED
      BY <2>4, <3>1, <3>2 DEF EndedIsWhole, EndInv, Copies
  <2>8. CollectorInv'
    <3>1. stream'.full \o stream'.live = Said'
      <4>1. stream.full \o stream.live = Said /\ stream.full \in Text /\ stream.live \in Text
        BY <1>3, OpenFacts, StreamTypes
      <4> QED
        BY <1>1, <1>2, <4>1, SaidGrows
    <3>2. ~failed' => disk' # None /\ disk'.text \o stream'.stored = Said'
      <4> SUFFICES ASSUME ~failed' PROVE disk' # None /\ disk'.text \o stream'.stored = Said'
        OBVIOUS
      <4>1. disk # None /\ disk.text \o stream.stored = Said /\ disk.text \in Text
        BY <1>3, <2>3, OpenFacts DEF TypeOK, Copy
      <4>2. stream.stored \in Text
        BY StreamTypes
      <4>3. disk.text \o Append(stream.stored, said + 1) = Said'
        BY <1>1, <4>1, <4>2, SaidGrows
      <4> QED
        BY <1>2, <2>3, <4>1, <4>3
    <3>3. \A x \in Known : /\ x.rev <= stream.rev /\ Upto(x) <= Len(stream.full)
                           /\ x.rev = stream.rev => Upto(x) = Len(stream.full)
      BY <1>3 DEF StreamInv, CollectorInv
    <3>4. hub # None /\ hub.rev = stream.rev /\ hub.text = stream.full
          /\ (stream.rev = 0 <=> stream.full = <<>>) /\ said' > 0
      BY <1>1, <1>3, StreamAssumption DEF StreamInv, CollectorInv
    <3> QED
      BY <1>1, <1>2, <2>2, <2>4, <3>1, <3>2, <3>3, <3>4 DEF CollectorInv
  <2> QED
    BY <2>5, <2>6, <2>7, <2>8 DEF StreamInv
<1>4. CASE stream.phase = "none"
  <2> DEFINE first == Frame("start", 0, <<>>)
  <2>1. said = 0 /\ stream = NoStream /\ Known = {}
    BY <1>4 DEF StreamInv, CollectorInv
  <2>2. disk = None /\ listed = None /\ hub = None /\ Started = first
    BY <1>4, <2>1 DEF Known, Copies, StoredCopies, Started
  <2>3. first \in Messages /\ first.rev = 0 /\ first.text = <<>> /\ first.phase = "start"
        /\ first # None /\ first \in Frames
    BY EmptyTexts, StreamAssumption DEF Frame, Messages, Frames
  <2> HIDE DEF first
  <2>4. Made(None, first) # None /\ Made(None, first).rev = 0
    BY <2>3, CopyOfFrame
  <2>5. Made(None, first).text = <<>>
    BY <2>3, CopyOfFrame
  <2>6. Made(None, first).streaming
    BY <2>3, CopyOfFrame
  <2>7. hub' = Made(None, first) /\ Range(frames') = Range(frames) \cup {first}
    BY <1>1, <2>2, <2>3, PublishIs DEF Merge, Made
  <2>8. /\ disk' \in {None, Made(None, first)} /\ (~failed' => disk' = Made(None, first))
        /\ listed' \in {None, Made(None, first)}
    BY <1>1, <2>2, <2>3, StoreIs DEF Fold, Made
  <2>9. Copies = {} /\ Pending = {}
    BY <2>1 DEF Known
  <2>10. \A x \in Copies' : x.rev = 0 /\ x.text = <<>> /\ x.streaming
    BY <1>1, <2>4, <2>5, <2>6, <2>7, <2>8, <2>9 DEF Copies, StoredCopies
  <2>11. \A f \in Pending' : f.rev = 0 /\ f.text = <<>> /\ f.phase # "end"
    BY <1>1, <2>3, <2>7, <2>9 DEF Pending
  <2>12. \A x \in Known' : x.rev = 0 /\ x.text = <<>> /\ Upto(x) = 0
    BY <2>10, <2>11 DEF Known, Upto
  <2>13. said' = 1 /\ Said' = <<1>>
    BY <1>1, <2>1 DEF Said
  <2>14. OrderInv'
    BY <2>12 DEF OrderInv
  <2>15. StoredCopies' \subseteq Copies'
    BY DEF Copies, StoredCopies
  <2>16. RevisionNamesText'
    <3>1. IsPrefix(<<>>, <<1>>)
      BY DEF IsPrefix
    <3> QED
      BY <2>10, <2>13, <2>15, <3>1 DEF RevisionNamesText
  <2>17. EndInv' /\ EndedIsWhole'
    BY <2>10, <2>11 DEF EndInv, EndedIsWhole, Copies
  <2>18. CollectorInv'
    <3>1. stream'.rev = 0 /\ stream'.full = <<>> /\ stream'.live = <<1>> /\ stream'.stored = <<1>>
      BY <1>2, <2>1 DEF NoStream
    <3>2. <<>> \o <<1>> = <<1>> /\ Len(<<>>) = 0
      OBVIOUS
    <3>3. \A x \in Known' : /\ x.rev <= stream'.rev /\ Upto(x) <= Len(stream'.full)
                            /\ x.rev = stream'.rev => Upto(x) = Len(stream'.full)
      BY <2>12, <3>1, <3>2
    <3>4. stream'.full \o stream'.live = Said' /\ (stream'.rev = 0 <=> stream'.full = <<>>)
          /\ hub' # None /\ hub'.rev = stream'.rev /\ hub'.text = stream'.full
      BY <2>4, <2>5, <2>7, <2>13, <3>1, <3>2
    <3>5. ~failed' => disk' # None /\ disk'.text \o stream'.stored = Said'
      BY <2>4, <2>5, <2>8, <2>13, <3>1, <3>2
    <3>6. ~closed' /\ said' > 0 /\ stream'.phase = "open"
      BY <1>1, <1>2, <2>13
    <3> QED
      BY <3>3, <3>4, <3>5, <3>6 DEF CollectorInv
  <2> QED
    BY <2>14, <2>16, <2>17, <2>18 DEF StreamInv
<1> QED
  BY <1>1, <1>3, <1>4

LEMMA CrashStep ==
  ASSUME TypeOK, TypeOK', StreamInv, Crash
  PROVE  StreamInv'
<1>1. /\ said' = said /\ disk' = disk /\ listed' = listed /\ hub' = None /\ frames' = <<>> /\ batch' = <<>>
      /\ window'.item = None /\ \A l \in Loads : load'[l].detail = None /\ load'[l].snapshot = None
      /\ stream'.phase \in {"ended", "cut"} /\ (stream.phase = "ended" => stream'.phase = "ended")
      /\ Said' = Said /\ stream'.live = <<>> /\ stream'.stored = <<>>
  BY EmptyTexts DEF Crash, Shut, NoStream, Said
<1>2. StoredCopies' \subseteq StoredCopies /\ Copies' \subseteq Copies
  BY <1>1 DEF StoredCopies, Copies
<1>3. Pending' = {}
  BY <1>1 DEF Pending, Range
<1>4. OrderInv'
  BY <1>2, <1>3 DEF StreamInv, OrderInv, Known
<1>5. RevisionNamesText' /\ EndedIsWhole' /\ EndInv'
  BY <1>1, <1>2, <1>3 DEF StreamInv, RevisionNamesText, EndedIsWhole, EndInv, Copies
<1>6. CollectorInv'
  BY <1>1 DEF CollectorInv
<1> QED
  BY <1>4, <1>5, <1>6 DEF StreamInv

-------------------------------------------------------------------------------
(***************************************************************************)
(* Every step.                                                             *)
(***************************************************************************)
\* The timers and the end of the stream advance it.
LEMMA CollectorSteps ==
  ASSUME TypeOK, StreamInv,
         LiveTimer \/ DurableTimer \/ Finish \/ (Close /\ stream.phase = "open")
  PROVE  stream.phase = "open" /\ (Advance(None) \/ Advance(End))
<1>1. stream.phase # "open" => stream.live = <<>> /\ stream.stored = <<>>
  BY DEF StreamInv, CollectorInv
<1>2. stream \in Streams
  BY DEF TypeOK, Streams
<1>3. /\ Flushed.phase = stream.phase /\ Flushed.rev = LiveRev
      /\ Flushed.full = stream.full \o stream.live /\ Flushed.live = <<>>
      /\ Flushed.stored = stream.stored
  BY <1>2 DEF Flushed, Streams
<1>4. Flushed \in Streams
  BY StreamStep
<1>5. LET S == [Flushed EXCEPT !.stored = <<>>]
      IN  /\ S.phase = stream.phase /\ S.rev = LiveRev /\ S.full = stream.full \o stream.live
          /\ S.live = <<>> /\ S.stored = <<>>
  BY <1>3, <1>4 DEF Streams
<1>6. /\ Ended.phase = "ended" /\ Ended.rev = LiveRev + 1 /\ Ended.full = stream.full \o stream.live
      /\ Ended.live = <<>> /\ Ended.stored = <<>>
  BY <1>3, <1>4 DEF Ended, Streams
<1>7. stream.phase = "open" => End # None
  BY FlushedFrames
<1> USE DEF windowVars, Advance
<1>8. CASE LiveTimer
  BY <1>1, <1>3, <1>8 DEF LiveTimer
<1>9. CASE DurableTimer
  BY <1>1, <1>5, <1>9 DEF DurableTimer
<1>10. CASE Finish
  BY <1>6, <1>7, <1>10 DEF Finish
<1>11. CASE Close /\ stream.phase = "open"
  BY <1>6, <1>7, <1>11 DEF Close
<1> QED
  BY <1>8, <1>9, <1>10, <1>11

\* Any step is of one of four kinds.
LEMMA KindsOfSteps ==
  ASSUME TypeOK, StreamInv, [Next]_vars
  PROVE  \/ Speak \/ Crash \/ (Quiet /\ ItemStep)
         \/ stream.phase = "open" /\ (Advance(None) \/ Advance(End))
<1>1. CASE UNCHANGED vars
  BY <1>1 DEF vars, agentVars, windowVars, Quiet, ItemStep, StoredCopies, Pending
<1>2. CASE Next
  BY <1>2, CollectorSteps, QuietActions DEF Next, QuietAction
<1> QED
  BY <1>1, <1>2

LEMMA StreamInvStep == TypeOK /\ StreamInv /\ [Next]_vars => StreamInv'
<1> SUFFICES ASSUME TypeOK, StreamInv, [Next]_vars PROVE StreamInv'
  OBVIOUS
<1>1. TypeOK'
  BY TypeStep
<1> QED
  BY <1>1, KindsOfSteps, SpeakStep, CrashStep, QuietStep, AdvanceStep

LEMMA StreamInit == Init => StreamInv
<1> SUFFICES ASSUME Init PROVE StreamInv
  OBVIOUS
<1>1. StoredCopies = {} /\ Copies = {}
  BY EmptyTexts DEF Init, Shut, StoredCopies, Copies
<1>2. Pending = {} /\ Known = {}
  BY <1>1 DEF Init, Pending, Range, Known
<1>3. stream = NoStream /\ said = 0 /\ NoStream.phase = "none" /\ NoStream.live = <<>>
      /\ NoStream.stored = <<>> /\ window.item = None
  BY DEF Init, NoStream, Shut
<1> QED
  BY <1>1, <1>2, <1>3
     DEF StreamInv, OrderInv, CollectorInv, EndInv, RevisionNamesText, EndedIsWhole

\* In every reachable state, revisions order all copies and frames by how far
\* they reach, the collector's hub and disk have what was flushed, and nothing
\* ends early.
THEOREM StreamCorrect == Spec => []StreamInv
  BY TypeInit, TypeStep, StreamInit, StreamInvStep, PTL DEF Spec

\* The disk, the hub and every load agree on the text of a revision.
THEOREM RevisionCorrect == Spec => []RevisionNamesText
<1>1. StreamInv => RevisionNamesText
  BY DEF StreamInv
<1> QED
  BY <1>1, StreamCorrect, PTL

\* Whoever has an ended response has all of it.
THEOREM EndedCorrect == Spec => []EndedIsWhole
<1>1. StreamInv => EndedIsWhole
  BY DEF StreamInv
<1> QED
  BY <1>1, StreamCorrect, PTL

(***************************************************************************)
(* The window.                                                             *)
(***************************************************************************)
NoRollBackStep ==
  window.item # None /\ window'.open /\ window'.opened = window.opened
    => /\ window'.item # None
       /\ window.item.text # <<>> =>
            /\ window'.item.text # <<>>
            /\ Last(window'.item.text) >= Last(window.item.text)

LEMMA ForwardStep == TypeOK /\ StreamInv /\ [Next]_vars => NoRollBackStep
<1> SUFFICES ASSUME TypeOK, StreamInv, [Next]_vars, window.item # None, window'.open,
                    window'.opened = window.opened
             PROVE  /\ window'.item # None
                    /\ window.item.text # <<>> =>
                         /\ window'.item.text # <<>>
                         /\ Last(window'.item.text) >= Last(window.item.text)
  BY DEF NoRollBackStep
<1>1. window.item \in Known /\ window.item.text \in Text /\ window.item.rev \in Nat
      /\ Upto(window.item) \in Nat
  BY KnownTypes DEF Known, Copies
<1>2. window.item.text # <<>> => Last(window.item.text) \in Nat
  BY <1>1 DEF Upto
<1>3. CASE window'.item = window.item
  BY <1>2, <1>3
<1>4. ASSUME window'.item # None,
             NEW k \in Known, Fits(window'.item, k), k.rev > window.item.rev
      PROVE  window.item.text # <<>> =>
               window'.item.text # <<>> /\ Last(window'.item.text) >= Last(window.item.text)
  <2>1. Upto(window.item) <= Upto(k) /\ k.rev \in Nat /\ Upto(k) \in Nat /\ k.text # <<>>
    BY <1>1, <1>4, KnownTypes DEF StreamInv, OrderInv
  <2>2. window'.item.text # <<>> /\ Upto(window'.item) = Upto(k)
    BY <1>4, <2>1 DEF Fits
  <2> QED
    BY <1>1, <2>1, <2>2 DEF Upto
<1>5. CASE Crash
  BY <1>5 DEF Crash, Shut
<1>6. CASE Speak \/ Advance(None) \/ Advance(End)
  BY <1>3, <1>6 DEF Speak, Advance, windowVars
<1>7. CASE ItemStep
  BY <1>3, <1>4, <1>7 DEF ItemStep
<1> QED
  BY <1>5, <1>6, <1>7, KindsOfSteps

\* A late load never rolls a window back.
THEOREM RollBackCorrect == Spec => NoRollBack
<1>1. TypeOK /\ StreamInv /\ [Next]_vars => [NoRollBackStep]_vars
  BY ForwardStep
<1> QED
  BY <1>1, TypeCorrect, StreamCorrect, PTL DEF Spec, NoRollBack, NoRollBackStep
===============================================================================
