--------------------------- MODULE RecallVaultProofs ---------------------------
(***************************************************************************)
(* Proofs about RecallVault, for any finite set of records and any bounds, *)
(* and about VaultKey, for any processes, keys and tampering.              *)
(***************************************************************************)
EXTENDS RecallVault, VaultKey, FiniteSetTheorems, SequenceTheorems, TLAPS

Reindexing == ocr.at \in {"payload", "recognize", "dump", "write"}

(* A record whose image is written before its file.                        *)
Pending(r) ==
  \/ capture.at \in {"image", "record"} /\ capture.rec = r
  \/ import.at = "record" /\ import.rec = r

(* A record that some thread may come upon.                                *)
Known(r) ==
  \/ file[r].is # "none" \/ r \in ToSet(order) \cup ToSet(gui.rest) \cup removed
  \/ ocr.at # "idle" /\ ocr.rec = r
  \/ capture.at = "unlink" /\ Head(capture.rest) = r

(* A stamp is taken once, so that nobody works on a record not yet there.  *)
StampsAreUnique ==
  /\ \A r \in Records : Pending(r) => r \in used
  /\ \A r \in Records : Known(r) => r \in used /\ ~Pending(r)
  /\ capture.at \in {"image", "record"} /\ import.at = "record" => capture.rec # import.rec
  /\ \A r \in Records : file[r].is = "sealed" => r \in Legacy

(* A record that is worked on is there, or its image was given up before.  *)
DoomedFirst ==
  /\ capture.at = "record" => capture.rec \in images
  /\ import.at = "record" => import.rec \in images \cup doomed
  /\ capture.at = "unlink" => Head(capture.rest) \in doomed
  /\ gui.at = "unlink" => Head(gui.rest) \in doomed
  /\ gui.at = "note" => file[Head(gui.rest)].is = "open" \/ Head(gui.rest) \in doomed
  /\ ocr.at # "idle" => file[ocr.rec].is = "open" \/ ocr.rec \in doomed

(* What the sweep will spare is enough.                                    *)
SweepSpares ==
  capture.at = "sweep" =>
    /\ \A r \in Records : file[r].is = "open" /\ r \notin doomed => r \in capture.listed
    /\ import.at = "record" => import.rec \in doomed

Bare(r) == r \notin images \/ r \in Legacy

(* A record goes after its image, so that one that is gone left none.      *)
ImagesFirst ==
  /\ capture.at = "unlink" => Bare(Head(capture.rest))
  /\ gui.at = "unlink" => Bare(Head(gui.rest))
  /\ \A r \in ToSet(order) \cup ToSet(gui.rest) : file[r].is = "none" => Bare(r)

Fresh(r, d) == file[r].is = "open" /\ (d = file[r].doc \/ r \in failed \/ UpdateUnderWay(r))

(* What is cached under the current signature of a file comes from it.     *)
CachesAgree ==
  \A r \in Records : /\ cache[r].hit => Fresh(r, cache[r].doc)
                     /\ index[r].hit => Fresh(r, index[r].doc)

(* Notes are numbered; no copy of a record has a later one than was made,  *)
(* and a copy that may be written has the latest its file has or gets.     *)
NotesRun ==
  /\ \A r \in Records : file[r].doc.note <= notes /\ cache[r].doc.note <= notes
  /\ \A r \in Records : cache[r].hit => file[r].doc.note <= cache[r].doc.note
  /\ ocr.doc.note <= notes
  /\ gui.at = "note" => gui.doc.note = notes /\ gui.rest = <<Head(gui.rest)>>
  /\ Reindexing /\ ~ocr.missed =>
       /\ file[ocr.rec].is = "open" => file[ocr.rec].doc.note <= ocr.doc.note
       /\ gui.at = "note" /\ Head(gui.rest) = ocr.rec => gui.doc.note <= ocr.doc.note

VaultInvariant ==
  /\ VaultTypeOK
  /\ aliased => ocr.at \in {"payload", "recognize", "dump"}
  /\ StampsAreUnique
  /\ ImagesKept /\ DoomedFirst /\ SweepSpares
  /\ RemovedTogether /\ ImagesFirst
  /\ CachesAgree
  /\ NotesRun
-----------------------------------------------------------------------------
(* The operators on lists.                                                 *)

LEMMA HeadTailEffect ==
  ASSUME NEW S, NEW s \in Seq(S), s # <<>>
  PROVE  /\ Head(s) \in S /\ Head(s) \in ToSet(s)
         /\ Tail(s) \in Seq(S) /\ ToSet(Tail(s)) \subseteq ToSet(s)
<1>1. Len(s) \in Nat \ {0} /\ DOMAIN s = 1..Len(s) /\ Head(s) = s[1]
  BY EmptySeq, LenProperties
<1>2. Head(s) \in S /\ Head(s) \in ToSet(s)
  BY <1>1, HeadTailProperties DEF ToSet
<1>3. Tail(s) \in Seq(S) /\ Len(Tail(s)) = Len(s) - 1
      /\ \A i \in 1..Len(Tail(s)) : Tail(s)[i] = s[i+1]
  BY HeadTailProperties
<1>4. DOMAIN Tail(s) = 1..Len(Tail(s))
  BY <1>3, LenProperties
<1>5. ToSet(Tail(s)) \subseteq ToSet(s)
  BY <1>1, <1>3, <1>4 DEF ToSet
<1>6. QED
  BY <1>2, <1>3, <1>5

LEMMA ConcatEffect ==
  ASSUME NEW S, NEW s \in Seq(S), NEW t \in Seq(S)
  PROVE  s \o t \in Seq(S) /\ ToSet(s \o t) \subseteq ToSet(s) \cup ToSet(t)
<1>1. s \o t \in Seq(S) /\ Len(s \o t) = Len(s) + Len(t)
      /\ \A i \in 1..Len(s) + Len(t) : (s \o t)[i] = IF i <= Len(s) THEN s[i] ELSE t[i - Len(s)]
  BY ConcatProperties
<1>2. /\ DOMAIN (s \o t) = 1..Len(s) + Len(t)
      /\ DOMAIN s = 1..Len(s) /\ DOMAIN t = 1..Len(t)
      /\ Len(s) \in Nat /\ Len(t) \in Nat
  BY <1>1, LenProperties
<1>3. ASSUME NEW i \in 1..Len(s) + Len(t)
      PROVE  (s \o t)[i] \in ToSet(s) \cup ToSet(t)
  <2>1. CASE i <= Len(s)
    BY <1>1, <1>2, <2>1 DEF ToSet
  <2>2. CASE ~(i <= Len(s))
    <3>1. i - Len(s) \in 1..Len(t) /\ (s \o t)[i] = t[i - Len(s)]
      BY <1>1, <1>2, <2>2
    <3>2. QED
      BY <1>2, <3>1 DEF ToSet
  <2>3. QED
    BY <2>1, <2>2
<1>4. QED
  BY <1>1, <1>2, <1>3 DEF ToSet

LEMMA SubSeqEffect ==
  ASSUME NEW S, NEW s \in Seq(S), NEW m \in Int, NEW n \in Int, m >= 1, n <= Len(s)
  PROVE  SubSeq(s, m, n) \in Seq(S) /\ ToSet(SubSeq(s, m, n)) \subseteq ToSet(s)
<1>1. Len(s) \in Nat /\ DOMAIN s = 1..Len(s) /\ \A i \in 1..Len(s) : s[i] \in S
  BY LenProperties, ElementOfSeq
<1>2. /\ SubSeq(s, m, n) \in Seq(S)
      /\ Len(SubSeq(s, m, n)) = IF m <= n THEN n - m + 1 ELSE 0
      /\ \A i \in 1..n - m + 1 : SubSeq(s, m, n)[i] = s[m + i - 1]
  <2>1. \A i \in m..n : s[i] \in S
    BY <1>1
  <2>2. QED
    BY <2>1, SubSeqProperties
<1>3. DOMAIN SubSeq(s, m, n) = 1..Len(SubSeq(s, m, n))
  BY <1>2, LenProperties
<1>4. ASSUME NEW i \in 1..Len(SubSeq(s, m, n))
      PROVE  SubSeq(s, m, n)[i] \in ToSet(s)
  <2>1. i \in 1..n - m + 1 /\ m + i - 1 \in 1..Len(s)
    BY <1>1, <1>2
  <2>2. QED
    BY <1>1, <1>2, <2>1 DEF ToSet
<1>5. QED
  BY <1>2, <1>3, <1>4 DEF ToSet

LEMMA WithoutEffect ==
  ASSUME NEW S, NEW s \in Seq(S), NEW r
  PROVE  Without(s, r) \in Seq(S) /\ ToSet(Without(s, r)) \subseteq ToSet(s)
<1>1. CASE \E i \in 1..Len(s) : s[i] = r
  <2>1. PICK i \in 1..Len(s) : i = CHOOSE j \in 1..Len(s) : s[j] = r
    BY <1>1
  <2>2. Without(s, r) = SubSeq(s, 1, i - 1) \o SubSeq(s, i + 1, Len(s))
    BY <1>1, <2>1 DEF Without, RemoveAt
  <2>3. Len(s) \in Nat
    BY LenProperties
  <2>4. /\ SubSeq(s, 1, i - 1) \in Seq(S) /\ ToSet(SubSeq(s, 1, i - 1)) \subseteq ToSet(s)
        /\ SubSeq(s, i + 1, Len(s)) \in Seq(S) /\ ToSet(SubSeq(s, i + 1, Len(s))) \subseteq ToSet(s)
    BY <2>3, SubSeqEffect
  <2> DEFINE a == SubSeq(s, 1, i - 1)
             b == SubSeq(s, i + 1, Len(s))
  <2>5. a \o b \in Seq(S) /\ ToSet(a \o b) \subseteq ToSet(a) \cup ToSet(b)
    <3> HIDE DEF a, b
    <3>1. a \in Seq(S) /\ b \in Seq(S) => a \o b \in Seq(S) /\ ToSet(a \o b) \subseteq ToSet(a) \cup ToSet(b)
      BY ConcatEffect
    <3>2. QED
      BY <2>4, <3>1 DEF a, b
  <2>6. QED
    BY <2>2, <2>4, <2>5
<1>2. CASE ~\E i \in 1..Len(s) : s[i] = r
  BY <1>2 DEF Without
<1>3. QED
  BY <1>1, <1>2

LEMMA EmptyList == ToSet(<<>>) = {}
  BY DEF ToSet

LEMMA OneList ==
  ASSUME NEW r
  PROVE  ToSet(<<r>>) = {r}
  BY DEF ToSet

-----------------------------------------------------------------------------
(* The operators on files and caches.                                      *)

LEMMA StampIsNew ==
  ASSUME used \subseteq Records, used # Records
  PROVE  Stamp \in Records \ used
<1>1. \E r \in Records \ used : TRUE
  OBVIOUS
<1>2. QED
  BY <1>1 DEF Stamp

FilesTyped ==
  /\ file \in [Records -> FileType] /\ order \in Seq(Records)
  /\ cache \in [Records -> EntryType] /\ index \in [Records -> EntryType]

LEMMA WriteEffect ==
  ASSUME FilesTyped, NEW r \in Records, NEW d \in Doc, Write(r, d)
  PROVE  /\ file' = [file EXCEPT ![r] = [is |-> "open", doc |-> d]]
         /\ order' \in Seq(Records) /\ ToSet(order') \subseteq ToSet(order) \cup {r}
         /\ Touch(r)
<1>1. /\ Without(order, r) \in Seq(Records)
      /\ ToSet(Without(order, r)) \subseteq ToSet(order)
  BY WithoutEffect DEF FilesTyped
<1>2. <<r>> \in Seq(Records) /\ ToSet(<<r>>) = {r}
  BY OneList
<1>3. QED
  BY <1>1, <1>2, ConcatEffect DEF Write

LEMMA EraseEffect ==
  ASSUME FilesTyped, NEW r \in Records, Erase(r)
  PROVE  /\ file' = [file EXCEPT ![r] = NoFile]
         /\ order' \in Seq(Records) /\ ToSet(order') \subseteq ToSet(order)
         /\ Touch(r)
  BY WithoutEffect DEF FilesTyped, Erase

LEMMA LoadedEffect ==
  ASSUME FilesTyped, NEW rs \in SUBSET Records, NEW out \in Evictions(rs)
  PROVE  /\ Loaded(rs, out) \in [Records -> EntryType]
         /\ out \subseteq Records \ rs
         /\ \A r \in Records : Loaded(rs, out)[r] \in {NoEntry, cache[r]}
                 \/ (file[r].is = "open" /\ Loaded(rs, out)[r] = [hit |-> TRUE, doc |-> file[r].doc])
         /\ \A r \in Records \ out : cache[r].hit => Loaded(rs, out)[r] = cache[r]
<1>1. out \subseteq Records \ rs
  BY DEF Evictions
<1>2. NoEntry \in EntryType
  BY VaultAssumption DEF NoEntry, EntryType, Blank, Doc
<1>3. QED
  BY <1>1, <1>2 DEF Loaded, Missed, FilesTyped, FileType, EntryType

-----------------------------------------------------------------------------
(* Type correctness.                                                       *)

Types ==
  /\ VaultTypeOK
  /\ aliased => ocr.at \in {"payload", "recognize", "dump"}

LEMMA TypedFiles == VaultTypeOK => FilesTyped
  BY DEF VaultTypeOK, FilesTyped

LEMMA NothingTyped ==
  /\ Blank \in Doc /\ New \in Doc /\ NoFile \in FileType /\ NoEntry \in EntryType
  /\ NoEntry.hit = FALSE /\ <<>> \in Seq(Records)
  /\ CaptureIdle \in CaptureType /\ OcrIdle \in OcrType /\ GuiIdle \in GuiType
  /\ SearchIdle \in [at : {"idle", "reading"}, todo : Seq(Records), stamps : SUBSET Records]
  /\ ImportIdle \in [at : {"idle", "record"}, rec : MaybeRecord]
  /\ CaptureIdle.at = "idle" /\ OcrIdle.at = "idle" /\ GuiIdle.at = "idle" /\ ImportIdle.at = "idle"
<1>1. Blank \in Doc /\ New \in Doc
  BY VaultAssumption DEF Blank, New, Doc
<1>2. <<>> \in Seq(Records)
  BY EmptySeq
<1>3. QED
  BY <1>1, <1>2 DEF NoFile, NoEntry, FileType, EntryType, CaptureIdle, CaptureType, OcrIdle,
    OcrType, GuiIdle, GuiType, SearchIdle, ImportIdle, MaybeRecord

LEMMA CountTypes ==
  ASSUME VaultTypeOK, Count
  PROVE  events' \in 0..MaxEvents
  BY VaultAssumption DEF VaultTypeOK, Count

(* What loads leave of the caches and of the sharing.                      *)
MemoryTyped ==
  /\ cache' \in [Records -> EntryType] /\ index' \in [Records -> EntryType]
  /\ aliased' \in BOOLEAN
  /\ aliased' => aliased /\ cache'[ocr.rec].hit

LEMMA LoadTypes ==
  ASSUME Types, NEW rs \in SUBSET Records, Load(rs)
  PROVE  MemoryTyped
<1>1. PICK o \in Evictions(rs) : /\ cache' = Loaded(rs, o)
                                /\ aliased' = (aliased /\ ocr.rec \notin o)
  BY DEF Load
<1>2. /\ Loaded(rs, o) \in [Records -> EntryType]
      /\ \A r \in Records \ o : cache[r].hit => Loaded(rs, o)[r] = cache[r]
  BY <1>1, TypedFiles, LoadedEffect DEF Types
<1>3. index' \in [Records -> EntryType]
  BY DEF Load, Types, VaultTypeOK
<1>4. QED
  BY <1>1, <1>2, <1>3 DEF Types, VaultTypeOK, MemoryTyped

LEMMA TouchTypes ==
  ASSUME Types, NEW r \in Records, Touch(r)
  PROVE  /\ MemoryTyped
         /\ search' \in [at : {"idle", "reading"}, todo : Seq(Records), stamps : SUBSET Records]
<1>1. cache' \in [Records -> EntryType] /\ index' \in [Records -> EntryType]
  BY NothingTyped DEF Touch, Types, VaultTypeOK
<1>2. aliased' \in BOOLEAN /\ (aliased' => aliased /\ cache'[ocr.rec].hit)
  BY DEF Touch, Types, VaultTypeOK
<1>3. QED
  BY <1>1, <1>2 DEF Touch, Types, VaultTypeOK, MemoryTyped

DiskTyped ==
  /\ file' \in [Records -> FileType] /\ order' \in Seq(Records)
  /\ search' \in [at : {"idle", "reading"}, todo : Seq(Records), stamps : SUBSET Records]

LEMMA WriteTypes ==
  ASSUME Types, NEW r \in Records, NEW d \in Doc, Write(r, d)
  PROVE  MemoryTyped /\ DiskTyped
<1>1. file' = [file EXCEPT ![r] = [is |-> "open", doc |-> d]] /\ order' \in Seq(Records) /\ Touch(r)
  BY TypedFiles, WriteEffect DEF Types
<1>2. file' \in [Records -> FileType]
  BY <1>1 DEF FileType, Types, VaultTypeOK
<1>3. QED
  BY <1>1, <1>2, TouchTypes DEF DiskTyped

LEMMA EraseTypes ==
  ASSUME Types, NEW r \in Records, Erase(r)
  PROVE  MemoryTyped /\ DiskTyped
<1>1. file' = [file EXCEPT ![r] = NoFile] /\ order' \in Seq(Records) /\ Touch(r)
  BY TypedFiles, EraseEffect DEF Types
<1>2. file' \in [Records -> FileType]
  BY <1>1, NothingTyped DEF Types, VaultTypeOK
<1>3. QED
  BY <1>1, <1>2, TouchTypes DEF DiskTyped

LEMMA LoadedOne ==
  ASSUME Types, NEW r \in Records, NEW o \in Evictions({r})
  PROVE  /\ Loaded({r}, o) \in [Records -> EntryType]
         /\ \A q \in Records \ o : cache[q].hit => Loaded({r}, o)[q] = cache[q]
         /\ file[r].is = "open" => Loaded({r}, o)[r] = [hit |-> TRUE, doc |-> Payload(r)]
<1>1. FilesTyped /\ {r} \in SUBSET Records
  BY TypedFiles DEF Types
<1>2. r \notin o
  BY <1>1, LoadedEffect
<1>3. file[r].is = "open" => Loaded({r}, o)[r] = [hit |-> TRUE, doc |-> Payload(r)]
  BY <1>1, <1>2 DEF Loaded, Missed, Payload, FilesTyped, EntryType
<1>4. QED
  BY <1>1, <1>3, LoadedEffect

LEMMA CaptureTypes ==
  ASSUME Types, CaptureStep
  PROVE  Types'
<1> USE DEF Types
<1>1. CASE CaptureBegin
  <2>1. ToSet(<<>>) = {} /\ (order # <<>> => Head(order) \in Records)
    BY EmptyList, HeadTailEffect DEF VaultTypeOK
  <2>2. MemoryTyped
    BY <1>1, <2>1, LoadTypes DEF CaptureBegin
  <2>3. Stamp \in Records
    BY <1>1, StampIsNew DEF CaptureBegin, VaultTypeOK
  <2>4. capture' \in CaptureType /\ capture'.rec \in Records /\ capture'.at = "image"
    BY <1>1, <2>3, EmptySeq DEF CaptureBegin, CaptureIdle, CaptureType, MaybeRecord
  <2>5. QED
    BY <1>1, <2>2, <2>3, <2>4, CountTypes DEF CaptureBegin, VaultTypeOK, MemoryTyped, disk
<1>2. CASE CaptureImage
  BY <1>2 DEF CaptureImage, VaultTypeOK, CaptureType, memory, history, MaybeRecord
<1>3. CASE CaptureRecord
  <2>1. MemoryTyped /\ DiskTyped
    BY <1>3, WriteTypes, NothingTyped DEF CaptureRecord, VaultTypeOK
  <2>2. QED
    BY <1>3, <2>1 DEF CaptureRecord, VaultTypeOK, CaptureType, MemoryTyped, DiskTyped, history
<1>4. CASE CaptureFails
  BY <1>4, NothingTyped, CountTypes DEF CaptureFails, VaultTypeOK, memory
<1>5. CASE PruneBegin
  <2>1. ToSet(order) \subseteq Records
    BY RangeOfSeq, RangeEquality, LenProperties DEF VaultTypeOK, ToSet
  <2>2. QED
    BY <1>5, <2>1 DEF PruneBegin, VaultTypeOK, CaptureType, disk, memory, history
<1>6. CASE PruneDrop
  <2>1. Head(capture.rest) \in Records
    BY <1>6, HeadTailEffect DEF PruneDrop, VaultTypeOK, CaptureType
  <2>2. MemoryTyped
    BY <1>6, <2>1, LoadTypes DEF PruneDrop
  <2>3. capture' \in CaptureType /\ capture'.at = "unlink" /\ capture'.rest # <<>>
        /\ capture'.rec = capture.rec
    BY <1>6 DEF PruneDrop, CaptureType, VaultTypeOK
  <2>4. QED
    BY <1>6, <2>1, <2>2, <2>3 DEF PruneDrop, VaultTypeOK, MemoryTyped
<1>7. CASE PruneUnlink
  <2>1. /\ Head(capture.rest) \in Records /\ Tail(capture.rest) \in Seq(Records)
    BY <1>7, HeadTailEffect DEF PruneUnlink, VaultTypeOK, CaptureType
  <2>2. MemoryTyped /\ DiskTyped
    BY <1>7, <2>1, EraseTypes DEF PruneUnlink
  <2>3. QED
    BY <1>7, <2>1, <2>2 DEF PruneUnlink, VaultTypeOK, CaptureType, MemoryTyped, DiskTyped, history
<1>8. CASE PruneKeep
  <2>1. Tail(capture.rest) \in Seq(Records)
    BY <1>8, HeadTailEffect DEF PruneKeep, VaultTypeOK, CaptureType
  <2>2. QED
    BY <1>8, <2>1 DEF PruneKeep, VaultTypeOK, CaptureType, disk, memory, history
<1>9. CASE PruneAborts
  BY <1>9, NothingTyped DEF PruneAborts, VaultTypeOK, disk, memory, history
<1>10. CASE Reference
  <2>1. ToSet(order) \subseteq Records
    BY RangeOfSeq, RangeEquality, LenProperties DEF VaultTypeOK, ToSet
  <2>2. MemoryTyped
    BY <1>10, <2>1, LoadTypes DEF Reference
  <2>3. capture' \in CaptureType /\ capture'.at = "sweep" /\ capture'.rec = capture.rec
    BY <1>10, EmptySeq DEF Reference, Referenced, CaptureIdle, CaptureType, VaultTypeOK
  <2>4. QED
    BY <1>10, <2>2, <2>3 DEF Reference, VaultTypeOK, MemoryTyped, disk
<1>11. CASE Sweep
  BY <1>11, NothingTyped DEF Sweep, VaultTypeOK, memory, history
<1>12. QED
  BY <1>1, <1>2, <1>3, <1>4, <1>5, <1>6, <1>7, <1>8, <1>9, <1>10, <1>11 DEF CaptureStep

LEMMA OcrTypes ==
  ASSUME Types, OcrStep
  PROVE  Types'
<1> USE DEF Types
<1>1. ASSUME NEW r \in Records, OcrBegin(r)
      PROVE  Types'
  <2>1. PICK o \in Evictions({r}) : cache' = Loaded({r}, o)
    BY <1>1 DEF OcrBegin
  <2>2. Payload(r) \in Doc
    BY DEF Payload, VaultTypeOK, FileType, EntryType
  <2>3. ocr' \in OcrType /\ ocr'.at = "payload" /\ ocr'.rec = r
    BY <1>1, <2>2 DEF OcrBegin, OcrIdle, OcrType, MaybeRecord
  <2>4. cache' \in [Records -> EntryType]
    BY <2>1, LoadedOne
  <2>5. cache'[r].hit
    <3>1. file[r].is = "open"
      BY <1>1 DEF OcrBegin
    <3>2. Loaded({r}, o)[r] = [hit |-> TRUE, doc |-> Payload(r)]
      BY <3>1, LoadedOne
    <3>3. QED
      BY <2>1, <3>2
  <2>6. aliased' = TRUE /\ events' \in 0..MaxEvents
    BY <1>1, CountTypes DEF OcrBegin
  <2>7. UNCHANGED <<disk, index, search, capture, gui, import, used, notes, failed, removed, doomed>>
    BY <1>1 DEF OcrBegin
  <2>8. QED
    BY <2>3, <2>4, <2>5, <2>6, <2>7 DEF VaultTypeOK, disk
<1>2. CASE OcrPreview
  <2>1. MemoryTyped
    BY <1>2, LoadTypes DEF OcrPreview, VaultTypeOK
  <2>2. QED
    BY <1>2, <2>1 DEF OcrPreview, VaultTypeOK, OcrType, MemoryTyped, disk, history
<1>3. CASE OcrRecognize
  <2>1. ocr' \in OcrType /\ ocr'.at = "dump" /\ ocr'.rec = ocr.rec
    BY <1>3 DEF OcrRecognize, VaultTypeOK, OcrType, Doc
  <2>2. cache' \in [Records -> EntryType] /\ \A r \in Records : cache'[r].hit = cache[r].hit
    <3> DEFINE o == IF ocr.found THEN "again" ELSE ocr.doc.ocr
    <3>1. ocr.rec \in Records /\ o \in {"first", "again", "none"}
      BY <1>3 DEF OcrRecognize, VaultTypeOK, OcrType, Doc
    <3>2. [cache EXCEPT ![ocr.rec].doc.ocr = o] \in [Records -> EntryType]
      <4> HIDE DEF o
      <4>1. cache[ocr.rec] \in EntryType
        BY <3>1 DEF VaultTypeOK
      <4>2. [cache[ocr.rec].doc EXCEPT !.ocr = o] \in Doc
        BY <3>1, <4>1 DEF EntryType, Doc
      <4>3. [cache[ocr.rec] EXCEPT !.doc = [cache[ocr.rec].doc EXCEPT !.ocr = o]] \in EntryType
        BY <4>1, <4>2 DEF EntryType
      <4>4. QED
        BY <3>1, <4>3 DEF VaultTypeOK
    <3>3. cache' = cache \/ cache' = [cache EXCEPT ![ocr.rec].doc.ocr = o]
      BY <1>3 DEF OcrRecognize
    <3> HIDE DEF o
    <3>4. cache \in [Records -> EntryType]
      BY DEF VaultTypeOK
    <3>5. CASE cache' = cache
      BY <3>4, <3>5
    <3>6. CASE cache' = [cache EXCEPT ![ocr.rec].doc.ocr = o]
      <4>1. \A r \in Records : cache'[r].hit = cache[r].hit
        BY <3>1, <3>4, <3>6 DEF EntryType
      <4>2. QED
        BY <3>2, <3>6, <4>1
    <3>7. QED
      BY <3>3, <3>5, <3>6
  <2>3. QED
    BY <1>3, <2>1, <2>2 DEF OcrRecognize, VaultTypeOK, disk, history
<1>4. CASE OcrSkip
  BY <1>4 DEF OcrSkip, VaultTypeOK, OcrType, disk, memory, history
<1>5. CASE OcrDump
  BY <1>5 DEF OcrDump, VaultTypeOK, OcrType, disk, history
<1>6. CASE OcrWrite
  <2>1. ocr.rec \in Records /\ ocr.doc \in Doc
    BY <1>6 DEF OcrWrite, VaultTypeOK, OcrType
  <2>2. MemoryTyped /\ DiskTyped
    BY <1>6, <2>1, WriteTypes DEF OcrWrite
  <2>3. ocr' \in OcrType /\ ocr'.at = "report" /\ ocr'.rec = ocr.rec /\ ~aliased'
    BY <1>6, <2>2 DEF OcrWrite, VaultTypeOK, OcrType, MemoryTyped
  <2>4. QED
    BY <1>6, <2>1, <2>2, <2>3 DEF OcrWrite, VaultTypeOK, MemoryTyped, DiskTyped, history
<1>7. CASE OcrFails
  <2>1. ocr.rec \in Records /\ events' \in 0..MaxEvents
    BY <1>7, CountTypes DEF OcrFails, VaultTypeOK
  <2>2. QED
    BY <1>7, <2>1, NothingTyped DEF OcrFails, VaultTypeOK, disk
<1>8. CASE OcrReport
  <2>1. MemoryTyped
    BY <1>8, LoadTypes DEF OcrReport, VaultTypeOK
  <2>2. QED
    BY <1>8, <2>1, NothingTyped DEF OcrReport, VaultTypeOK, MemoryTyped, disk, history
<1>9. QED
  BY <1>1, <1>2, <1>3, <1>4, <1>5, <1>6, <1>7, <1>8 DEF OcrStep

LEMMA GuiTypes ==
  ASSUME Types, GuiStep
  PROVE  Types'
<1> USE DEF Types
<1>1. ASSUME NEW r \in Records, Annotate(r)
      PROVE  Types'
  <2> DEFINE d == [Payload(r) EXCEPT !.note = notes + 1]
  <2>1. PICK o \in Evictions({r}) : /\ cache' = [Loaded({r}, o) EXCEPT ![r].doc = d]
                                   /\ aliased' = (aliased /\ ocr.rec \notin o)
    BY <1>1 DEF Annotate
  <2>2. d \in Doc /\ notes + 1 \in 0..MaxNotes
    <3>1. Payload(r) \in Doc
      BY DEF Payload, VaultTypeOK, FileType, EntryType
    <3>2. notes + 1 \in 0..MaxNotes
      BY <1>1, VaultAssumption DEF Annotate, VaultTypeOK
    <3>3. QED
      BY <3>1, <3>2 DEF Doc
  <2>3. /\ Loaded({r}, o) \in [Records -> EntryType]
        /\ \A q \in Records \ o : cache[q].hit => Loaded({r}, o)[q] = cache[q]
    BY <2>1, LoadedOne
  <2>4. /\ cache' \in [Records -> EntryType]
        /\ \A q \in Records : cache'[q].hit = Loaded({r}, o)[q].hit
    BY <2>1, <2>2, <2>3 DEF EntryType
  <2>5. /\ ocr' \in OcrType /\ ocr'.at = ocr.at /\ ocr'.rec = ocr.rec
    BY <1>1, <2>2 DEF Annotate, VaultTypeOK, OcrType, Doc
  <2>6. gui' \in GuiType /\ gui'.rest # <<>> /\ gui'.at = "note"
    <3>1. <<r>> \in Seq(Records) /\ <<r>> # <<>>
      OBVIOUS
    <3>2. gui' = [GuiIdle EXCEPT !.at = "note", !.rest = <<r>>, !.doc = d]
      BY <1>1 DEF Annotate
    <3>3. QED
      BY <2>2, <3>1, <3>2 DEF GuiIdle, GuiType
  <2> HIDE DEF d
  <2>7. notes' = notes + 1 /\ events' \in 0..MaxEvents
    BY <1>1, CountTypes DEF Annotate
  <2>8. UNCHANGED <<disk, index, search, capture, import, used, failed, removed, doomed>>
    BY <1>1 DEF Annotate
  <2>9. aliased' \in BOOLEAN /\ (aliased' => aliased /\ cache'[ocr.rec].hit)
    BY <2>1, <2>3, <2>4 DEF VaultTypeOK
  <2>10. QED
    BY <2>2, <2>4, <2>5, <2>6, <2>7, <2>8, <2>9 DEF VaultTypeOK, disk
<1>2. CASE AnnotateWrite
  <2>1. Head(gui.rest) \in Records /\ gui.doc \in Doc
    BY <1>2, HeadTailEffect DEF AnnotateWrite, VaultTypeOK, GuiType
  <2>2. MemoryTyped /\ DiskTyped
    BY <1>2, <2>1, WriteTypes DEF AnnotateWrite
  <2>3. QED
    BY <1>2, <2>2, NothingTyped DEF AnnotateWrite, VaultTypeOK, MemoryTyped, DiskTyped, history
<1>3. CASE AnnotateFails
  <2>1. Head(gui.rest) \in Records
    BY <1>3, HeadTailEffect DEF AnnotateFails, VaultTypeOK, GuiType
  <2>2. QED
    BY <1>3, <2>1, NothingTyped, CountTypes DEF AnnotateFails, VaultTypeOK, disk, memory
<1>4. ASSUME NEW rs \in SUBSET ToSet(order), DeleteBegin(rs)
      PROVE  Types'
  <2>1. ToSet(order) \subseteq Records
    BY RangeOfSeq, RangeEquality, LenProperties DEF VaultTypeOK, ToSet
  <2>2. gui' \in GuiType /\ gui'.at = "delete"
    <3>1. gui' = [GuiIdle EXCEPT !.at = "delete", !.rest = order, !.chosen = rs]
      BY <1>4 DEF DeleteBegin
    <3>2. rs \in SUBSET Records
      BY <2>1
    <3>3. QED
      BY <3>1, <3>2, NothingTyped DEF GuiType, VaultTypeOK
  <2>3. QED
    BY <1>4, <2>2, CountTypes DEF DeleteBegin, VaultTypeOK, disk, memory
<1>5. CASE DeleteImage
  <2>1. Head(gui.rest) \in Records /\ Tail(gui.rest) \in Seq(Records)
    BY <1>5, HeadTailEffect DEF DeleteImage, VaultTypeOK, GuiType
  <2>2. MemoryTyped
    BY <1>5, <2>1, LoadTypes DEF DeleteImage
  <2>3. gui' \in GuiType /\ (gui'.at \in {"note", "unlink"} => gui'.rest # <<>>)
        /\ images' \subseteq Records /\ doomed' \subseteq Records
    BY <1>5, <2>1 DEF DeleteImage, VaultTypeOK, GuiType
  <2>4. QED
    BY <1>5, <2>2, <2>3 DEF DeleteImage, VaultTypeOK, MemoryTyped
<1>6. CASE DeleteRecord
  <2>1. Head(gui.rest) \in Records /\ Tail(gui.rest) \in Seq(Records)
    BY <1>6, HeadTailEffect DEF DeleteRecord, VaultTypeOK, GuiType
  <2>2. MemoryTyped /\ DiskTyped
    BY <1>6, <2>1, EraseTypes DEF DeleteRecord
  <2>3. QED
    BY <1>6, <2>1, <2>2 DEF DeleteRecord, VaultTypeOK, GuiType, MemoryTyped, DiskTyped
<1>7. CASE DeleteEnd
  BY <1>7, NothingTyped DEF DeleteEnd, VaultTypeOK, disk
<1>8. QED
  BY <1>1, <1>2, <1>3, <1>4, <1>5, <1>6, <1>7 DEF GuiStep

LEMMA SearchTypes ==
  ASSUME Types, SearchStep
  PROVE  Types'
<1> USE DEF Types
<1>1. CASE SearchBegin
  <2>1. ToSet(order) \subseteq Records
    BY RangeOfSeq, RangeEquality, LenProperties DEF VaultTypeOK, ToSet
  <2>2. QED
    BY <1>1, <2>1, CountTypes DEF SearchBegin, VaultTypeOK, disk, memory
<1>2. CASE SearchRead
  <2> DEFINE r == Head(search.todo)
  <2>1. r \in Records /\ Tail(search.todo) \in Seq(Records)
    BY <1>2, HeadTailEffect DEF SearchRead, VaultTypeOK
  <2>2. search' \in [at : {"idle", "reading"}, todo : Seq(Records), stamps : SUBSET Records]
    BY <1>2, <2>1 DEF SearchRead, VaultTypeOK
  <2>3. MemoryTyped
    <3>1. CASE UNCHANGED memory
      BY <3>1 DEF memory, MemoryTyped, VaultTypeOK
    <3>2. CASE ~UNCHANGED memory
      <4>1. PICK o \in Evictions({r}) : /\ cache' = Loaded({r}, o)
                                       /\ aliased' = (aliased /\ ocr.rec \notin o)
        BY <1>2, <3>2 DEF SearchRead
      <4>2. index' = [index EXCEPT ![r] = IF r \in search.stamps
                                         THEN [hit |-> TRUE, doc |-> Payload(r)] ELSE NoEntry]
        BY <1>2, <3>2 DEF SearchRead
      <4>3. Payload(r) \in Doc
        BY <2>1 DEF Payload, VaultTypeOK, FileType, EntryType
      <4>4. index' \in [Records -> EntryType]
        BY <2>1, <4>2, <4>3, NothingTyped DEF VaultTypeOK, EntryType
      <4> HIDE DEF r
      <4>5. /\ cache' \in [Records -> EntryType] /\ aliased' \in BOOLEAN
            /\ (aliased' => aliased /\ cache'[ocr.rec].hit)
        <5>1. /\ Loaded({r}, o) \in [Records -> EntryType]
              /\ \A q \in Records \ o : cache[q].hit => Loaded({r}, o)[q] = cache[q]
          BY <2>1, LoadedOne
        <5>2. QED
          BY <4>1, <5>1 DEF VaultTypeOK
      <4>6. QED
        BY <4>4, <4>5 DEF MemoryTyped
    <3>3. QED
      BY <3>1, <3>2
  <2>4. QED
    BY <1>2, <2>2, <2>3 DEF SearchRead, VaultTypeOK, MemoryTyped, disk, history
<1>3. CASE SearchEnd
  BY <1>3, NothingTyped DEF SearchEnd, VaultTypeOK, disk, memory, history
<1>4. QED
  BY <1>1, <1>2, <1>3 DEF SearchStep

LEMMA ImportTypes ==
  ASSUME Types, ImportStep
  PROVE  Types'
<1> USE DEF Types
<1>1. CASE ImportImage
  <2>1. Stamp \in Records /\ Swept(Stamp) \subseteq {Stamp} /\ events' \in 0..MaxEvents
    BY <1>1, StampIsNew, CountTypes DEF ImportImage, VaultTypeOK, Swept
  <2>2. QED
    BY <1>1, <2>1 DEF ImportImage, VaultTypeOK, MaybeRecord, memory
<1>2. CASE ImportRecord
  <2>1. MemoryTyped /\ DiskTyped
    BY <1>2, WriteTypes, NothingTyped DEF ImportRecord, VaultTypeOK
  <2>2. QED
    BY <1>2, <2>1, NothingTyped DEF ImportRecord, VaultTypeOK, MemoryTyped, DiskTyped, history
<1>3. CASE ImportFails
  BY <1>3, NothingTyped, CountTypes DEF ImportFails, VaultTypeOK, memory
<1>4. QED
  BY <1>1, <1>2, <1>3 DEF ImportStep

LEMMA TypesHold ==
  ASSUME Types, [Next]_vars
  PROVE  Types'
<1>1. CASE Crash
  BY <1>1, NothingTyped, CountTypes DEF Crash, Types, VaultTypeOK, disk
<1>2. CASE UNCHANGED vars
  BY <1>2 DEF vars, disk, memory, history, Types, VaultTypeOK
<1>3. QED
  BY <1>1, <1>2, CaptureTypes, OcrTypes, GuiTypes, SearchTypes, ImportTypes DEF Next

LEMMA InitTypes == Init => Types
<1> SUFFICES ASSUME Init PROVE Types
  OBVIOUS
<1>1. order \in Seq(Records)
  <2>1. IsFiniteSet(Stored \cup Legacy) /\ Stored \cup Legacy \subseteq Records
    BY VaultAssumption, FS_Subset
  <2>2. Cardinality(Stored \cup Legacy) \in Nat
    BY <2>1, FS_CardinalityType
  <2>3. order \in [1..Cardinality(Stored \cup Legacy) -> Records]
    BY <2>1 DEF Init
  <2>4. QED
    BY <2>2, <2>3, SeqDef
<1>2. file \in [Records -> FileType]
  BY NothingTyped DEF Init, FileType, NoFile
<1>3. cache \in [Records -> EntryType] /\ index \in [Records -> EntryType]
  BY NothingTyped DEF Init
<1>4. images \subseteq Records /\ used \subseteq Records /\ notes \in 0..MaxNotes /\ events \in 0..MaxEvents
  BY VaultAssumption DEF Init
<1>5. capture = CaptureIdle /\ ocr = OcrIdle /\ gui = GuiIdle /\ search = SearchIdle /\ import = ImportIdle
      /\ ~aliased /\ aliased \in BOOLEAN /\ failed = {} /\ removed = {} /\ doomed = {}
  BY DEF Init
<1>6. QED
  BY <1>1, <1>2, <1>3, <1>4, <1>5, NothingTyped DEF Types, VaultTypeOK

-----------------------------------------------------------------------------
(* Stamps.                                                                 *)

LEMMA ListedAreRecords ==
  ASSUME NEW s \in Seq(Records)
  PROVE  ToSet(s) \subseteq Records
  BY RangeOfSeq, RangeEquality, LenProperties DEF ToSet

(* A step that makes nothing new known or pending.                         *)
LEMMA NothingNew ==
  ASSUME StampsAreUnique, used \subseteq used',
         capture'.at \in {"image", "record"} =>
           capture.at \in {"image", "record"} /\ capture'.rec = capture.rec,
         import'.at = "record" => import.at = "record" /\ import'.rec = import.rec,
         \A r \in Records : Known(r)' => Known(r),
         \A r \in Records : file'[r].is = "sealed" => file[r].is = "sealed"
  PROVE  StampsAreUnique'
  BY DEF StampsAreUnique, Pending

LEMMA CaptureNames ==
  ASSUME Types, StampsAreUnique, CaptureStep
  PROVE  StampsAreUnique'
<1>1. CASE CaptureBegin
  <2>1. Stamp \in Records \ used
    BY <1>1, StampIsNew DEF CaptureBegin, Types, VaultTypeOK
  <2>2. capture'.at = "image" /\ capture'.rec = Stamp /\ used' = used \cup {Stamp}
        /\ UNCHANGED <<disk, ocr, gui, import, removed>>
    BY <1>1 DEF CaptureBegin, CaptureIdle
  <2>3. \A r \in Records : (Known(r)' => Known(r)) /\ (Pending(r)' => Pending(r) \/ r = Stamp)
    BY <2>2 DEF Known, Pending, disk
  <2>4. import.at = "record" => import.rec \in used
    BY DEF Types, VaultTypeOK, StampsAreUnique, Pending
  <2>5. QED
    BY <2>1, <2>2, <2>3, <2>4 DEF StampsAreUnique, disk
<1>2. CASE CaptureImage
  <2>1. capture.at = "image" /\ capture'.at = "record" /\ capture'.rec = capture.rec
    BY <1>2 DEF CaptureImage, Types, VaultTypeOK, CaptureType
  <2>2. QED
    BY <1>2, <2>1, NothingNew DEF CaptureImage, Known, history
<1>3. CASE CaptureRecord
  <2> DEFINE c == capture.rec
  <2>1. c \in Records /\ Pending(c) /\ New \in Doc /\ (import.at = "record" => import.rec # c)
    BY <1>3, NothingTyped DEF CaptureRecord, Types, VaultTypeOK, Pending, StampsAreUnique
  <2>2. /\ file' = [file EXCEPT ![c] = [is |-> "open", doc |-> New]]
        /\ ToSet(order') \subseteq ToSet(order) \cup {c}
    BY <1>3, <2>1, TypedFiles, WriteEffect DEF CaptureRecord, Types
  <2>3. capture'.at = "list" /\ UNCHANGED <<ocr, gui, import, used, removed>>
    BY <1>3 DEF CaptureRecord, Types, VaultTypeOK, CaptureType, history
  <2>4. \A r \in Records : r # c => file'[r] = file[r]
    BY <2>2 DEF Types, VaultTypeOK
  <2>5. file'[c].is = "open"
    BY <2>1, <2>2 DEF Types, VaultTypeOK
  <2>6. \A r \in Records : (Known(r)' => Known(r) \/ r = c) /\ (Pending(r)' => Pending(r) /\ r # c)
    BY <2>1, <2>2, <2>3, <2>4 DEF Known, Pending
  <2>7. QED
    BY <2>1, <2>3, <2>4, <2>5, <2>6 DEF StampsAreUnique
<1>4. CASE CaptureFails
  BY <1>4, NothingNew DEF CaptureFails, CaptureIdle, Known
<1>5. CASE PruneBegin
  BY <1>5, NothingNew DEF PruneBegin, Known, disk, history, Types, VaultTypeOK, CaptureType
<1>6. CASE PruneDrop
  BY <1>6, NothingNew DEF PruneDrop, Known, Types, VaultTypeOK, CaptureType
<1>7. CASE PruneUnlink
  <2> DEFINE h == Head(capture.rest)
  <2>1. h \in Records /\ capture'.at = "prune"
    BY <1>7, HeadTailEffect DEF PruneUnlink, Types, VaultTypeOK, CaptureType
  <2>2. file' = [file EXCEPT ![h] = NoFile] /\ ToSet(order') \subseteq ToSet(order)
    BY <1>7, <2>1, TypedFiles, EraseEffect DEF PruneUnlink, Types
  <2>3. \A r \in Records : file'[r].is = "none" \/ file'[r] = file[r]
    BY <2>1, <2>2 DEF Types, VaultTypeOK, NoFile
  <2>4. QED
    BY <1>7, <2>1, <2>2, <2>3, NothingNew DEF PruneUnlink, Known, history
<1>8. CASE PruneKeep
  BY <1>8, NothingNew DEF PruneKeep, Known, disk, history, Types, VaultTypeOK, CaptureType
<1>9. CASE PruneAborts
  BY <1>9, NothingNew DEF PruneAborts, CaptureIdle, Known, disk, history
<1>10. CASE Reference
  BY <1>10, NothingNew DEF Reference, CaptureIdle, Known, disk
<1>11. CASE Sweep
  BY <1>11, NothingNew DEF Sweep, CaptureIdle, Known, history
<1>12. QED
  BY <1>1, <1>2, <1>3, <1>4, <1>5, <1>6, <1>7, <1>8, <1>9, <1>10, <1>11 DEF CaptureStep

LEMMA OcrNames ==
  ASSUME Types, StampsAreUnique, OcrStep
  PROVE  StampsAreUnique'
<1>1. ASSUME NEW r \in Records, OcrBegin(r)
      PROVE  StampsAreUnique'
  <2>1. ocr'.rec = r /\ file[r].is = "open"
    BY <1>1 DEF OcrBegin, OcrIdle
  <2>2. QED
    BY <1>1, <2>1, NothingNew DEF OcrBegin, Known, disk
<1>2. CASE OcrPreview
  BY <1>2, NothingNew DEF OcrPreview, Known, disk, history, Types, VaultTypeOK, OcrType
<1>3. CASE OcrRecognize
  BY <1>3, NothingNew DEF OcrRecognize, Known, disk, history, Types, VaultTypeOK, OcrType
<1>4. CASE OcrSkip
  BY <1>4, NothingNew DEF OcrSkip, Known, disk, history, Types, VaultTypeOK, OcrType
<1>5. CASE OcrDump
  BY <1>5, NothingNew DEF OcrDump, Known, disk, history, Types, VaultTypeOK, OcrType
<1>6. CASE OcrWrite
  <2> DEFINE c == ocr.rec
  <2>1. c \in Records /\ ocr.doc \in Doc /\ Known(c) /\ ocr'.at # "idle" /\ ocr'.rec = c
    BY <1>6 DEF OcrWrite, Types, VaultTypeOK, OcrType, Known
  <2>2. /\ file' = [file EXCEPT ![c] = [is |-> "open", doc |-> ocr.doc]]
        /\ ToSet(order') \subseteq ToSet(order) \cup {c}
    BY <1>6, <2>1, TypedFiles, WriteEffect DEF OcrWrite, Types
  <2>3. \A r \in Records : IF r = c THEN file'[r].is = "open" ELSE file'[r] = file[r]
    BY <2>1, <2>2 DEF Types, VaultTypeOK
  <2>4. \A r \in Records : Known(r)' => Known(r)
    BY <1>6, <2>1, <2>2, <2>3 DEF OcrWrite, Known, history
  <2>5. QED
    BY <1>6, <2>3, <2>4, NothingNew DEF OcrWrite, history
<1>7. CASE OcrFails
  BY <1>7, NothingNew DEF OcrFails, OcrIdle, Known, disk
<1>8. CASE OcrReport
  BY <1>8, NothingNew DEF OcrReport, OcrIdle, Known, disk, history
<1>9. QED
  BY <1>1, <1>2, <1>3, <1>4, <1>5, <1>6, <1>7, <1>8 DEF OcrStep

LEMMA GuiNames ==
  ASSUME Types, StampsAreUnique, GuiStep
  PROVE  StampsAreUnique'
<1>0. ToSet(GuiIdle.rest) = {}
  BY EmptyList DEF GuiIdle
<1>1. ASSUME NEW r \in Records, Annotate(r)
      PROVE  StampsAreUnique'
  <2>1. ToSet(gui'.rest) = {r} /\ file[r].is = "open"
    BY <1>1, OneList DEF Annotate, GuiIdle
  <2>2. ocr'.at = ocr.at /\ ocr'.rec = ocr.rec
    BY <1>1 DEF Annotate, Types, VaultTypeOK, OcrType
  <2>3. QED
    BY <1>1, <2>1, <2>2, NothingNew DEF Annotate, Known, disk
<1>2. CASE AnnotateWrite
  <2> DEFINE c == Head(gui.rest)
  <2>1. c \in Records /\ gui.doc \in Doc /\ Known(c)
    BY <1>2, HeadTailEffect DEF AnnotateWrite, Types, VaultTypeOK, GuiType, Known
  <2>2. /\ file' = [file EXCEPT ![c] = [is |-> "open", doc |-> gui.doc]]
        /\ ToSet(order') \subseteq ToSet(order) \cup {c}
    BY <1>2, <2>1, TypedFiles, WriteEffect DEF AnnotateWrite, Types
  <2>3. \A r \in Records : IF r = c THEN file'[r].is = "open" ELSE file'[r] = file[r]
    BY <2>1, <2>2 DEF Types, VaultTypeOK
  <2>4. \A r \in Records : Known(r)' => Known(r)
    BY <1>0, <1>2, <2>1, <2>2, <2>3 DEF AnnotateWrite, Known, history
  <2>5. QED
    BY <1>2, <2>3, <2>4, NothingNew DEF AnnotateWrite, history
<1>3. CASE AnnotateFails
  BY <1>0, <1>3, NothingNew DEF AnnotateFails, Known, disk
<1>4. ASSUME NEW rs \in SUBSET ToSet(order), DeleteBegin(rs)
      PROVE  StampsAreUnique'
  <2>1. gui'.rest = order
    BY <1>4 DEF DeleteBegin, GuiIdle
  <2>2. QED
    BY <1>4, <2>1, NothingNew DEF DeleteBegin, Known, disk
<1>5. CASE DeleteImage
  <2>1. ToSet(gui'.rest) \subseteq ToSet(gui.rest)
    <3>1. gui'.rest \in {gui.rest, Tail(gui.rest)}
      BY <1>5 DEF DeleteImage, Types, VaultTypeOK, GuiType
    <3>2. QED
      BY <1>5, <3>1, HeadTailEffect DEF DeleteImage, Types, VaultTypeOK, GuiType
  <2>2. QED
    BY <1>5, <2>1, NothingNew DEF DeleteImage, Known
<1>6. CASE DeleteRecord
  <2> DEFINE h == Head(gui.rest)
  <2>1. h \in Records /\ h \in ToSet(gui.rest) /\ ToSet(gui'.rest) \subseteq ToSet(gui.rest)
    BY <1>6, HeadTailEffect DEF DeleteRecord, Types, VaultTypeOK, GuiType
  <2>2. file' = [file EXCEPT ![h] = NoFile] /\ ToSet(order') \subseteq ToSet(order)
    BY <1>6, <2>1, TypedFiles, EraseEffect DEF DeleteRecord, Types
  <2>3. \A r \in Records : file'[r].is = "none" \/ file'[r] = file[r]
    BY <2>1, <2>2 DEF Types, VaultTypeOK, NoFile
  <2>4. QED
    BY <1>6, <2>1, <2>2, <2>3, NothingNew DEF DeleteRecord, Known
<1>7. CASE DeleteEnd
  BY <1>0, <1>7, NothingNew DEF DeleteEnd, Known, disk
<1>8. QED
  BY <1>1, <1>2, <1>3, <1>4, <1>5, <1>6, <1>7 DEF GuiStep

LEMMA ImportNames ==
  ASSUME Types, StampsAreUnique, ImportStep
  PROVE  StampsAreUnique'
<1>1. CASE ImportImage
  <2>1. Stamp \in Records \ used
    BY <1>1, StampIsNew DEF ImportImage, Types, VaultTypeOK
  <2>2. import'.at = "record" /\ import'.rec = Stamp /\ used' = used \cup {Stamp}
        /\ UNCHANGED <<file, order, ocr, gui, capture, removed>>
    BY <1>1 DEF ImportImage
  <2>3. \A r \in Records : (Known(r)' <=> Known(r)) /\ (Pending(r)' => Pending(r) \/ r = Stamp)
    BY <2>2 DEF Known, Pending
  <2>4. capture.at \in {"image", "record"} => capture.rec \in used
    BY DEF Types, VaultTypeOK, StampsAreUnique, Pending
  <2>5. QED
    BY <2>1, <2>2, <2>3, <2>4 DEF StampsAreUnique
<1>2. CASE ImportRecord
  <2> DEFINE c == import.rec
  <2>1. c \in Records /\ Pending(c) /\ New \in Doc
        /\ (capture.at \in {"image", "record"} => capture.rec # c)
    BY <1>2, NothingTyped DEF ImportRecord, Types, VaultTypeOK, Pending, StampsAreUnique
  <2>2. /\ file' = [file EXCEPT ![c] = [is |-> "open", doc |-> New]]
        /\ ToSet(order') \subseteq ToSet(order) \cup {c}
    BY <1>2, <2>1, TypedFiles, WriteEffect DEF ImportRecord, Types
  <2>3. import'.at = "idle" /\ UNCHANGED <<ocr, gui, capture, used, removed>>
    BY <1>2 DEF ImportRecord, ImportIdle, history
  <2>4. \A r \in Records : IF r = c THEN file'[r].is = "open" ELSE file'[r] = file[r]
    BY <2>1, <2>2 DEF Types, VaultTypeOK
  <2>5. \A r \in Records : (Known(r)' => Known(r) \/ r = c) /\ (Pending(r)' => Pending(r) /\ r # c)
    BY <2>1, <2>2, <2>3, <2>4 DEF Known, Pending
  <2>6. QED
    BY <2>1, <2>3, <2>4, <2>5 DEF StampsAreUnique
<1>3. CASE ImportFails
  BY <1>3, NothingNew DEF ImportFails, ImportIdle, Known
<1>4. QED
  BY <1>1, <1>2, <1>3 DEF ImportStep

LEMMA NamesHold ==
  ASSUME Types, StampsAreUnique, [Next]_vars
  PROVE  StampsAreUnique'
<1>1. CASE SearchStep
  BY <1>1, NothingNew DEF SearchStep, SearchBegin, SearchRead, SearchEnd, Known, disk, history
<1>2. CASE Crash
  <2>1. ToSet(GuiIdle.rest) = {}
    BY EmptyList DEF GuiIdle
  <2>2. QED
    BY <1>2, <2>1, NothingNew DEF Crash, CaptureIdle, OcrIdle, ImportIdle, Known, disk
<1>3. CASE UNCHANGED vars
  BY <1>3, NothingNew DEF vars, disk, history, Known
<1>4. QED
  BY <1>1, <1>2, <1>3, CaptureNames, OcrNames, GuiNames, ImportNames DEF Next

-----------------------------------------------------------------------------
(* Images and records.                                                     *)

LEMMA Written ==
  ASSUME Types, NEW r \in Records, NEW d \in Doc, Write(r, d)
  PROVE  /\ \A q \in Records : file'[q] = IF q = r THEN [is |-> "open", doc |-> d] ELSE file[q]
         /\ ToSet(order') \subseteq ToSet(order) \cup {r}
         /\ Touch(r)
  BY TypedFiles, WriteEffect DEF Types, VaultTypeOK

LEMMA Erased ==
  ASSUME Types, NEW r \in Records, Erase(r)
  PROVE  /\ \A q \in Records : file'[q] = IF q = r THEN NoFile ELSE file[q]
         /\ ToSet(order') \subseteq ToSet(order)
         /\ Touch(r)
  BY TypedFiles, EraseEffect DEF Types, VaultTypeOK

ImagesStay == ImagesKept /\ DoomedFirst /\ SweepSpares

LEMMA PendingHasNoFile ==
  ASSUME Types, StampsAreUnique, NEW r \in Records, Pending(r)
  PROVE  file[r].is = "none" /\ r \notin ToSet(order) \cup ToSet(gui.rest) \cup removed
  BY DEF StampsAreUnique, Known

LEMMA CaptureImages ==
  ASSUME Types, StampsAreUnique, ImagesStay, CaptureStep
  PROVE  ImagesStay'
<1> USE DEF ImagesStay
<1>1. CASE CaptureBegin
  BY <1>1 DEF CaptureBegin, CaptureIdle, ImagesKept, DoomedFirst, SweepSpares, disk
<1>2. CASE CaptureImage
  <2>1. capture'.at = "record" /\ capture'.rec = capture.rec
    BY <1>2 DEF CaptureImage, Types, VaultTypeOK, CaptureType
  <2>2. QED
    BY <1>2, <2>1 DEF CaptureImage, ImagesKept, DoomedFirst, SweepSpares, history
<1>3. CASE CaptureRecord
  <2>1. capture.rec \in Records /\ capture'.at = "list" /\ capture.rec \in images
    BY <1>3 DEF CaptureRecord, Types, VaultTypeOK, CaptureType, DoomedFirst
  <2>2. \A q \in Records : file'[q] = IF q = capture.rec THEN [is |-> "open", doc |-> New] ELSE file[q]
    BY <1>3, <2>1, NothingTyped, Written DEF CaptureRecord
  <2>3. (gui.at = "note" => Head(gui.rest) \in Records) /\ (ocr.at # "idle" => ocr.rec \in Records)
    BY HeadTailEffect DEF Types, VaultTypeOK, GuiType
  <2>4. QED
    BY <1>3, <2>1, <2>2, <2>3 DEF CaptureRecord, ImagesKept, DoomedFirst, SweepSpares, history
<1>4. CASE CaptureFails
  <2>1. capture.rec \in Records /\ Pending(capture.rec)
    BY <1>4 DEF CaptureFails, Types, VaultTypeOK, Pending
  <2>2. file[capture.rec].is = "none" /\ (import.at = "record" => import.rec # capture.rec)
    BY <1>4, <2>1, PendingHasNoFile DEF StampsAreUnique, CaptureFails
  <2>3. QED
    BY <1>4, <2>2 DEF CaptureFails, CaptureIdle, ImagesKept, DoomedFirst, SweepSpares
<1>5. CASE PruneBegin
  BY <1>5 DEF PruneBegin, ImagesKept, DoomedFirst, SweepSpares, disk, history, Types, VaultTypeOK, CaptureType
<1>6. CASE PruneDrop
  <2> DEFINE h == Head(capture.rest)
  <2>1. capture'.at = "unlink" /\ Head(capture'.rest) = h /\ UNCHANGED <<file, gui, ocr, import>>
    BY <1>6 DEF PruneDrop, Types, VaultTypeOK, CaptureType
  <2>2. images \ {h} \subseteq images' /\ images' \subseteq images /\ doomed' = doomed \cup {h}
    BY <1>6 DEF PruneDrop, ImageOf
  <2> HIDE DEF h
  <2>3. QED
    BY <2>1, <2>2 DEF ImagesKept, DoomedFirst, SweepSpares
<1>7. CASE PruneUnlink
  <2> DEFINE h == Head(capture.rest)
  <2>1. h \in Records /\ h \in doomed /\ capture'.at = "prune"
    BY <1>7, HeadTailEffect DEF PruneUnlink, Types, VaultTypeOK, CaptureType, DoomedFirst
  <2>2. \A q \in Records : file'[q] = IF q = h THEN NoFile ELSE file[q]
    BY <1>7, <2>1, Erased DEF PruneUnlink
  <2>3. (gui.at = "note" => Head(gui.rest) \in Records) /\ (ocr.at # "idle" => ocr.rec \in Records)
    BY HeadTailEffect DEF Types, VaultTypeOK, GuiType
  <2>4. UNCHANGED <<images, gui, ocr, import, doomed>>
    BY <1>7 DEF PruneUnlink, history
  <2> HIDE DEF h
  <2>5. QED
    BY <2>1, <2>2, <2>3, <2>4 DEF ImagesKept, DoomedFirst, SweepSpares, NoFile
<1>8. CASE PruneKeep
  BY <1>8 DEF PruneKeep, ImagesKept, DoomedFirst, SweepSpares, disk, history, Types, VaultTypeOK, CaptureType
<1>9. CASE PruneAborts
  BY <1>9 DEF PruneAborts, CaptureIdle, ImagesKept, DoomedFirst, SweepSpares, disk, history
<1>10. CASE Reference
  <2>1. capture'.at = "sweep" /\ capture'.listed = Referenced
    BY <1>10 DEF Reference, CaptureIdle
  <2>2. QED
    BY <1>10, <2>1 DEF Reference, Referenced, ImagesKept, DoomedFirst, SweepSpares, disk
<1>11. CASE Sweep
  BY <1>11 DEF Sweep, CaptureIdle, ImagesKept, DoomedFirst, SweepSpares, history
<1>12. QED
  BY <1>1, <1>2, <1>3, <1>4, <1>5, <1>6, <1>7, <1>8, <1>9, <1>10, <1>11 DEF CaptureStep

LEMMA OcrImages ==
  ASSUME Types, ImagesStay, OcrStep
  PROVE  ImagesStay'
<1> USE DEF ImagesStay
<1>1. ASSUME NEW r \in Records, OcrBegin(r)
      PROVE  ImagesStay'
  <2>1. ocr'.rec = r /\ file[r].is = "open"
    BY <1>1 DEF OcrBegin, OcrIdle
  <2>2. QED
    BY <1>1, <2>1 DEF OcrBegin, ImagesKept, DoomedFirst, SweepSpares, disk
<1>2. CASE OcrWrite
  <2> DEFINE c == ocr.rec
  <2>1. c \in Records /\ ocr.doc \in Doc /\ ocr'.rec = c /\ (file[c].is = "open" \/ c \in doomed)
    BY <1>2 DEF OcrWrite, Types, VaultTypeOK, OcrType, DoomedFirst
  <2>2. \A q \in Records : file'[q] = IF q = c THEN [is |-> "open", doc |-> ocr.doc] ELSE file[q]
    BY <1>2, <2>1, Written DEF OcrWrite
  <2>3. gui.at = "note" => Head(gui.rest) \in Records
    BY HeadTailEffect DEF Types, VaultTypeOK, GuiType
  <2>4. UNCHANGED <<images, gui, capture, import, doomed>>
    BY <1>2 DEF OcrWrite, history
  <2> HIDE DEF c
  <2>5. QED
    BY <2>1, <2>2, <2>3, <2>4 DEF ImagesKept, DoomedFirst, SweepSpares
<1>3. CASE OcrFails \/ OcrReport
  BY <1>3 DEF OcrFails, OcrReport, OcrIdle, ImagesKept, DoomedFirst, SweepSpares, disk, history
<1>4. CASE OcrPreview \/ OcrRecognize \/ OcrSkip \/ OcrDump
  <2>1. ocr'.rec = ocr.rec /\ ocr.at # "idle" /\ UNCHANGED <<file, images, gui, capture, import, doomed>>
    BY <1>4 DEF OcrPreview, OcrRecognize, OcrSkip, OcrDump, disk, history, Types, VaultTypeOK, OcrType
  <2>2. QED
    BY <2>1 DEF ImagesKept, DoomedFirst, SweepSpares
<1>5. QED
  BY <1>1, <1>2, <1>3, <1>4 DEF OcrStep

LEMMA GuiImages ==
  ASSUME Types, StampsAreUnique, ImagesStay, GuiStep
  PROVE  ImagesStay'
<1> USE DEF ImagesStay
<1>1. ASSUME NEW r \in Records, Annotate(r)
      PROVE  ImagesStay'
  <2>1. gui'.at = "note" /\ Head(gui'.rest) = r /\ file[r].is = "open"
    BY <1>1 DEF Annotate, GuiIdle
  <2>2. ocr'.at = ocr.at /\ ocr'.rec = ocr.rec
    BY <1>1 DEF Annotate, Types, VaultTypeOK, OcrType
  <2>3. QED
    BY <1>1, <2>1, <2>2 DEF Annotate, ImagesKept, DoomedFirst, SweepSpares, disk
<1>2. CASE AnnotateWrite
  <2> DEFINE c == Head(gui.rest)
  <2>1. c \in Records /\ gui.doc \in Doc /\ (file[c].is = "open" \/ c \in doomed) /\ gui'.at = "idle"
    BY <1>2, HeadTailEffect DEF AnnotateWrite, Types, VaultTypeOK, GuiType, DoomedFirst, GuiIdle
  <2>2. \A q \in Records : file'[q] = IF q = c THEN [is |-> "open", doc |-> gui.doc] ELSE file[q]
    BY <1>2, <2>1, Written DEF AnnotateWrite
  <2>3. ocr.at # "idle" => ocr.rec \in Records
    BY DEF Types, VaultTypeOK
  <2>4. UNCHANGED <<images, ocr, capture, import, doomed>>
    BY <1>2 DEF AnnotateWrite, history
  <2> HIDE DEF c
  <2>5. QED
    BY <2>1, <2>2, <2>3, <2>4 DEF ImagesKept, DoomedFirst, SweepSpares
<1>3. CASE AnnotateFails \/ DeleteEnd
  BY <1>3 DEF AnnotateFails, DeleteEnd, GuiIdle, ImagesKept, DoomedFirst, SweepSpares, disk
<1>4. ASSUME NEW rs \in SUBSET ToSet(order), DeleteBegin(rs)
      PROVE  ImagesStay'
  BY <1>4 DEF DeleteBegin, GuiIdle, ImagesKept, DoomedFirst, SweepSpares, disk
<1>5. CASE DeleteImage
  <2> DEFINE h == Head(gui.rest)
  <2>1. UNCHANGED <<file, capture, ocr, import>>
    BY <1>5 DEF DeleteImage
  <2>2. CASE h \in gui.chosen
    <3>1. gui'.at = "unlink" /\ Head(gui'.rest) = h
      BY <1>5, <2>2 DEF DeleteImage, Types, VaultTypeOK, GuiType
    <3>2. images \ {h} \subseteq images' /\ doomed' = doomed \cup {h}
      BY <1>5, <2>2 DEF DeleteImage, ImageOf
    <3>3. capture.at = "record" => capture.rec # h
      <4>1. h \in Records /\ h \in ToSet(gui.rest)
        BY <1>5, HeadTailEffect DEF DeleteImage, Types, VaultTypeOK, GuiType
      <4>2. QED
        BY <4>1, PendingHasNoFile DEF Pending
    <3> HIDE DEF h
    <3>4. QED
      BY <2>1, <3>1, <3>2, <3>3 DEF ImagesKept, DoomedFirst, SweepSpares
  <2>3. CASE h \notin gui.chosen
    <3>1. gui'.at = "delete" /\ UNCHANGED <<images, doomed>>
      BY <1>5, <2>3 DEF DeleteImage, Types, VaultTypeOK, GuiType
    <3> HIDE DEF h
    <3>2. QED
      BY <2>1, <3>1 DEF ImagesKept, DoomedFirst, SweepSpares
  <2>4. QED
    BY <2>2, <2>3
<1>6. CASE DeleteRecord
  <2> DEFINE h == Head(gui.rest)
  <2>1. h \in Records /\ h \in doomed /\ gui'.at = "delete"
    BY <1>6, HeadTailEffect DEF DeleteRecord, Types, VaultTypeOK, GuiType, DoomedFirst
  <2>2. \A q \in Records : file'[q] = IF q = h THEN NoFile ELSE file[q]
    BY <1>6, <2>1, Erased DEF DeleteRecord
  <2>3. ocr.at # "idle" => ocr.rec \in Records
    BY DEF Types, VaultTypeOK
  <2>4. UNCHANGED <<images, ocr, capture, import, doomed>>
    BY <1>6 DEF DeleteRecord
  <2> HIDE DEF h
  <2>5. QED
    BY <2>1, <2>2, <2>3, <2>4 DEF ImagesKept, DoomedFirst, SweepSpares, NoFile
<1>7. QED
  BY <1>1, <1>2, <1>3, <1>4, <1>5, <1>6 DEF GuiStep

LEMMA ImportImages ==
  ASSUME Types, StampsAreUnique, ImagesStay, ImportStep
  PROVE  ImagesStay'
<1> USE DEF ImagesStay
<1>1. CASE ImportImage
  BY <1>1 DEF ImportImage, Swept, ImagesKept, DoomedFirst, SweepSpares
<1>2. CASE ImportRecord
  <2> DEFINE c == import.rec
  <2>1. c \in Records /\ c \in images \cup doomed /\ import'.at = "idle"
    BY <1>2 DEF ImportRecord, ImportIdle, Types, VaultTypeOK, DoomedFirst
  <2>2. \A q \in Records : file'[q] = IF q = c THEN [is |-> "open", doc |-> New] ELSE file[q]
    BY <1>2, <2>1, NothingTyped, Written DEF ImportRecord
  <2>3. (gui.at = "note" => Head(gui.rest) \in Records) /\ (ocr.at # "idle" => ocr.rec \in Records)
    BY HeadTailEffect DEF Types, VaultTypeOK, GuiType
  <2>4. UNCHANGED <<images, gui, ocr, capture, doomed>> /\ (capture.at = "sweep" => c \in doomed)
    BY <1>2 DEF ImportRecord, history, SweepSpares
  <2> HIDE DEF c
  <2>5. QED
    BY <2>1, <2>2, <2>3, <2>4 DEF ImagesKept, DoomedFirst, SweepSpares
<1>3. CASE ImportFails
  <2>1. import.rec \in Records /\ Pending(import.rec)
    BY <1>3 DEF ImportFails, Types, VaultTypeOK, Pending
  <2>2. file[import.rec].is = "none" /\ (capture.at = "record" => import.rec # capture.rec)
    BY <1>3, <2>1, PendingHasNoFile DEF StampsAreUnique, ImportFails
  <2>3. QED
    BY <1>3, <2>2 DEF ImportFails, ImportIdle, ImagesKept, DoomedFirst, SweepSpares
<1>4. QED
  BY <1>1, <1>2, <1>3 DEF ImportStep

LEMMA ImagesHold ==
  ASSUME Types, StampsAreUnique, ImagesStay, [Next]_vars
  PROVE  ImagesStay'
<1>1. CASE SearchStep
  BY <1>1 DEF SearchStep, SearchBegin, SearchRead, SearchEnd, ImagesStay, ImagesKept, DoomedFirst,
    SweepSpares, disk, history
<1>2. CASE Crash
  BY <1>2 DEF Crash, CaptureIdle, OcrIdle, GuiIdle, ImportIdle, ImagesStay, ImagesKept, DoomedFirst,
    SweepSpares, disk
<1>3. CASE UNCHANGED vars
  BY <1>3 DEF vars, disk, history, ImagesStay, ImagesKept, DoomedFirst, SweepSpares
<1>4. QED
  BY <1>1, <1>2, <1>3, CaptureImages, OcrImages, GuiImages, ImportImages DEF Next

-----------------------------------------------------------------------------
(* Deleted records.                                                        *)

RemovedStay == RemovedTogether /\ ImagesFirst

LEMMA CaptureRemoved ==
  ASSUME Types, StampsAreUnique, RemovedStay, CaptureStep
  PROVE  RemovedStay'
<1> USE DEF RemovedStay
<1>0. /\ capture.at = "unlink" => Head(capture.rest) \in Records
      /\ gui.at = "unlink" => Head(gui.rest) \in Records /\ Head(gui.rest) \in ToSet(gui.rest)
      /\ ToSet(order) \subseteq Records /\ ToSet(gui.rest) \subseteq Records
  BY HeadTailEffect, ListedAreRecords DEF Types, VaultTypeOK, CaptureType, GuiType
<1>1. CASE CaptureBegin
  BY <1>1 DEF CaptureBegin, CaptureIdle, RemovedTogether, ImagesFirst, Bare, disk
<1>2. CASE CaptureImage
  <2> DEFINE c == capture.rec
  <2>1. c \in Records /\ Pending(c) /\ capture'.at = "record"
    BY <1>2 DEF CaptureImage, Types, VaultTypeOK, CaptureType, Pending
  <2>2. c \notin ToSet(order) \cup ToSet(gui.rest) \cup removed
    BY <2>1, PendingHasNoFile
  <2>3. images' = images \cup {c} /\ UNCHANGED <<file, order, gui, removed>>
    BY <1>2 DEF CaptureImage, history
  <2> HIDE DEF c
  <2>4. QED
    BY <1>0, <2>1, <2>2, <2>3 DEF RemovedTogether, ImagesFirst, Bare
<1>3. CASE CaptureRecord
  <2> DEFINE c == capture.rec
  <2>1. c \in Records /\ capture'.at = "list"
    BY <1>3 DEF CaptureRecord, Types, VaultTypeOK, CaptureType
  <2>2. /\ \A q \in Records : file'[q] = IF q = c THEN [is |-> "open", doc |-> New] ELSE file[q]
        /\ ToSet(order') \subseteq ToSet(order) \cup {c}
    BY <1>3, <2>1, NothingTyped, Written DEF CaptureRecord
  <2>3. UNCHANGED <<images, gui, removed>>
    BY <1>3 DEF CaptureRecord, history
  <2> HIDE DEF c
  <2>4. QED
    BY <1>0, <2>1, <2>2, <2>3 DEF RemovedTogether, ImagesFirst, Bare
<1>4. CASE CaptureFails \/ Sweep
  <2>1. images' \subseteq images /\ capture'.at = "idle" /\ UNCHANGED <<file, order, gui, removed>>
    BY <1>4 DEF CaptureFails, Sweep, CaptureIdle, history
  <2>2. QED
    BY <2>1 DEF RemovedTogether, ImagesFirst, Bare
<1>5. CASE PruneBegin \/ PruneKeep \/ PruneAborts \/ Reference
  <2> DEFINE still == capture'.at # "unlink" /\ UNCHANGED <<file, order, images, gui, removed>>
  <2>1. ASSUME PruneBegin PROVE still
    BY <2>1 DEF PruneBegin, disk, history, Types, VaultTypeOK, CaptureType
  <2>2. ASSUME PruneKeep PROVE still
    BY <2>2 DEF PruneKeep, disk, history, Types, VaultTypeOK, CaptureType
  <2>3. ASSUME PruneAborts PROVE still
    BY <2>3 DEF PruneAborts, CaptureIdle, disk, history
  <2>4. ASSUME Reference PROVE still
    BY <2>4 DEF Reference, CaptureIdle, disk
  <2>5. still
    BY <1>5, <2>1, <2>2, <2>3, <2>4
  <2>6. QED
    BY <2>5 DEF RemovedTogether, ImagesFirst, Bare
<1>6. CASE PruneDrop
  <2> DEFINE h == Head(capture.rest)
  <2>1. h \in Records /\ capture'.at = "unlink" /\ Head(capture'.rest) = h
    BY <1>6, HeadTailEffect DEF PruneDrop, Types, VaultTypeOK, CaptureType
  <2>2. images' = images \ ImageOf(h) /\ UNCHANGED <<file, order, gui, removed>> /\ file[h].is # "none"
    BY <1>6 DEF PruneDrop
  <2>3. h \notin images' \/ h \in Legacy
    BY <2>1, <2>2 DEF ImageOf, StampsAreUnique, Types, VaultTypeOK, FileType
  <2> HIDE DEF h
  <2>4. QED
    BY <2>1, <2>2, <2>3 DEF RemovedTogether, ImagesFirst, Bare
<1>7. CASE PruneUnlink
  <2> DEFINE h == Head(capture.rest)
  <2>1. h \in Records /\ Bare(h) /\ capture'.at = "prune"
    BY <1>0, <1>7 DEF PruneUnlink, Types, VaultTypeOK, CaptureType, ImagesFirst
  <2>2. /\ \A q \in Records : file'[q] = IF q = h THEN NoFile ELSE file[q]
        /\ ToSet(order') \subseteq ToSet(order)
    BY <1>7, <2>1, Erased DEF PruneUnlink
  <2>3. UNCHANGED <<images, gui, removed>>
    BY <1>7 DEF PruneUnlink, history
  <2> HIDE DEF h
  <2>4. QED
    BY <1>0, <2>1, <2>2, <2>3 DEF RemovedTogether, ImagesFirst, Bare
<1>8. QED
  BY <1>1, <1>2, <1>3, <1>4, <1>5, <1>6, <1>7 DEF CaptureStep

LEMMA OcrRemoved ==
  ASSUME Types, RemovedStay, OcrStep
  PROVE  RemovedStay'
<1> USE DEF RemovedStay
<1>1. CASE OcrWrite
  <2> DEFINE c == ocr.rec
  <2>1. c \in Records /\ ocr.doc \in Doc /\ ToSet(gui.rest) \subseteq Records /\ ToSet(order) \subseteq Records
    BY <1>1, ListedAreRecords DEF OcrWrite, Types, VaultTypeOK, OcrType, GuiType
  <2>2. /\ \A q \in Records : file'[q] = IF q = c THEN [is |-> "open", doc |-> ocr.doc] ELSE file[q]
        /\ ToSet(order') \subseteq ToSet(order) \cup {c}
    BY <1>1, <2>1, Written DEF OcrWrite
  <2>3. UNCHANGED <<images, gui, capture, removed>>
    BY <1>1 DEF OcrWrite, history
  <2> HIDE DEF c
  <2>4. QED
    BY <2>1, <2>2, <2>3 DEF RemovedTogether, ImagesFirst, Bare
<1>2. CASE ~OcrWrite
  <2>1. UNCHANGED <<file, order, images, gui, capture, removed>>
    BY <1>2 DEF OcrStep, OcrBegin, OcrPreview, OcrRecognize, OcrSkip, OcrDump, OcrFails, OcrReport,
      disk, history
  <2>2. QED
    BY <2>1 DEF RemovedTogether, ImagesFirst, Bare
<1>3. QED
  BY <1>1, <1>2

LEMMA GuiRemoved ==
  ASSUME Types, StampsAreUnique, RemovedStay, GuiStep
  PROVE  RemovedStay'
<1> USE DEF RemovedStay
<1>0. /\ gui.at \in {"note", "unlink"} => Head(gui.rest) \in ToSet(gui.rest)
      /\ ToSet(order) \subseteq Records /\ ToSet(gui.rest) \subseteq Records
      /\ ToSet(GuiIdle.rest) = {} /\ GuiIdle.at = "idle"
  BY HeadTailEffect, ListedAreRecords, EmptyList DEF Types, VaultTypeOK, GuiType, GuiIdle
<1>1. ASSUME NEW r \in Records, Annotate(r)
      PROVE  RemovedStay'
  <2>1. gui'.at = "note" /\ ToSet(gui'.rest) = {r} /\ file[r].is = "open"
    BY <1>1, OneList DEF Annotate, GuiIdle
  <2>2. UNCHANGED <<file, order, images, capture, removed>>
    BY <1>1 DEF Annotate, disk
  <2>3. QED
    BY <2>1, <2>2 DEF RemovedTogether, ImagesFirst, Bare
<1>2. CASE AnnotateWrite
  <2> DEFINE c == Head(gui.rest)
  <2>1. c \in Records /\ gui.doc \in Doc
    BY <1>0, <1>2 DEF AnnotateWrite, Types, VaultTypeOK, GuiType
  <2>2. /\ \A q \in Records : file'[q] = IF q = c THEN [is |-> "open", doc |-> gui.doc] ELSE file[q]
        /\ ToSet(order') \subseteq ToSet(order) \cup {c}
    BY <1>2, <2>1, Written DEF AnnotateWrite
  <2>3. gui' = GuiIdle /\ UNCHANGED <<images, capture, removed>>
    BY <1>2 DEF AnnotateWrite, history
  <2> HIDE DEF c
  <2>4. QED
    BY <1>0, <2>1, <2>2, <2>3 DEF RemovedTogether, ImagesFirst, Bare
<1>3. CASE AnnotateFails \/ DeleteEnd
  <2>1. gui' = GuiIdle /\ UNCHANGED <<file, order, images, capture, removed>>
    BY <1>3 DEF AnnotateFails, DeleteEnd, disk
  <2>2. QED
    BY <1>0, <2>1 DEF RemovedTogether, ImagesFirst, Bare
<1>4. ASSUME NEW rs \in SUBSET ToSet(order), DeleteBegin(rs)
      PROVE  RemovedStay'
  <2>1. gui'.at = "delete" /\ gui'.rest = order /\ UNCHANGED <<file, order, images, capture, removed>>
    BY <1>4 DEF DeleteBegin, GuiIdle, disk
  <2>2. QED
    BY <2>1 DEF RemovedTogether, ImagesFirst, Bare
<1>5. CASE DeleteImage
  <2> DEFINE h == Head(gui.rest)
  <2>1. h \in Records /\ h \in ToSet(gui.rest)
    BY <1>5, HeadTailEffect DEF DeleteImage, Types, VaultTypeOK, GuiType
  <2>2. UNCHANGED <<file, order, capture, removed>>
    BY <1>5 DEF DeleteImage
  <2>3. CASE h \in gui.chosen
    <3>1. gui'.at = "unlink" /\ gui'.rest = gui.rest
      BY <1>5, <2>3 DEF DeleteImage, Types, VaultTypeOK, GuiType
    <3>2. images' = images \ ImageOf(h) /\ images' \subseteq images
      BY <1>5, <2>3 DEF DeleteImage
    <3>3. h \notin images' \/ h \in Legacy
      <4>1. CASE file[h].is = "open"
        BY <3>2, <4>1 DEF ImageOf
      <4>2. CASE file[h].is = "sealed"
        BY <2>1, <4>2 DEF StampsAreUnique
      <4>3. CASE file[h].is = "none"
        BY <2>1, <3>2, <4>3 DEF ImagesFirst, Bare
      <4>4. QED
        BY <2>1, <4>1, <4>2, <4>3 DEF Types, VaultTypeOK, FileType
    <3>4. Head(gui'.rest) \notin images' \/ Head(gui'.rest) \in Legacy
      BY <3>1, <3>3
    <3> HIDE DEF h
    <3>5. QED
      BY <2>2, <3>1, <3>2, <3>4 DEF RemovedTogether, ImagesFirst, Bare
  <2>4. CASE h \notin gui.chosen
    <3>1. gui'.at = "delete" /\ gui'.rest = Tail(gui.rest) /\ UNCHANGED images
      BY <1>5, <2>4 DEF DeleteImage, Types, VaultTypeOK, GuiType
    <3>2. ToSet(gui'.rest) \subseteq ToSet(gui.rest)
      BY <1>5, <3>1, HeadTailEffect DEF DeleteImage, Types, VaultTypeOK, GuiType
    <3> HIDE DEF h
    <3>3. QED
      BY <2>2, <3>1, <3>2 DEF RemovedTogether, ImagesFirst, Bare
  <2>5. QED
    BY <2>3, <2>4
<1>6. CASE DeleteRecord
  <2> DEFINE h == Head(gui.rest)
  <2>1. h \in Records /\ Bare(h)
    BY <1>0, <1>6 DEF DeleteRecord, ImagesFirst
  <2>2. gui'.at = "delete" /\ ToSet(gui'.rest) \subseteq ToSet(gui.rest)
    BY <1>6, HeadTailEffect DEF DeleteRecord, Types, VaultTypeOK, GuiType
  <2>3. /\ \A q \in Records : file'[q] = IF q = h THEN NoFile ELSE file[q]
        /\ ToSet(order') \subseteq ToSet(order)
    BY <1>6, <2>1, Erased DEF DeleteRecord
  <2>4. removed' = removed \cup {h} /\ UNCHANGED <<images, capture>>
    BY <1>6 DEF DeleteRecord
  <2> HIDE DEF h
  <2>5. QED
    BY <1>0, <2>1, <2>2, <2>3, <2>4 DEF RemovedTogether, ImagesFirst, Bare
<1>7. QED
  BY <1>1, <1>2, <1>3, <1>4, <1>5, <1>6 DEF GuiStep

LEMMA ImportRemoved ==
  ASSUME Types, StampsAreUnique, RemovedStay, ImportStep
  PROVE  RemovedStay'
<1> USE DEF RemovedStay
<1>0. /\ capture.at = "unlink" => Head(capture.rest) \in Records
      /\ gui.at = "unlink" => Head(gui.rest) \in Records /\ Head(gui.rest) \in ToSet(gui.rest)
      /\ ToSet(order) \subseteq Records /\ ToSet(gui.rest) \subseteq Records
  BY HeadTailEffect, ListedAreRecords DEF Types, VaultTypeOK, CaptureType, GuiType
<1>1. CASE ImportImage
  <2>1. Stamp \in Records \ used
    BY <1>1, StampIsNew DEF ImportImage, Types, VaultTypeOK
  <2>2. Stamp \notin ToSet(order) \cup ToSet(gui.rest) \cup removed
    BY <2>1 DEF StampsAreUnique, Known
  <2>3. images' = images \cup {Stamp} /\ UNCHANGED <<file, order, gui, capture, removed>>
    BY <1>1 DEF ImportImage
  <2>4. capture.at = "unlink" => Head(capture.rest) # Stamp
    <3>1. capture.at = "unlink" => Known(Head(capture.rest))
      BY DEF Known
    <3>2. QED
      BY <1>0, <2>1, <3>1 DEF StampsAreUnique
  <2>5. QED
    BY <1>0, <2>2, <2>3, <2>4 DEF RemovedTogether, ImagesFirst, Bare
<1>2. CASE ImportRecord
  <2> DEFINE c == import.rec
  <2>1. c \in Records
    BY <1>2 DEF ImportRecord, Types, VaultTypeOK
  <2>2. /\ \A q \in Records : file'[q] = IF q = c THEN [is |-> "open", doc |-> New] ELSE file[q]
        /\ ToSet(order') \subseteq ToSet(order) \cup {c}
    BY <1>2, <2>1, NothingTyped, Written DEF ImportRecord
  <2>3. UNCHANGED <<images, gui, capture, removed>>
    BY <1>2 DEF ImportRecord, history
  <2> HIDE DEF c
  <2>4. QED
    BY <1>0, <2>1, <2>2, <2>3 DEF RemovedTogether, ImagesFirst, Bare
<1>3. CASE ImportFails
  <2>1. images' \subseteq images /\ UNCHANGED <<file, order, gui, capture, removed>>
    BY <1>3 DEF ImportFails
  <2>2. QED
    BY <2>1 DEF RemovedTogether, ImagesFirst, Bare
<1>4. QED
  BY <1>1, <1>2, <1>3 DEF ImportStep

LEMMA RemovedHold ==
  ASSUME Types, StampsAreUnique, RemovedStay, [Next]_vars
  PROVE  RemovedStay'
<1>1. CASE SearchStep \/ UNCHANGED vars
  <2>1. UNCHANGED <<file, order, images, gui, capture, removed>>
    BY <1>1 DEF SearchStep, SearchBegin, SearchRead, SearchEnd, vars, disk, history
  <2>2. QED
    BY <2>1 DEF RemovedStay, RemovedTogether, ImagesFirst, Bare
<1>2. CASE Crash
  <2>1. ToSet(GuiIdle.rest) = {}
    BY EmptyList DEF GuiIdle
  <2>2. QED
    BY <1>2, <2>1 DEF Crash, CaptureIdle, GuiIdle, RemovedStay, RemovedTogether, ImagesFirst, Bare, disk
<1>3. QED
  BY <1>1, <1>2, CaptureRemoved, OcrRemoved, GuiRemoved, ImportRemoved DEF Next

-----------------------------------------------------------------------------
(* Caches.                                                                 *)

(* What the caches are going to hold, by the files of now.                 *)
NextAgrees ==
  \A r \in Records : /\ cache'[r].hit => Fresh(r, cache'[r].doc)
                     /\ index'[r].hit => Fresh(r, index'[r].doc)

LEMMA LoadedAgrees ==
  ASSUME Types, CachesAgree, NEW rs \in SUBSET Records, NEW o \in Evictions(rs), NEW r \in Records
  PROVE  Loaded(rs, o)[r].hit => Fresh(r, Loaded(rs, o)[r].doc)
<1>1. \/ Loaded(rs, o)[r] \in {NoEntry, cache[r]}
      \/ file[r].is = "open" /\ Loaded(rs, o)[r] = [hit |-> TRUE, doc |-> file[r].doc]
  BY TypedFiles, LoadedEffect DEF Types
<1>2. QED
  BY <1>1 DEF CachesAgree, Fresh, NoEntry

LEMMA LoadAgrees ==
  ASSUME Types, CachesAgree, NEW rs \in SUBSET Records, Load(rs)
  PROVE  NextAgrees
<1>1. PICK o \in Evictions(rs) : cache' = Loaded(rs, o)
  BY DEF Load
<1>2. UNCHANGED index
  BY DEF Load
<1>3. QED
  BY <1>1, <1>2, LoadedAgrees DEF NextAgrees, CachesAgree

(* No file changes, and updates go on or are recorded as failed.           *)
LEMMA StillAgree ==
  ASSUME NextAgrees, UNCHANGED file, failed \subseteq failed',
         \A r \in Records : UpdateUnderWay(r) => UpdateUnderWay(r)' \/ r \in failed'
  PROVE  CachesAgree'
  BY DEF NextAgrees, CachesAgree, Fresh

LEMMA MemoryAgrees ==
  ASSUME CachesAgree, UNCHANGED <<cache, index>>
  PROVE  NextAgrees
  BY DEF NextAgrees, CachesAgree

(* One file changes, and its entries are dropped.                          *)
LEMMA TouchAgrees ==
  ASSUME Types, CachesAgree, NEW c \in Records, Touch(c),
         \A r \in Records : r # c => file'[r] = file[r],
         \A r \in Records : r # c /\ UpdateUnderWay(r) => UpdateUnderWay(r)',
         UNCHANGED failed
  PROVE  CachesAgree'
<1>1. ~cache'[c].hit /\ ~index'[c].hit
  BY DEF Touch, NoEntry, Types, VaultTypeOK
<1>2. \A r \in Records : r # c => cache'[r] = cache[r] /\ index'[r] = index[r]
  BY DEF Touch, Types, VaultTypeOK
<1>3. QED
  BY <1>1, <1>2 DEF CachesAgree, Fresh

LEMMA CaptureCaches ==
  ASSUME Types, CachesAgree, CaptureStep
  PROVE  CachesAgree'
<1>1. UNCHANGED <<ocr, gui, failed>>
  BY DEF CaptureStep, CaptureBegin, CaptureImage, CaptureRecord, CaptureFails, PruneBegin, PruneDrop,
    PruneUnlink, PruneKeep, PruneAborts, Reference, Sweep, history
<1>2. \A r \in Records : UpdateUnderWay(r) => UpdateUnderWay(r)'
  BY <1>1 DEF UpdateUnderWay
<1>3. CASE CaptureBegin
  <2>1. ToSet(<<>>) = {} /\ (order # <<>> => Head(order) \in Records)
    BY EmptyList, HeadTailEffect DEF Types, VaultTypeOK
  <2>2. NextAgrees
    BY <1>3, <2>1, LoadAgrees DEF CaptureBegin
  <2>3. QED
    BY <1>1, <1>2, <1>3, <2>2, StillAgree DEF CaptureBegin, disk
<1>4. CASE CaptureRecord
  BY <1>1, <1>2, <1>4, NothingTyped, Written, TouchAgrees DEF CaptureRecord, Types, VaultTypeOK
<1>5. CASE PruneDrop
  <2>1. Head(capture.rest) \in Records
    BY <1>5, HeadTailEffect DEF PruneDrop, Types, VaultTypeOK, CaptureType
  <2>2. QED
    BY <1>1, <1>2, <1>5, <2>1, LoadAgrees, StillAgree DEF PruneDrop
<1>6. CASE PruneUnlink
  <2>1. Head(capture.rest) \in Records
    BY <1>6, HeadTailEffect DEF PruneUnlink, Types, VaultTypeOK, CaptureType
  <2>2. QED
    BY <1>1, <1>2, <1>6, <2>1, Erased, TouchAgrees DEF PruneUnlink
<1>7. CASE Reference
  <2>1. ToSet(order) \in SUBSET Records
    BY ListedAreRecords DEF Types, VaultTypeOK
  <2>2. QED
    BY <1>1, <1>2, <1>7, <2>1, LoadAgrees, StillAgree DEF Reference, disk
<1>8. CASE CaptureImage \/ CaptureFails \/ PruneBegin \/ PruneKeep \/ PruneAborts \/ Sweep
  <2>1. UNCHANGED <<file, cache, index>>
    BY <1>8 DEF CaptureImage, CaptureFails, PruneBegin, PruneKeep, PruneAborts, Sweep, disk, memory
  <2>2. QED
    BY <1>1, <1>2, <2>1, MemoryAgrees, StillAgree
<1>9. QED
  BY <1>3, <1>4, <1>5, <1>6, <1>7, <1>8 DEF CaptureStep

LEMMA OcrCaches ==
  ASSUME Types, CachesAgree, OcrStep
  PROVE  CachesAgree'
<1>1. ASSUME NEW r \in Records, OcrBegin(r)
      PROVE  CachesAgree'
  <2>1. PICK o \in Evictions({r}) : cache' = Loaded({r}, o)
    BY <1>1 DEF OcrBegin
  <2>2. {r} \in SUBSET Records /\ UNCHANGED <<file, index, gui, failed>> /\ ocr.at = "idle"
    BY <1>1 DEF OcrBegin, disk
  <2>3. NextAgrees
    BY <2>1, <2>2, LoadedAgrees DEF NextAgrees, CachesAgree
  <2>4. QED
    BY <2>2, <2>3, StillAgree DEF UpdateUnderWay
<1>2. CASE OcrPreview
  <2>1. ocr'.at = "recognize" /\ ocr'.rec = ocr.rec /\ ocr.rec \in Records
    BY <1>2 DEF OcrPreview, Types, VaultTypeOK, OcrType
  <2>2. QED
    BY <1>2, <2>1, LoadAgrees, StillAgree DEF OcrPreview, UpdateUnderWay, disk, history
<1>3. CASE OcrRecognize
  <2>1. ocr.rec \in Records /\ UpdateUnderWay(ocr.rec) /\ ocr'.at = "dump" /\ ocr'.rec = ocr.rec
    BY <1>3 DEF OcrRecognize, Types, VaultTypeOK, OcrType, UpdateUnderWay
  <2>2. UNCHANGED <<file, index, gui, failed>>
    BY <1>3 DEF OcrRecognize, disk, history
  <2>3. \A r \in Records : cache'[r].hit = cache[r].hit /\ (r # ocr.rec => cache'[r] = cache[r])
    BY <1>3, <2>1 DEF OcrRecognize, Types, VaultTypeOK, EntryType
  <2>4. NextAgrees
    BY <2>1, <2>2, <2>3 DEF NextAgrees, CachesAgree, Fresh
  <2>5. QED
    BY <2>1, <2>2, <2>4, StillAgree DEF UpdateUnderWay
<1>4. CASE OcrSkip \/ OcrDump
  <2>1. ocr'.at \in {"dump", "write"} /\ ocr'.rec = ocr.rec
    BY <1>4 DEF OcrSkip, OcrDump, Types, VaultTypeOK, OcrType
  <2>2. UNCHANGED <<file, cache, index, gui, failed>>
    BY <1>4 DEF OcrSkip, OcrDump, disk, memory, history
  <2>3. QED
    BY <2>1, <2>2, MemoryAgrees, StillAgree DEF UpdateUnderWay
<1>5. CASE OcrWrite
  <2>1. ocr.rec \in Records /\ ocr.doc \in Doc
    BY <1>5 DEF OcrWrite, Types, VaultTypeOK, OcrType
  <2>2. UNCHANGED <<gui, failed>>
    BY <1>5 DEF OcrWrite, history
  <2>3. \A r \in Records : r # ocr.rec /\ UpdateUnderWay(r) => UpdateUnderWay(r)'
    BY <2>2 DEF UpdateUnderWay
  <2>4. QED
    BY <1>5, <2>1, <2>2, <2>3, Written, TouchAgrees DEF OcrWrite
<1>6. CASE OcrFails
  BY <1>6, MemoryAgrees, StillAgree DEF OcrFails, UpdateUnderWay, disk
<1>7. CASE OcrReport
  <2>1. ocr.rec \in Records
    BY <1>7 DEF OcrReport, Types, VaultTypeOK
  <2>2. QED
    BY <1>7, <2>1, LoadAgrees, StillAgree DEF OcrReport, UpdateUnderWay, disk, history
<1>8. QED
  BY <1>1, <1>2, <1>3, <1>4, <1>5, <1>6, <1>7 DEF OcrStep

LEMMA GuiCaches ==
  ASSUME Types, CachesAgree, GuiStep
  PROVE  CachesAgree'
<1>1. ASSUME NEW r \in Records, Annotate(r)
      PROVE  CachesAgree'
  <2> DEFINE d == [Payload(r) EXCEPT !.note = notes + 1]
  <2>1. PICK o \in Evictions({r}) : cache' = [Loaded({r}, o) EXCEPT ![r].doc = d]
    BY <1>1 DEF Annotate
  <2>2. gui.at = "idle" /\ gui'.at = "note" /\ Head(gui'.rest) = r
    BY <1>1 DEF Annotate, GuiIdle
  <2>3. ocr'.at = ocr.at /\ ocr'.rec = ocr.rec
    BY <1>1 DEF Annotate, Types, VaultTypeOK, OcrType
  <2>4. file[r].is = "open" /\ UNCHANGED <<file, index, failed>>
    BY <1>1 DEF Annotate, disk
  <2>5. \A q \in Records : UpdateUnderWay(q)' <=> UpdateUnderWay(q) \/ q = r
    BY <2>2, <2>3 DEF UpdateUnderWay
  <2>6. \A q \in Records : Loaded({r}, o)[q].hit => Fresh(q, Loaded({r}, o)[q].doc)
    <3>1. {r} \in SUBSET Records
      OBVIOUS
    <3>2. QED
      BY <3>1, LoadedAgrees
  <2>7. \A q \in Records : q # r => cache'[q] = Loaded({r}, o)[q]
    BY <2>1, LoadedOne
  <2>8. QED
    BY <2>4, <2>5, <2>6, <2>7 DEF CachesAgree, Fresh
<1>2. CASE AnnotateWrite
  <2>1. Head(gui.rest) \in Records /\ gui.doc \in Doc
    BY <1>2, HeadTailEffect DEF AnnotateWrite, Types, VaultTypeOK, GuiType
  <2>2. UNCHANGED <<ocr, failed>>
    BY <1>2 DEF AnnotateWrite, history
  <2>3. \A r \in Records : r # Head(gui.rest) /\ UpdateUnderWay(r) => UpdateUnderWay(r)'
    BY <2>2 DEF UpdateUnderWay
  <2>4. QED
    BY <1>2, <2>1, <2>2, <2>3, Written, TouchAgrees DEF AnnotateWrite
<1>3. CASE AnnotateFails
  BY <1>3, MemoryAgrees, StillAgree DEF AnnotateFails, UpdateUnderWay, disk, memory
<1>4. ASSUME NEW rs \in SUBSET ToSet(order), DeleteBegin(rs)
      PROVE  CachesAgree'
  BY <1>4, MemoryAgrees, StillAgree DEF DeleteBegin, UpdateUnderWay, disk, memory
<1>5. CASE DeleteImage
  <2>1. Head(gui.rest) \in Records
    BY <1>5, HeadTailEffect DEF DeleteImage, Types, VaultTypeOK, GuiType
  <2>2. QED
    BY <1>5, <2>1, LoadAgrees, StillAgree DEF DeleteImage, UpdateUnderWay
<1>6. CASE DeleteRecord
  <2>1. Head(gui.rest) \in Records
    BY <1>6, HeadTailEffect DEF DeleteRecord, Types, VaultTypeOK, GuiType
  <2>2. gui.at = "unlink" /\ UNCHANGED <<ocr, failed>>
    BY <1>6 DEF DeleteRecord
  <2>3. \A r \in Records : UpdateUnderWay(r) => UpdateUnderWay(r)'
    BY <2>2 DEF UpdateUnderWay
  <2>4. QED
    BY <1>6, <2>1, <2>2, <2>3, Erased, TouchAgrees DEF DeleteRecord
<1>7. CASE DeleteEnd
  BY <1>7 DEF DeleteEnd, CachesAgree, NoEntry
<1>8. QED
  BY <1>1, <1>2, <1>3, <1>4, <1>5, <1>6, <1>7 DEF GuiStep

LEMMA SearchCaches ==
  ASSUME Types, CachesAgree, SearchStep
  PROVE  CachesAgree'
<1>1. UNCHANGED <<file, ocr, gui, failed>>
  BY DEF SearchStep, SearchBegin, SearchRead, SearchEnd, disk, history
<1>2. \A r \in Records : UpdateUnderWay(r) => UpdateUnderWay(r)'
  BY <1>1 DEF UpdateUnderWay
<1>3. CASE UNCHANGED memory
  BY <1>1, <1>2, <1>3, MemoryAgrees, StillAgree DEF memory
<1>4. CASE ~UNCHANGED memory
  <2> DEFINE r == Head(search.todo)
  <2>1. SearchRead
    BY <1>4 DEF SearchStep, SearchBegin, SearchEnd
  <2>2. r \in Records /\ {r} \in SUBSET Records
    BY <2>1, HeadTailEffect DEF SearchRead, Types, VaultTypeOK
  <2>3. PICK o \in Evictions({r}) : cache' = Loaded({r}, o)
    BY <1>4, <2>1 DEF SearchRead
  <2>4. /\ file[r].is = "open"
        /\ index' = [index EXCEPT ![r] = IF r \in search.stamps
                                         THEN [hit |-> TRUE, doc |-> Payload(r)] ELSE NoEntry]
    BY <1>4, <2>1 DEF SearchRead
  <2> HIDE DEF r
  <2>5. Fresh(r, Payload(r))
    BY <2>2, <2>4 DEF Payload, Fresh, CachesAgree
  <2>6. \A q \in Records : index'[q].hit => Fresh(q, index'[q].doc)
    BY <2>2, <2>4, <2>5 DEF CachesAgree, NoEntry, Types, VaultTypeOK
  <2>7. NextAgrees
    BY <2>2, <2>3, <2>6, LoadedAgrees DEF NextAgrees
  <2>8. QED
    BY <1>1, <1>2, <2>7, StillAgree
<1>5. QED
  BY <1>3, <1>4

LEMMA CachesHold ==
  ASSUME Types, CachesAgree, [Next]_vars
  PROVE  CachesAgree'
<1>1. CASE ImportStep
  <2>1. UNCHANGED <<ocr, gui, failed>>
    BY <1>1 DEF ImportStep, ImportImage, ImportRecord, ImportFails, history
  <2>2. \A r \in Records : UpdateUnderWay(r) => UpdateUnderWay(r)'
    BY <2>1 DEF UpdateUnderWay
  <2>3. CASE ImportRecord
    BY <2>1, <2>2, <2>3, NothingTyped, Written, TouchAgrees DEF ImportRecord, Types, VaultTypeOK
  <2>4. CASE ~ImportRecord
    BY <1>1, <2>1, <2>2, <2>4, MemoryAgrees, StillAgree DEF ImportStep, ImportImage, ImportFails, memory
  <2>5. QED
    BY <2>3, <2>4
<1>2. CASE Crash
  BY <1>2 DEF Crash, CachesAgree, NoEntry
<1>3. CASE UNCHANGED vars
  BY <1>3, MemoryAgrees, StillAgree DEF vars, disk, memory, history, UpdateUnderWay
<1>4. QED
  BY <1>1, <1>2, <1>3, CaptureCaches, OcrCaches, GuiCaches, SearchCaches DEF Next

-----------------------------------------------------------------------------
(* Notes.                                                                  *)

LEMMA NotesAreNumbers ==
  ASSUME Types
  PROVE  /\ notes \in Nat /\ Blank.note = 0 /\ New.note = 0
         /\ \A r \in Records : file[r].doc.note \in Nat /\ cache[r].doc.note \in Nat
         /\ ocr.doc.note \in Nat /\ gui.doc.note \in Nat
  BY VaultAssumption DEF Types, VaultTypeOK, FileType, EntryType, OcrType, GuiType, Doc, Blank, New

(* What the cache is going to hold, by the files of now.                   *)
NextNotes ==
  \A r \in Records : /\ cache'[r].doc.note <= notes
                     /\ cache'[r].hit => file[r].doc.note <= cache'[r].doc.note

LEMMA LoadedNotes ==
  ASSUME Types, NotesRun, NEW rs \in SUBSET Records, NEW o \in Evictions(rs), NEW r \in Records
  PROVE  /\ Loaded(rs, o)[r].doc.note <= notes
         /\ Loaded(rs, o)[r].hit => file[r].doc.note <= Loaded(rs, o)[r].doc.note
<1>1. \/ Loaded(rs, o)[r] \in {NoEntry, cache[r]}
      \/ file[r].is = "open" /\ Loaded(rs, o)[r] = [hit |-> TRUE, doc |-> file[r].doc]
  BY TypedFiles, LoadedEffect DEF Types
<1>2. QED
  BY <1>1, NotesAreNumbers DEF NotesRun, NoEntry

LEMMA LoadNotes ==
  ASSUME Types, NotesRun, NEW rs \in SUBSET Records, Load(rs)
  PROVE  NextNotes
<1>1. PICK o \in Evictions(rs) : cache' = Loaded(rs, o)
  BY DEF Load
<1>2. QED
  BY <1>1, LoadedNotes DEF NextNotes

(* Files and notes stay; the copies of reindexing and annotation too, or   *)
(* the thread is done with them.                                           *)
LEMMA SameNotes ==
  ASSUME Types, NotesRun, NextNotes, UNCHANGED <<file, notes>>,
         ocr'.doc.note \in {ocr.doc.note, 0},
         gui'.at = "note" => gui.at = "note" /\ gui'.doc = gui.doc /\ gui'.rest = gui.rest,
         Reindexing' => /\ Reindexing /\ ocr'.doc.note = ocr.doc.note
                        /\ ocr'.rec = ocr.rec /\ ocr'.missed = ocr.missed
  PROVE  NotesRun'
  BY NotesAreNumbers DEF NotesRun, NextNotes

LEMMA MemoryNotes ==
  ASSUME NotesRun, UNCHANGED cache
  PROVE  NextNotes
  BY DEF NotesRun, NextNotes

(* A file changes: to something not yet there, or with a note that neither *)
(* a reindexing lacks nor an annotation is later than.                     *)
LEMMA TouchNotes ==
  ASSUME Types, NotesRun, NEW c \in Records, Touch(c), NEW d \in Doc, NEW is,
         \A r \in Records : file'[r] = IF r = c THEN [is |-> is, doc |-> d] ELSE file[r],
         UNCHANGED notes,
         d.note <= notes,
         ocr'.doc.note = ocr.doc.note,
         gui'.at = "note" => gui.at = "note" /\ gui'.doc = gui.doc /\ gui'.rest = gui.rest,
         Reindexing' => Reindexing /\ ocr' = ocr,
         Reindexing' /\ ocr.rec = c /\ ~ocr.missed => d.note <= ocr.doc.note
  PROVE  NotesRun'
<1>1. cache'[c].doc.note = 0 /\ ~cache'[c].hit
  BY NotesAreNumbers DEF Touch, NoEntry, Types, VaultTypeOK
<1>2. \A r \in Records : r # c => cache'[r] = cache[r]
  BY DEF Touch, Types, VaultTypeOK
<1>3. \A r \in Records : /\ file'[r].doc.note <= notes' /\ cache'[r].doc.note <= notes'
                         /\ cache'[r].hit => file'[r].doc.note <= cache'[r].doc.note
  BY <1>1, <1>2, NotesAreNumbers DEF NotesRun
<1>4. /\ ocr'.doc.note <= notes'
      /\ gui'.at = "note" => gui'.doc.note = notes' /\ gui'.rest = <<Head(gui'.rest)>>
  BY DEF NotesRun
<1>5. ASSUME Reindexing', ~ocr'.missed
      PROVE  /\ file'[ocr'.rec].is = "open" => file'[ocr'.rec].doc.note <= ocr'.doc.note
             /\ gui'.at = "note" /\ Head(gui'.rest) = ocr'.rec => gui'.doc.note <= ocr'.doc.note
  <2>1. Reindexing /\ ocr' = ocr /\ ocr.rec \in Records
    BY <1>5 DEF Reindexing, Types, VaultTypeOK
  <2>2. QED
    BY <1>5, <2>1 DEF NotesRun
<1>6. QED
  BY <1>3, <1>4, <1>5 DEF NotesRun

LEMMA CaptureNotes ==
  ASSUME Types, StampsAreUnique, NotesRun, CaptureStep
  PROVE  NotesRun'
<1>1. UNCHANGED <<ocr, gui, notes>>
  BY DEF CaptureStep, CaptureBegin, CaptureImage, CaptureRecord, CaptureFails, PruneBegin, PruneDrop,
    PruneUnlink, PruneKeep, PruneAborts, Reference, Sweep, history
<1>2. Reindexing' <=> Reindexing
  BY <1>1 DEF Reindexing
<1>3. CASE CaptureBegin
  <2>1. ToSet(<<>>) = {} /\ (order # <<>> => Head(order) \in Records)
    BY EmptyList, HeadTailEffect DEF Types, VaultTypeOK
  <2>2. NextNotes
    BY <1>3, <2>1, LoadNotes DEF CaptureBegin
  <2>3. QED
    BY <1>1, <1>2, <1>3, <2>2, SameNotes DEF CaptureBegin, disk
<1>4. CASE CaptureRecord
  <2> DEFINE c == capture.rec
  <2>1. c \in Records /\ Pending(c) /\ New \in Doc
    BY <1>4, NothingTyped DEF CaptureRecord, Types, VaultTypeOK, Pending
  <2>2. Reindexing => ocr.rec # c
    BY <2>1 DEF StampsAreUnique, Known, Reindexing
  <2>3. Touch(c) /\ \A q \in Records : file'[q] = IF q = c THEN [is |-> "open", doc |-> New] ELSE file[q]
    BY <1>4, <2>1, Written DEF CaptureRecord
  <2>4. New.note <= notes
    BY NotesAreNumbers
  <2> HIDE DEF c
  <2>5. QED
    BY <1>1, <1>2, <2>1, <2>2, <2>3, <2>4, TouchNotes
<1>5. CASE PruneDrop
  <2>1. Head(capture.rest) \in Records
    BY <1>5, HeadTailEffect DEF PruneDrop, Types, VaultTypeOK, CaptureType
  <2>2. QED
    BY <1>1, <1>2, <1>5, <2>1, LoadNotes, SameNotes DEF PruneDrop
<1>6. CASE PruneUnlink
  <2> DEFINE h == Head(capture.rest)
  <2>1. h \in Records /\ Blank \in Doc
    BY <1>6, HeadTailEffect, NothingTyped DEF PruneUnlink, Types, VaultTypeOK, CaptureType
  <2>2. Touch(h) /\ \A q \in Records : file'[q] = IF q = h THEN [is |-> "none", doc |-> Blank] ELSE file[q]
    BY <1>6, <2>1, Erased DEF PruneUnlink, NoFile
  <2>3. Blank.note <= notes /\ Blank.note <= ocr.doc.note
    BY NotesAreNumbers
  <2> HIDE DEF h
  <2>4. QED
    BY <1>1, <1>2, <2>1, <2>2, <2>3, TouchNotes
<1>7. CASE Reference
  <2>1. ToSet(order) \in SUBSET Records
    BY ListedAreRecords DEF Types, VaultTypeOK
  <2>2. QED
    BY <1>1, <1>2, <1>7, <2>1, LoadNotes, SameNotes DEF Reference, disk
<1>8. CASE CaptureImage \/ CaptureFails \/ PruneBegin \/ PruneKeep \/ PruneAborts \/ Sweep
  <2>1. UNCHANGED <<file, cache>>
    BY <1>8 DEF CaptureImage, CaptureFails, PruneBegin, PruneKeep, PruneAborts, Sweep, disk, memory
  <2>2. QED
    BY <1>1, <1>2, <2>1, MemoryNotes, SameNotes
<1>9. QED
  BY <1>3, <1>4, <1>5, <1>6, <1>7, <1>8 DEF CaptureStep

LEMMA OcrNotes ==
  ASSUME Types, NotesRun, OcrStep
  PROVE  NotesRun'
<1>1. ASSUME NEW r \in Records, OcrBegin(r)
      PROVE  NotesRun'
  <2>1. PICK o \in Evictions({r}) : cache' = Loaded({r}, o)
    BY <1>1 DEF OcrBegin
  <2>2. {r} \in SUBSET Records /\ UNCHANGED <<file, notes, gui>> /\ file[r].is = "open"
    BY <1>1 DEF OcrBegin, disk
  <2>3. NextNotes
    BY <2>1, <2>2, LoadedNotes DEF NextNotes
  <2>4. /\ ocr'.rec = r /\ ocr'.doc = Payload(r)
        /\ ocr'.missed = (gui.at = "note" /\ gui.rest = <<r>> /\ gui.doc # Payload(r))
    BY <1>1 DEF OcrBegin, OcrIdle
  <2>5. Payload(r).note <= notes /\ file[r].doc.note <= Payload(r).note
    BY NotesAreNumbers DEF NotesRun, Payload
  <2>6. gui.at = "note" /\ Head(gui.rest) = r /\ ~ocr'.missed => gui.doc.note <= Payload(r).note
    <3>1. SUFFICES ASSUME gui.at = "note", Head(gui.rest) = r, ~ocr'.missed
                   PROVE  gui.doc.note <= Payload(r).note
      OBVIOUS
    <3>2. gui.rest = <<r>> /\ Payload(r).note \in Nat /\ gui.doc.note \in Nat
      BY <3>1, NotesAreNumbers DEF NotesRun, Payload
    <3>3. gui.doc = Payload(r)
      BY <2>4, <3>1, <3>2
    <3>4. QED
      BY <3>2, <3>3
  <2>7. QED
    BY <2>2, <2>3, <2>4, <2>5, <2>6 DEF NotesRun, NextNotes
<1>2. CASE OcrPreview
  <2>1. /\ ocr'.rec = ocr.rec /\ ocr'.doc = ocr.doc /\ ocr'.missed = ocr.missed /\ Reindexing
        /\ ocr.rec \in Records
    BY <1>2 DEF OcrPreview, Types, VaultTypeOK, OcrType, Reindexing
  <2>2. QED
    BY <1>2, <2>1, LoadNotes, SameNotes DEF OcrPreview, disk, history
<1>3. CASE OcrRecognize
  <2>1. /\ ocr'.rec = ocr.rec /\ ocr'.doc.note = ocr.doc.note /\ ocr'.missed = ocr.missed /\ Reindexing
        /\ ocr.rec \in Records
    BY <1>3 DEF OcrRecognize, Types, VaultTypeOK, OcrType, Doc, Reindexing
  <2>2. UNCHANGED <<file, notes, gui>>
    BY <1>3 DEF OcrRecognize, disk, history
  <2>3. \A r \in Records : cache'[r].hit = cache[r].hit /\ cache'[r].doc.note = cache[r].doc.note
    BY <1>3, <2>1 DEF OcrRecognize, Types, VaultTypeOK, EntryType, Doc
  <2>4. NextNotes
    BY <2>3 DEF NotesRun, NextNotes
  <2>5. QED
    BY <2>1, <2>2, <2>4, SameNotes
<1>4. CASE OcrSkip \/ OcrDump
  <2>1. /\ ocr'.rec = ocr.rec /\ ocr'.doc = ocr.doc /\ ocr'.missed = ocr.missed /\ Reindexing
    BY <1>4 DEF OcrSkip, OcrDump, Types, VaultTypeOK, OcrType, Reindexing
  <2>2. UNCHANGED <<file, cache, notes, gui>>
    BY <1>4 DEF OcrSkip, OcrDump, disk, memory, history
  <2>3. QED
    BY <2>1, <2>2, MemoryNotes, SameNotes
<1>5. CASE OcrWrite
  <2> DEFINE c == ocr.rec
  <2>1. c \in Records /\ ocr.doc \in Doc /\ ocr'.doc = ocr.doc /\ ~Reindexing'
    BY <1>5 DEF OcrWrite, Types, VaultTypeOK, OcrType, Reindexing
  <2>2. UNCHANGED <<gui, notes>>
    BY <1>5 DEF OcrWrite, history
  <2>3. Touch(c) /\ \A q \in Records : file'[q] = IF q = c THEN [is |-> "open", doc |-> ocr.doc] ELSE file[q]
    BY <1>5, <2>1, Written DEF OcrWrite
  <2>4. ocr.doc.note <= notes
    BY DEF NotesRun
  <2> HIDE DEF c
  <2>5. QED
    BY <2>1, <2>2, <2>3, <2>4, TouchNotes
<1>6. CASE OcrFails
  <2>1. ocr'.doc.note = 0 /\ ~Reindexing' /\ UNCHANGED <<file, cache, notes, gui>>
    BY <1>6, NotesAreNumbers DEF OcrFails, OcrIdle, Reindexing, disk
  <2>2. QED
    BY <2>1, MemoryNotes, SameNotes
<1>7. CASE OcrReport
  <2>1. ocr'.doc.note = 0 /\ ~Reindexing' /\ UNCHANGED <<file, notes, gui>> /\ ocr.rec \in Records
    BY <1>7, NotesAreNumbers DEF OcrReport, OcrIdle, Reindexing, disk, history, Types, VaultTypeOK
  <2>2. QED
    BY <1>7, <2>1, LoadNotes, SameNotes DEF OcrReport
<1>8. QED
  BY <1>1, <1>2, <1>3, <1>4, <1>5, <1>6, <1>7 DEF OcrStep

LEMMA GuiNotes ==
  ASSUME Types, NotesRun, GuiStep
  PROVE  NotesRun'
<1>1. ASSUME NEW r \in Records, Annotate(r)
      PROVE  NotesRun'
  <2> DEFINE d == [Payload(r) EXCEPT !.note = notes + 1]
  <2>1. PICK o \in Evictions({r}) : cache' = [Loaded({r}, o) EXCEPT ![r].doc = d]
    BY <1>1 DEF Annotate
  <2>2. {r} \in SUBSET Records /\ UNCHANGED file /\ notes' = notes + 1
    BY <1>1 DEF Annotate, disk
  <2>3. Payload(r) \in Doc /\ d.note = notes + 1
    BY DEF Payload, Types, VaultTypeOK, FileType, EntryType, Doc
  <2>4. gui'.at = "note" /\ gui'.rest = <<r>> /\ gui'.doc = d
    BY <1>1 DEF Annotate, GuiIdle
  <2>5. /\ ocr'.at = ocr.at /\ ocr'.rec = ocr.rec
        /\ ocr'.doc.note = IF Shares(r) THEN notes + 1 ELSE ocr.doc.note
        /\ ocr'.missed = (ocr.missed \/ (ocr.rec = r /\ ~aliased))
    BY <1>1 DEF Annotate, Types, VaultTypeOK, OcrType, Doc
  <2>6. /\ \A q \in Records : q # r => cache'[q] = Loaded({r}, o)[q]
        /\ cache'[r].doc.note = notes + 1
        /\ \A q \in Records : Loaded({r}, o)[q].doc.note \in Nat
    <3>1. Loaded({r}, o) \in [Records -> EntryType]
      BY LoadedOne
    <3>2. \A q \in Records : q # r => cache'[q] = Loaded({r}, o)[q]
      BY <2>1, <3>1
    <3>3. cache'[r].doc = d
      BY <2>1, <3>1 DEF EntryType
    <3>4. ASSUME NEW q \in Records
          PROVE  Loaded({r}, o)[q].doc.note \in Nat
      <4>1. Loaded({r}, o)[q].doc \in Doc
        BY <3>1 DEF EntryType
      <4>2. QED
        BY <4>1, VaultAssumption DEF Doc
    <3>5. QED
      BY <2>3, <3>2, <3>3, <3>4
  <2> HIDE DEF d
  <2>7. \A q \in Records : /\ file'[q].doc.note <= notes' /\ cache'[q].doc.note <= notes'
                           /\ cache'[q].hit => file'[q].doc.note <= cache'[q].doc.note
    <3>1. SUFFICES ASSUME NEW q \in Records
                   PROVE  /\ file'[q].doc.note <= notes' /\ cache'[q].doc.note <= notes'
                          /\ cache'[q].hit => file'[q].doc.note <= cache'[q].doc.note
      OBVIOUS
    <3>2. CASE q = r
      BY <2>2, <2>6, <3>2, NotesAreNumbers DEF NotesRun
    <3>3. CASE q # r
      <4>1. /\ Loaded({r}, o)[q].doc.note <= notes
            /\ Loaded({r}, o)[q].hit => file[q].doc.note <= Loaded({r}, o)[q].doc.note
        BY <2>2, LoadedNotes
      <4>2. cache'[q] = Loaded({r}, o)[q] /\ Loaded({r}, o)[q].doc.note \in Nat
        BY <2>6, <3>3
      <4>3. file[q].doc.note <= notes /\ file[q].doc.note \in Nat /\ notes \in Nat
        BY NotesAreNumbers DEF NotesRun
      <4>4. QED
        BY <2>2, <4>1, <4>2, <4>3
    <3>4. QED
      BY <3>2, <3>3
  <2>8. ocr'.doc.note <= notes'
    BY <2>2, <2>5, NotesAreNumbers DEF NotesRun
  <2>9. ASSUME Reindexing', ~ocr'.missed
        PROVE  /\ file'[ocr'.rec].is = "open" => file'[ocr'.rec].doc.note <= ocr'.doc.note
               /\ gui'.at = "note" /\ Head(gui'.rest) = ocr'.rec => gui'.doc.note <= ocr'.doc.note
    <3>1. Reindexing /\ ~ocr.missed /\ ocr.rec \in Records
      BY <2>5, <2>9 DEF Reindexing, Types, VaultTypeOK
    <3>2. CASE ocr.rec = r
      <4>1. ocr'.doc.note = notes + 1
        BY <2>5, <2>9, <3>2 DEF Shares
      <4>2. QED
        BY <2>2, <2>3, <2>4, <2>5, <3>1, <4>1, NotesAreNumbers DEF NotesRun
    <3>3. CASE ocr.rec # r
      <4>1. ocr'.doc.note = ocr.doc.note /\ Head(gui'.rest) # ocr'.rec
        BY <2>4, <2>5, <3>3 DEF Shares
      <4>2. QED
        BY <2>2, <2>5, <3>1, <4>1 DEF NotesRun
    <3>4. QED
      BY <3>2, <3>3
  <2>10. gui'.doc.note = notes' /\ gui'.rest = <<Head(gui'.rest)>>
    BY <2>2, <2>3, <2>4
  <2>11. QED
    BY <2>7, <2>8, <2>9, <2>10 DEF NotesRun
<1>2. CASE AnnotateWrite
  <2> DEFINE c == Head(gui.rest)
  <2>1. c \in Records /\ gui.doc \in Doc /\ gui'.at = "idle" /\ gui.at = "note"
    BY <1>2, HeadTailEffect DEF AnnotateWrite, GuiIdle, Types, VaultTypeOK, GuiType
  <2>2. UNCHANGED <<ocr, notes>>
    BY <1>2 DEF AnnotateWrite, history
  <2>3. Touch(c) /\ \A q \in Records : file'[q] = IF q = c THEN [is |-> "open", doc |-> gui.doc] ELSE file[q]
    BY <1>2, <2>1, Written DEF AnnotateWrite
  <2>4. gui.doc.note <= notes /\ (Reindexing /\ ocr.rec = c /\ ~ocr.missed => gui.doc.note <= ocr.doc.note)
    BY <2>1, NotesAreNumbers DEF NotesRun
  <2>5. Reindexing' <=> Reindexing
    BY <2>2 DEF Reindexing
  <2> HIDE DEF c
  <2>6. QED
    BY <2>1, <2>2, <2>3, <2>4, <2>5, TouchNotes
<1>3. CASE AnnotateFails
  <2>1. gui'.at = "idle" /\ UNCHANGED <<file, cache, notes, ocr>>
    BY <1>3 DEF AnnotateFails, GuiIdle, disk, memory
  <2>2. QED
    BY <2>1, MemoryNotes, SameNotes DEF Reindexing
<1>4. ASSUME NEW rs \in SUBSET ToSet(order), DeleteBegin(rs)
      PROVE  NotesRun'
  <2>1. gui'.at = "delete" /\ UNCHANGED <<file, cache, notes, ocr>>
    BY <1>4 DEF DeleteBegin, GuiIdle, disk, memory
  <2>2. QED
    BY <2>1, MemoryNotes, SameNotes DEF Reindexing
<1>5. CASE DeleteImage
  <2>1. Head(gui.rest) \in Records /\ gui'.at # "note" /\ UNCHANGED <<file, notes, ocr>>
    BY <1>5, HeadTailEffect DEF DeleteImage, Types, VaultTypeOK, GuiType
  <2>2. NextNotes
    BY <1>5, <2>1, LoadNotes DEF DeleteImage
  <2>3. QED
    BY <2>1, <2>2, SameNotes DEF Reindexing
<1>6. CASE DeleteRecord
  <2> DEFINE h == Head(gui.rest)
  <2>1. h \in Records /\ Blank \in Doc /\ gui'.at = "delete"
    BY <1>6, HeadTailEffect, NothingTyped DEF DeleteRecord, Types, VaultTypeOK, GuiType
  <2>2. Touch(h) /\ \A q \in Records : file'[q] = IF q = h THEN [is |-> "none", doc |-> Blank] ELSE file[q]
    BY <1>6, <2>1, Erased DEF DeleteRecord, NoFile
  <2>3. Blank.note <= notes /\ Blank.note <= ocr.doc.note /\ UNCHANGED <<ocr, notes>>
    BY <1>6, NotesAreNumbers DEF DeleteRecord
  <2>4. Reindexing' <=> Reindexing
    BY <2>3 DEF Reindexing
  <2> HIDE DEF h
  <2>5. QED
    BY <2>1, <2>2, <2>3, <2>4, TouchNotes
<1>7. CASE DeleteEnd
  <2>1. /\ gui'.at = "idle" /\ UNCHANGED <<file, notes, ocr>>
        /\ \A r \in Records : cache'[r] = NoEntry
    BY <1>7 DEF DeleteEnd, GuiIdle, disk
  <2>2. NextNotes
    BY <2>1, NotesAreNumbers DEF NextNotes, NoEntry
  <2>3. QED
    BY <2>1, <2>2, SameNotes DEF Reindexing
<1>8. QED
  BY <1>1, <1>2, <1>3, <1>4, <1>5, <1>6, <1>7 DEF GuiStep

LEMMA NotesHold ==
  ASSUME Types, StampsAreUnique, NotesRun, [Next]_vars
  PROVE  NotesRun'
<1>1. CASE SearchStep
  <2>1. UNCHANGED <<file, notes, ocr, gui>>
    BY <1>1 DEF SearchStep, SearchBegin, SearchRead, SearchEnd, disk, history
  <2>2. NextNotes
    <3>1. CASE UNCHANGED memory
      BY <3>1, MemoryNotes DEF memory
    <3>2. CASE ~UNCHANGED memory
      <4> DEFINE r == Head(search.todo)
      <4>1. SearchRead
        BY <1>1, <3>2 DEF SearchStep, SearchBegin, SearchEnd
      <4>2. {r} \in SUBSET Records
        BY <4>1, HeadTailEffect DEF SearchRead, Types, VaultTypeOK
      <4>3. PICK o \in Evictions({r}) : cache' = Loaded({r}, o)
        BY <3>2, <4>1 DEF SearchRead
      <4> HIDE DEF r
      <4>4. QED
        BY <4>2, <4>3, LoadedNotes DEF NextNotes
    <3>3. QED
      BY <3>1, <3>2
  <2>3. QED
    BY <2>1, <2>2, SameNotes DEF Reindexing
<1>2. CASE ImportStep
  <2>1. UNCHANGED <<ocr, gui, notes>>
    BY <1>2 DEF ImportStep, ImportImage, ImportRecord, ImportFails, history
  <2>2. Reindexing' <=> Reindexing
    BY <2>1 DEF Reindexing
  <2>3. CASE ImportRecord
    <3> DEFINE c == import.rec
    <3>1. c \in Records /\ Pending(c) /\ New \in Doc
      BY <2>3, NothingTyped DEF ImportRecord, Types, VaultTypeOK, Pending
    <3>2. Reindexing => ocr.rec # c
      BY <3>1 DEF StampsAreUnique, Known, Reindexing
    <3>3. Touch(c) /\ \A q \in Records : file'[q] = IF q = c THEN [is |-> "open", doc |-> New] ELSE file[q]
      BY <2>3, <3>1, Written DEF ImportRecord
    <3>4. New.note <= notes
      BY NotesAreNumbers
    <3> HIDE DEF c
    <3>5. QED
      BY <2>1, <2>2, <3>1, <3>2, <3>3, <3>4, TouchNotes
  <2>4. CASE ~ImportRecord
    <3>1. UNCHANGED <<file, cache>>
      BY <1>2, <2>4 DEF ImportStep, ImportImage, ImportFails, memory
    <3>2. QED
      BY <2>1, <2>2, <3>1, MemoryNotes, SameNotes
  <2>5. QED
    BY <2>3, <2>4
<1>3. CASE Crash
  <2>1. /\ gui'.at = "idle" /\ ~Reindexing' /\ ocr'.doc.note = 0 /\ UNCHANGED <<file, notes>>
        /\ \A r \in Records : cache'[r] = NoEntry
    BY <1>3, NotesAreNumbers DEF Crash, GuiIdle, OcrIdle, Reindexing, disk
  <2>2. NextNotes
    BY <2>1, NotesAreNumbers DEF NextNotes, NoEntry
  <2>3. QED
    BY <2>1, <2>2, SameNotes
<1>4. CASE UNCHANGED vars
  BY <1>4, MemoryNotes, SameNotes DEF vars, disk, memory, history, Reindexing
<1>5. QED
  BY <1>1, <1>2, <1>3, <1>4, CaptureNotes, OcrNotes, GuiNotes DEF Next

-----------------------------------------------------------------------------
(* The theorems.                                                           *)

LEMMA InitInvariant == Init => VaultInvariant
<1> SUFFICES ASSUME Init
             PROVE  VaultInvariant
  OBVIOUS
<1>1. Types
  BY InitTypes
<1>2. /\ capture.at = "idle" /\ ocr.at = "idle" /\ gui.at = "idle" /\ import.at = "idle"
      /\ gui.rest = <<>> /\ removed = {} /\ doomed = {} /\ used = Stored \cup Legacy
      /\ images = Stored \cup Legacy /\ notes = 0 /\ ~Reindexing
  BY DEF Init, CaptureIdle, OcrIdle, GuiIdle, ImportIdle, Reindexing
<1>3. \A r \in Records : /\ file[r].is = "open" <=> r \in Stored
                         /\ file[r].is # "none" <=> r \in Stored \cup Legacy
                         /\ file[r].is = "sealed" <=> r \in Legacy
                         /\ file[r].doc.note = 0
                         /\ cache[r] = NoEntry /\ index[r] = NoEntry
  BY VaultAssumption DEF Init, NoFile, Blank, New, NoEntry
<1>4. ocr.doc.note = 0
  BY DEF Init, OcrIdle, Blank
<1>5. \A r \in ToSet(order) : r \in Stored \cup Legacy
  BY DEF Init, ToSet
<1>6. ToSet(gui.rest) = {}
  BY <1>2, EmptyList
<1>7. StampsAreUnique
  BY <1>2, <1>3, <1>5, <1>6 DEF StampsAreUnique, Pending, Known
<1>8. ImagesKept /\ DoomedFirst /\ SweepSpares
  BY <1>2, <1>3 DEF ImagesKept, DoomedFirst, SweepSpares
<1>9. RemovedTogether /\ ImagesFirst
  BY <1>2, <1>3, <1>5, <1>6, VaultAssumption DEF RemovedTogether, ImagesFirst, Bare
<1>10. CachesAgree
  BY <1>3 DEF CachesAgree, NoEntry
<1>11. NotesRun
  BY <1>2, <1>3, <1>4 DEF NotesRun, NoEntry, Blank
<1>12. QED
  BY <1>1, <1>7, <1>8, <1>9, <1>10, <1>11 DEF VaultInvariant, Types

LEMMA NextInvariant == VaultInvariant /\ [Next]_vars => VaultInvariant'
<1> SUFFICES ASSUME VaultInvariant, [Next]_vars
             PROVE  VaultInvariant'
  OBVIOUS
<1>1. Types /\ StampsAreUnique /\ ImagesStay /\ RemovedStay
  BY DEF VaultInvariant, Types, ImagesStay, RemovedStay
<1>2. CachesAgree /\ NotesRun
  BY DEF VaultInvariant
<1>3. Types' /\ StampsAreUnique'
  BY <1>1, TypesHold, NamesHold
<1>4. ImagesStay' /\ RemovedStay'
  BY <1>1, ImagesHold, RemovedHold
<1>5. CachesAgree' /\ NotesRun'
  BY <1>1, <1>2, CachesHold, NotesHold
<1>6. QED
  BY <1>3, <1>4, <1>5 DEF VaultInvariant, Types, ImagesStay, RemovedStay

(* The steps that write or remove a record file.                           *)
LEMMA FileSteps ==
  ASSUME [Next]_vars
  PROVE  \/ CaptureRecord \/ ImportRecord \/ PruneUnlink \/ DeleteRecord
         \/ OcrWrite \/ AnnotateWrite
         \/ UNCHANGED file
<1>1. CaptureStep => CaptureRecord \/ PruneUnlink \/ UNCHANGED file
  BY DEF CaptureStep, CaptureBegin, CaptureImage, CaptureFails, PruneBegin, PruneDrop,
    PruneKeep, PruneAborts, Reference, Sweep, disk
<1>2. OcrStep => OcrWrite \/ UNCHANGED file
  BY DEF OcrStep, OcrBegin, OcrPreview, OcrRecognize, OcrSkip, OcrDump, OcrFails, OcrReport, disk
<1>3. GuiStep => AnnotateWrite \/ DeleteRecord \/ UNCHANGED file
  BY DEF GuiStep, Annotate, AnnotateFails, DeleteBegin, DeleteImage, DeleteEnd, disk
<1>4. SearchStep \/ ImportStep \/ Crash => ImportRecord \/ UNCHANGED file
  BY DEF SearchStep, SearchBegin, SearchRead, SearchEnd, ImportStep, ImportImage, ImportFails,
    Crash, disk
<1>5. UNCHANGED vars => UNCHANGED file
  BY DEF vars, disk
<1>6. QED
  BY <1>1, <1>2, <1>3, <1>4, <1>5 DEF Next

LEMMA NotesStep ==
  ASSUME Types, StampsAreUnique, NotesRun, [Next]_vars, NEW r \in Records,
         file[r].is = "open", file'[r].is = "open", file'[r].doc.note < file[r].doc.note
  PROVE  ocr.at = "write" /\ ocr.rec = r /\ ocr.missed
<1>1. /\ file[r].doc.note \in Nat /\ notes \in Nat /\ file[r].doc.note <= notes
      /\ file'[r] # file[r]
  <2>1. file[r].doc.note \in Nat /\ notes \in Nat /\ file[r].doc.note <= notes
    BY NotesAreNumbers DEF NotesRun
  <2>2. QED
    BY <2>1
<1>2. CASE CaptureRecord
  <2> DEFINE c == capture.rec
  <2>1. c \in Records /\ Pending(c) /\ New \in Doc
    BY <1>2, NothingTyped DEF CaptureRecord, Types, VaultTypeOK, Pending
  <2>2. file[c].is = "none"
    BY <2>1, PendingHasNoFile
  <2>3. \A q \in Records : file'[q] = IF q = c THEN [is |-> "open", doc |-> New] ELSE file[q]
    BY <1>2, <2>1, Written DEF CaptureRecord
  <2>4. QED
    BY <1>1, <2>2, <2>3
<1>3. CASE ImportRecord
  <2> DEFINE c == import.rec
  <2>1. c \in Records /\ Pending(c) /\ New \in Doc
    BY <1>3, NothingTyped DEF ImportRecord, Types, VaultTypeOK, Pending
  <2>2. file[c].is = "none"
    BY <2>1, PendingHasNoFile
  <2>3. \A q \in Records : file'[q] = IF q = c THEN [is |-> "open", doc |-> New] ELSE file[q]
    BY <1>3, <2>1, Written DEF ImportRecord
  <2>4. QED
    BY <1>1, <2>2, <2>3
<1>4. CASE PruneUnlink \/ DeleteRecord
  <2>1. PICK h \in Records : Erase(h)
    BY <1>4, HeadTailEffect DEF PruneUnlink, DeleteRecord, Types, VaultTypeOK, CaptureType, GuiType
  <2>2. \A q \in Records : file'[q] = IF q = h THEN NoFile ELSE file[q]
    BY <2>1, Erased
  <2>3. QED
    BY <1>1, <2>2 DEF NoFile
<1>5. CASE AnnotateWrite
  <2> DEFINE c == Head(gui.rest)
  <2>1. c \in Records /\ gui.doc \in Doc /\ gui.doc.note = notes
    BY <1>5, HeadTailEffect DEF AnnotateWrite, Types, VaultTypeOK, GuiType, NotesRun
  <2>2. \A q \in Records : file'[q] = IF q = c THEN [is |-> "open", doc |-> gui.doc] ELSE file[q]
    BY <1>5, <2>1, Written DEF AnnotateWrite
  <2> HIDE DEF c
  <2>3. file'[r].doc.note = notes
    BY <1>1, <2>1, <2>2
  <2>4. QED
    BY <1>1, <2>3
<1>6. CASE OcrWrite
  <2>1. ocr.rec \in Records /\ ocr.doc \in Doc /\ ocr.at = "write" /\ Reindexing
    BY <1>6 DEF OcrWrite, Types, VaultTypeOK, OcrType, Reindexing
  <2>2. \A q \in Records : file'[q] = IF q = ocr.rec THEN [is |-> "open", doc |-> ocr.doc] ELSE file[q]
    BY <1>6, <2>1, Written DEF OcrWrite
  <2>3. ocr.rec = r /\ file'[r].doc = ocr.doc
    BY <1>1, <2>1, <2>2
  <2>4. ~ocr.missed => file[r].doc.note <= ocr.doc.note
    BY <2>1, <2>3 DEF NotesRun
  <2>5. ocr.doc.note \in Nat
    BY NotesAreNumbers
  <2>6. QED
    BY <1>1, <2>1, <2>3, <2>4, <2>5
<1>7. QED
  BY <1>1, <1>2, <1>3, <1>4, <1>5, <1>6, FileSteps

(* Whatever the threads do and in whatever order, and wherever the process *)
(* dies: stamps stay unique, images go before their records, the caches    *)
(* follow the files and notes are only lost to a reindexing that missed    *)
(* them.  The invariant that the theorems below are read from.             *)
THEOREM VaultStaysSound == Spec => []VaultInvariant
<1>1. QED
  BY InitInvariant, NextInvariant, PTL DEF Spec

(* Every variable of the vault keeps its type, a thread at work has its    *)
(* record, and the object a reindexing shares with the cache is in it.     *)
THEOREM TypeCorrect == Spec => []VaultTypeOK
<1>1. VaultInvariant => VaultTypeOK
  BY DEF VaultInvariant
<1>2. QED
  BY <1>1, VaultStaysSound, PTL

(* No interleaving of save, prune with its sweep, delete and import takes  *)
(* the image of a record that can be read, but those ImagesKept names.     *)
THEOREM ImagesAreKept == Spec => []ImagesKept
<1>1. VaultInvariant => ImagesKept
  BY DEF VaultInvariant
<1>2. QED
  BY <1>1, VaultStaysSound, PTL

(* delete and clear leave no image of what they remove, though captures,   *)
(* imports, reindexing and the sweep go on meanwhile.                      *)
THEOREM ImagesGoWithRecords == Spec => []RemovedTogether
<1>1. VaultInvariant => RemovedTogether
  BY DEF VaultInvariant
<1>2. QED
  BY <1>1, VaultStaysSound, PTL

(* search never offers, under the current signature of a file, a text the  *)
(* file does not hold, but for an update that is under way or failed.      *)
THEOREM SearchIsCurrent == Spec => []SearchTellsTruth
<1>1. VaultInvariant => SearchTellsTruth
  BY DEF VaultInvariant, CachesAgree, Fresh, SearchTellsTruth
<1>2. QED
  BY <1>1, VaultStaysSound, PTL

(* A step takes a note from a record only when it is the write of a        *)
(* reindexing that missed it: annotate and reindex share one object.       *)
THEOREM NotesAreKept == Spec => NotesKept
<1>1. VaultInvariant /\ [Next]_vars =>
        [\A r \in Records :
           file[r].is = "open" /\ file'[r].is = "open" /\ file'[r].doc.note < file[r].doc.note
           => ocr.at = "write" /\ ocr.rec = r /\ ocr.missed]_vars
  BY NotesStep DEF VaultInvariant, Types
<1>2. QED
  BY <1>1, VaultStaysSound, PTL DEF Spec, NotesKept

-----------------------------------------------------------------------------
(* The key of the vault                                                    *)

(* Whoever looks for the key or creates it holds the lock.                 *)
Looking == {"create", "file", "writing", "found", "pinning"}
LockIsHeld == \A p \in Processes : process[p].at \in Looking => keyLock = p

(* A process past "idle" has a key.  One that creates it met no            *)
(* descriptor, one that found it no torn one, one that pins it made it.    *)
Progress ==
  \A p \in Processes :
    /\ process[p].at # "idle" => process[p].key \in VaultKeys
    /\ process[p].at \in {"create", "file", "writing"} => identity.is = "none"
    /\ process[p].at = "found" => identity.is # "torn"
    /\ process[p].at = "pinning" => identity.is = "torn"

(* All records written since are of one key: the pinned one, without which *)
(* nobody writes.  While records of former versions are left, it is a key  *)
(* of that history, and so is the one about to be pinned.                  *)
OneKey ==
  /\ legacy \subseteq former
  /\ identity.is = "full" => identity.key \in VaultKeys /\ sealed \subseteq {identity.key}
  /\ identity.is = "full" /\ legacy # {} => identity.key \in former
  /\ identity.is # "full" => sealed = {} /\ identity.backend = "none" /\ identity.account = "default"
  /\ \A p \in Processes :
       /\ process[p].at = "pinning" /\ legacy # {} => process[p].key \in former
       /\ process[p].at = "using" => identity.is = "full" /\ process[p].key = identity.key

(* Where the backend and the account of a process lead to                  *)
Held(p) == IF process[p].backend = "store" THEN store[process[p].account] ELSE keyFile

(* The descriptor leads to the key, and so will the one that is written.   *)
Recoverable ==
  ~lost =>
    /\ identity.is = "full" => Lookup = identity.key
    /\ \A p \in Processes : process[p].at \in {"found", "pinning"} => Held(p) = process[p].key

KeyInvariant ==
  /\ KeyTypeOK
  /\ LockIsHeld
  /\ Progress
  /\ OneKey
  /\ Recoverable

-----------------------------------------------------------------------------
LEMMA KeyStartOk == KeyInit => KeyInvariant
<1> SUFFICES ASSUME KeyInit PROVE KeyInvariant
  OBVIOUS
<1>1. /\ process = [p \in Processes |-> Free] /\ Free \in ProcessType /\ Free.at = "idle"
      /\ identity \in IdentityType /\ identity.is = "none" /\ identity.backend = "none"
      /\ identity.account = "default"
  BY DEF KeyInit, Free, ProcessType, NoIdentity, IdentityType, Accounts
<1>2. KeyTypeOK
  <2>1. process \in [Processes -> ProcessType] /\ identity \in IdentityType
    BY <1>1
  <2>2. store \in [Accounts -> VaultKeys \cup {NoKey}]
    BY DEF KeyInit
  <2>3. tampering \in 0..MaxTampering
    BY KeyAssumption DEF KeyInit
  <2>4. /\ legacy \subseteq VaultKeys /\ sealed \subseteq VaultKeys /\ former \subseteq VaultKeys
        /\ pictured \in BOOLEAN
    BY DEF KeyInit
  <2>5. QED
    BY <2>1, <2>2, <2>3, <2>4 DEF KeyInit, KeyTypeOK
<1>3. QED
  BY <1>1, <1>2
     DEF KeyInit, KeyInvariant, LockIsHeld, Looking, Progress, OneKey, Recoverable, Held

(* Only one process looks for the key at a time.                           *)
LEMMA NobodyElseLooks ==
  ASSUME KeyInvariant, NEW p \in Processes, NEW q \in Processes, p # q,
         keyLock = "nobody" \/ process[p].at \in Looking
  PROVE  process[q].at \notin Looking
BY KeyAssumption DEF KeyInvariant, LockIsHeld

LEMMA FindKeyInv ==
  ASSUME KeyInvariant, NEW p \in Processes, FindKey(p)
  PROVE  KeyInvariant'
<1>0. /\ process[p].at = "idle" /\ keyLock = "nobody" /\ identity.is # "torn"
      /\ UNCHANGED <<keyFile, identity, store, legacy, sealed, pictured, former, lost, tampering>>
      /\ process \in [Processes -> ProcessType] /\ identity \in IdentityType
      /\ \A q \in Processes : q # p => process[q].at \notin Looking
  BY NobodyElseLooks DEF FindKey, KeyInvariant, KeyTypeOK
<1>1. PICK r \in ProcessType :
        /\ process' = [process EXCEPT ![p] = r] /\ keyLock' = p
        /\ r.key \in VaultKeys
        /\ \/ /\ r.at = "found"
              /\ r.key = IF r.backend = "store" THEN store[r.account] ELSE keyFile
           \/ r.at = "create" /\ identity.is = "none"
  <2>1. CASE keyFile # NoKey /\ identity.backend # "store"
    <3> DEFINE r == [at |-> "found", key |-> keyFile, backend |-> "file", account |-> identity.account]
    <3>1. keyFile \in VaultKeys
      BY <2>1 DEF FindKey, KeyInvariant, KeyTypeOK
    <3>2. r \in ProcessType
      BY <1>0, <3>1 DEF ProcessType, IdentityType
    <3>3. process' = [process EXCEPT ![p] = r] /\ keyLock' = p
      BY <2>1 DEF FindKey
    <3>4. QED
      BY <3>1, <3>2, <3>3
  <2>2. CASE ~(keyFile # NoKey /\ identity.backend # "store") /\ store[identity.account] # NoKey
             /\ process' = [process EXCEPT ![p] = [at |-> "found", key |-> store[identity.account],
                              backend |-> "store", account |-> identity.account]]
             /\ keyLock' = p
    <3> DEFINE r == [at |-> "found", key |-> store[identity.account], backend |-> "store",
                     account |-> identity.account]
    <3>1. store[identity.account] \in VaultKeys
      BY <1>0, <2>2 DEF KeyInvariant, KeyTypeOK, IdentityType
    <3>2. r \in ProcessType
      BY <1>0, <3>1 DEF ProcessType, IdentityType
    <3>4. QED
      BY <2>2, <3>1, <3>2
  <2>3. ASSUME NEW k \in VaultKeys, ~Existing, keyLock' = p,
               process' = [process EXCEPT ![p] = [Free EXCEPT !.at = "create", !.key = k]]
        PROVE  \E r \in ProcessType :
                 /\ process' = [process EXCEPT ![p] = r] /\ keyLock' = p
                 /\ r.key \in VaultKeys /\ r.at = "create" /\ identity.is = "none"
    <3> DEFINE r == [Free EXCEPT !.at = "create", !.key = k]
    <3>1. r \in ProcessType /\ r.key = k /\ r.at = "create"
      BY DEF Free, ProcessType, Accounts
    <3>2. identity.is = "none"
      BY <1>0, <2>3 DEF Existing, IdentityType
    <3> HIDE DEF r
    <3>3. process' = [process EXCEPT ![p] = r]
      BY <2>3 DEF r
    <3>4. QED
      BY <2>3, <3>1, <3>2, <3>3
  <2>4. QED
    BY <2>1, <2>2, <2>3 DEF FindKey
<1>2. process' \in [Processes -> ProcessType]
      /\ \A q \in Processes : process'[q] = IF q = p THEN r ELSE process[q]
  BY <1>0, <1>1
<1>3. KeyTypeOK'
  BY <1>0, <1>1, <1>2 DEF KeyInvariant, KeyTypeOK
<1>4. LockIsHeld'
  BY <1>0, <1>1, <1>2 DEF LockIsHeld
<1>5. Progress'
  BY <1>0, <1>1, <1>2 DEF KeyInvariant, Progress
<1>6. OneKey'
  BY <1>0, <1>1, <1>2 DEF KeyInvariant, OneKey
<1>7. Recoverable'
  BY <1>0, <1>1, <1>2 DEF KeyInvariant, Recoverable, Held, Lookup
<1>8. QED
  BY <1>3, <1>4, <1>5, <1>6, <1>7 DEF KeyInvariant

(* A process that creates the key is alone, without descriptor.            *)
LEMMA CreateInv ==
  ASSUME KeyInvariant, NEW p \in Processes, StoreKey(p) \/ CreateKeyFile(p) \/ WriteKeyFile(p)
  PROVE  KeyInvariant'
<1>0. /\ process[p].at \in {"create", "file", "writing"}
      /\ UNCHANGED <<identity, keyLock, legacy, sealed, pictured, former, lost, tampering>>
      /\ process \in [Processes -> ProcessType] /\ process[p] \in ProcessType
      /\ \A q \in Processes : q # p => process[q].at \notin Looking
      /\ identity.is = "none" /\ process[p].key \in VaultKeys /\ keyLock = p
  BY NobodyElseLooks
     DEF StoreKey, CreateKeyFile, WriteKeyFile, KeyInvariant, KeyTypeOK, Progress, LockIsHeld, Looking
<1>1. PICK r \in ProcessType :
        /\ process' = [process EXCEPT ![p] = r] /\ r.key = process[p].key
        /\ \/ r.at \in {"file", "writing"}
           \/ r.at = "found" /\ r.key = IF r.backend = "store" THEN store'[r.account] ELSE keyFile'
  <2>1. CASE StoreKey(p)
    <3>1. CASE process' = [process EXCEPT ![p].at = "found", ![p].backend = "store",
                                          ![p].account = "scoped"]
               /\ store' = [store EXCEPT !["scoped"] = process[p].key]
      <4> DEFINE r == [process[p] EXCEPT !.at = "found", !.backend = "store", !.account = "scoped"]
      <4>1. r \in ProcessType /\ r.key = process[p].key /\ r.at = "found"
            /\ r.backend = "store" /\ r.account = "scoped"
        BY <1>0 DEF ProcessType, Accounts
      <4>2. store'["scoped"] = process[p].key
        BY <3>1 DEF KeyInvariant, KeyTypeOK, Accounts
      <4>3. process' = [process EXCEPT ![p] = r]
        BY <1>0, <3>1
      <4> HIDE DEF r
      <4>4. QED
        BY <4>1, <4>2, <4>3
    <3>2. CASE Goes(p, "file")
      <4> DEFINE r == [process[p] EXCEPT !.at = "file"]
      <4>1. r \in ProcessType /\ r.key = process[p].key /\ r.at = "file"
        BY <1>0 DEF ProcessType
      <4>2. process' = [process EXCEPT ![p] = r]
        BY <1>0, <3>2 DEF Goes
      <4> HIDE DEF r
      <4>3. QED
        BY <4>1, <4>2
    <3>3. QED
      BY <2>1, <3>1, <3>2 DEF StoreKey
  <2>2. CASE CreateKeyFile(p)
    <3> DEFINE r == [process[p] EXCEPT !.at = "writing"]
    <3>1. r \in ProcessType /\ r.key = process[p].key /\ r.at = "writing"
      BY <1>0 DEF ProcessType
    <3>2. process' = [process EXCEPT ![p] = r]
      BY <1>0, <2>2 DEF CreateKeyFile, Goes
    <3> HIDE DEF r
    <3>3. QED
      BY <3>1, <3>2
  <2>3. CASE WriteKeyFile(p)
    <3> DEFINE r == [process[p] EXCEPT !.at = "found", !.backend = "file"]
    <3>1. r \in ProcessType /\ r.key = process[p].key /\ r.at = "found" /\ r.backend = "file"
      BY <1>0 DEF ProcessType
    <3>2. process' = [process EXCEPT ![p] = r] /\ keyFile' = process[p].key
      BY <1>0, <2>3 DEF WriteKeyFile
    <3> HIDE DEF r
    <3>3. QED
      BY <3>1, <3>2
  <2>4. QED
    BY <2>1, <2>2, <2>3
<1>2. process' \in [Processes -> ProcessType]
      /\ \A q \in Processes : process'[q] = IF q = p THEN r ELSE process[q]
  BY <1>0, <1>1
<1>3. keyFile' \in VaultKeys \cup {NoKey, Torn} /\ store' \in [Accounts -> VaultKeys \cup {NoKey}]
  BY <1>0 DEF StoreKey, CreateKeyFile, WriteKeyFile, KeyInvariant, KeyTypeOK, Accounts
<1>4. KeyTypeOK'
  BY <1>0, <1>2, <1>3 DEF KeyInvariant, KeyTypeOK
<1>5. LockIsHeld'
  BY <1>0, <1>1, <1>2 DEF LockIsHeld
<1>6. Progress'
  BY <1>0, <1>1, <1>2 DEF KeyInvariant, Progress
<1>7. OneKey'
  BY <1>0, <1>1, <1>2 DEF KeyInvariant, OneKey
<1>8. Recoverable'
  BY <1>0, <1>1, <1>2 DEF KeyInvariant, Recoverable, Held, Lookup, Looking
<1>9. QED
  BY <1>4, <1>5, <1>6, <1>7, <1>8 DEF KeyInvariant

(* What is handed out is pinned.                                           *)
LEMMA PinInv ==
  ASSUME KeyInvariant, NEW p \in Processes, CheckKey(p) \/ PinKey(p)
  PROVE  KeyInvariant'
<1>0. /\ process[p].at \in {"found", "pinning"}
      /\ UNCHANGED <<keyFile, store, legacy, sealed, pictured, former, lost, tampering>>
      /\ process \in [Processes -> ProcessType] /\ process[p] \in ProcessType
      /\ \A q \in Processes : q # p => process[q].at \notin Looking
      /\ process[p].key \in VaultKeys /\ keyLock = p
  BY NobodyElseLooks DEF CheckKey, PinKey, KeyInvariant, KeyTypeOK, Progress, LockIsHeld, Looking
<1>1. \A at \in {"using", "pinning"} :
        LET r == [process[p] EXCEPT !.at = at] IN
          /\ r \in ProcessType /\ r.at = at /\ r.key = process[p].key
          /\ r.backend = process[p].backend /\ r.account = process[p].account
          /\ Goes(p, at) => /\ process' \in [Processes -> ProcessType]
                            /\ \A q \in Processes : process'[q] = IF q = p THEN r ELSE process[q]
  BY <1>0 DEF ProcessType, Goes
<1>2. CASE CheckKey(p) /\ identity.is = "full"
  <2>1. identity.key = process[p].key /\ Goes(p, "using") /\ keyLock' = "nobody" /\ UNCHANGED identity
    BY <1>2 DEF CheckKey
  <2>2. KeyTypeOK' /\ LockIsHeld' /\ Progress'
    BY <1>0, <1>1, <1>2, <2>1 DEF KeyInvariant, KeyTypeOK, LockIsHeld, Looking, Progress
  <2>3. OneKey'
    BY <1>0, <1>1, <1>2, <2>1 DEF KeyInvariant, OneKey
  <2>4. Recoverable'
    BY <1>0, <1>1, <1>2, <2>1 DEF KeyInvariant, Recoverable, Held, Lookup
  <2>5. QED
    BY <2>2, <2>3, <2>4 DEF KeyInvariant
<1>3. CASE CheckKey(p) /\ identity.is # "full"
  <2>1. /\ identity.is = "none" /\ (Opened # {} => process[p].key \in Opened)
        /\ identity' = [NoIdentity EXCEPT !.is = "torn"]
        /\ Goes(p, "pinning") /\ UNCHANGED keyLock
    BY <1>3 DEF CheckKey
  <2>2. /\ identity' \in IdentityType /\ identity'.is = "torn" /\ identity'.backend = "none"
        /\ identity'.account = "default"
    BY <2>1 DEF NoIdentity, IdentityType, Accounts
  <2>3. KeyTypeOK'
    BY <1>0, <1>1, <2>1, <2>2 DEF KeyInvariant, KeyTypeOK
  <2> DEFINE r == [process[p] EXCEPT !.at = "pinning"]
  <2>a. /\ \A q \in Processes : process'[q] = IF q = p THEN r ELSE process[q]
        /\ r.at = "pinning" /\ r.key = process[p].key
        /\ r.backend = process[p].backend /\ r.account = process[p].account
    BY <1>1, <2>1
  <2> HIDE DEF r
  <2>4. LockIsHeld'
    BY <1>0, <2>1, <2>a DEF KeyInvariant, LockIsHeld, Looking
  <2>b. Progress'
    BY <1>0, <2>1, <2>2, <2>a DEF KeyInvariant, Looking, Progress
  <2>5. OneKey'
    BY <1>0, <2>1, <2>2, <2>a DEF KeyInvariant, OneKey, Looking, Opened
  <2>c. process[p].at = "found"
    BY <1>3 DEF CheckKey
  <2>6. Recoverable'
    BY <1>0, <2>1, <2>2, <2>a, <2>c DEF KeyInvariant, Recoverable, Held, Looking
  <2>7. QED
    BY <2>3, <2>4, <2>5, <2>6, <2>b DEF KeyInvariant
<1>4. CASE PinKey(p)
  <2>1. /\ process[p].at = "pinning" /\ Goes(p, "using") /\ keyLock' = "nobody"
        /\ identity' = [is |-> "full", key |-> process[p].key, backend |-> process[p].backend,
                        account |-> process[p].account]
    BY <1>4 DEF PinKey
  <2>2. /\ identity' \in IdentityType /\ identity'.is = "full" /\ identity'.key = process[p].key
        /\ identity'.backend = process[p].backend /\ identity'.account = process[p].account
    BY <1>0, <2>1 DEF IdentityType, ProcessType
  <2>3. KeyTypeOK'
    BY <1>0, <1>1, <2>1, <2>2 DEF KeyInvariant, KeyTypeOK
  <2>4. LockIsHeld' /\ Progress'
    BY <1>0, <1>1, <2>1, <2>2 DEF KeyInvariant, LockIsHeld, Looking, Progress
  <2>5. OneKey'
    BY <1>0, <1>1, <2>1, <2>2 DEF KeyInvariant, OneKey, Progress, Looking
  <2>6. Recoverable'
    BY <1>0, <1>1, <2>1, <2>2 DEF KeyInvariant, Recoverable, Held, Lookup, Looking
  <2>7. QED
    BY <2>3, <2>4, <2>5, <2>6 DEF KeyInvariant
<1>5. QED
  BY <1>2, <1>3, <1>4

(* A process writes with its key, gives up or dies.                        *)
LEMMA LeaveInv ==
  ASSUME KeyInvariant, NEW p \in Processes, Encrypt(p) \/ GiveUp(p)
  PROVE  KeyInvariant'
<1>0. /\ UNCHANGED <<keyFile, identity, store, legacy, former, lost, tampering>>
      /\ process' = [process EXCEPT ![p] = Free]
      /\ Free \in ProcessType /\ Free.at = "idle"
  BY DEF Encrypt, GiveUp, Leaves, Free, ProcessType, Accounts
<1>1. process' \in [Processes -> ProcessType]
      /\ \A q \in Processes : process'[q] = IF q = p THEN Free ELSE process[q]
  BY <1>0 DEF KeyInvariant, KeyTypeOK
<1>2. keyLock' \in Processes \cup {"nobody"} /\ (keyLock # p => keyLock' = keyLock)
  BY DEF Encrypt, GiveUp, Leaves, KeyInvariant, KeyTypeOK
<1>3. pictured' \in BOOLEAN
      /\ \/ UNCHANGED sealed
         \/ process[p].at = "using" /\ sealed' = sealed \cup {process[p].key}
  BY DEF Encrypt, GiveUp, KeyInvariant, KeyTypeOK
<1>4. KeyTypeOK'
  BY <1>0, <1>1, <1>2, <1>3 DEF KeyInvariant, KeyTypeOK, Progress
<1>5. LockIsHeld' /\ Progress'
  BY <1>0, <1>1, <1>2 DEF KeyInvariant, LockIsHeld, Looking, Progress
<1>6. OneKey'
  BY <1>0, <1>1, <1>3 DEF KeyInvariant, OneKey, Progress
<1>7. Recoverable'
  BY <1>0, <1>1 DEF KeyInvariant, Recoverable, Held, Lookup
<1>8. QED
  BY <1>4, <1>5, <1>6, <1>7 DEF KeyInvariant

LEMMA TamperInv ==
  ASSUME KeyInvariant, LoseKey \/ DeleteRecords
  PROVE  KeyInvariant'
<1>1. CASE LoseKey
  <2>1. tampering' \in 0..MaxTampering
    BY <1>1, KeyAssumption DEF LoseKey, Tamper, KeyInvariant, KeyTypeOK
  <2>2. keyFile' \in VaultKeys \cup {NoKey, Torn} /\ store' \in [Accounts -> VaultKeys \cup {NoKey}]
    BY <1>1 DEF LoseKey, KeyInvariant, KeyTypeOK
  <2>3. QED
    BY <1>1, <2>1, <2>2
       DEF LoseKey, KeyInvariant, KeyTypeOK, LockIsHeld, Progress, OneKey, Recoverable
<1>2. CASE DeleteRecords
  <2>1. tampering' \in 0..MaxTampering
    BY <1>2, KeyAssumption DEF DeleteRecords, Tamper, KeyInvariant, KeyTypeOK
  <2>2. /\ UNCHANGED <<keyFile, identity, store, keyLock, process, former, lost>>
        /\ legacy' \subseteq legacy /\ sealed' \subseteq sealed
    BY <1>2 DEF DeleteRecords
  <2>3. OneKey'
    BY <2>2 DEF KeyInvariant, OneKey
  <2>4. KeyTypeOK'
    BY <1>2, <2>1, <2>2 DEF DeleteRecords, KeyInvariant, KeyTypeOK
  <2>5. LockIsHeld' /\ Progress' /\ Recoverable'
    BY <2>2 DEF KeyInvariant, LockIsHeld, Progress, Recoverable, Held, Lookup
  <2>6. QED
    BY <2>3, <2>4, <2>5 DEF KeyInvariant
<1>3. QED
  BY <1>1, <1>2

LEMMA KeyNextInvariant ==
  ASSUME KeyInvariant, [KeyNext]_keyVars
  PROVE  KeyInvariant'
<1>1. CASE UNCHANGED keyVars
  BY <1>1 DEF keyVars, KeyInvariant, KeyTypeOK, LockIsHeld, Progress, OneKey, Recoverable, Held, Lookup
<1>2. ASSUME NEW p \in Processes, KeyStep(p)
      PROVE  KeyInvariant'
  BY <1>2, FindKeyInv, CreateInv, PinInv, LeaveInv DEF KeyStep
<1>3. QED
  BY <1>1, <1>2, TamperInv DEF KeyNext

(* One key for good, found again where the descriptor says: whatever is    *)
(* written is written with it, and of a history that former versions left, *)
(* of one key or of several, it opens a part.                              *)
THEOREM KeyIsInvariant == KeySpec => []KeyInvariant
<1>1. QED
  BY KeyStartOk, KeyNextInvariant, PTL DEF KeySpec

(* A key is handed out only if it opens every record written since, if it  *)
(* is one of the history the vault came with while some of that is left,   *)
(* and if the descriptor leads to it again.  The records of other keys of  *)
(* a mixed history stay as they are, unopened.                             *)
THEOREM KeyIsKept == KeySpec => KeyContinues
<1> DEFINE Kept == \A p \in Processes : process'[p].at = "using" /\ process[p].at # "using" =>
                     /\ sealed \subseteq {process'[p].key}
                     /\ legacy # {} => process'[p].key \in former
                     /\ identity'.is = "full" /\ identity'.key = process'[p].key
                     /\ ~lost => Lookup' = process'[p].key
<1>1. ASSUME KeyInvariant, KeyInvariant', [KeyNext]_keyVars
      PROVE  Kept
  <2> SUFFICES ASSUME NEW p \in Processes, process'[p].at = "using", process[p].at # "using"
               PROVE  /\ sealed \subseteq {process'[p].key}
                      /\ legacy # {} => process'[p].key \in former
                      /\ identity'.is = "full" /\ identity'.key = process'[p].key
                      /\ ~lost => Lookup' = process'[p].key
    OBVIOUS
  <2>1. /\ identity'.is = "full" /\ identity'.key = process'[p].key
        /\ sealed' \subseteq {process'[p].key}
        /\ legacy' # {} => process'[p].key \in former'
        /\ ~lost' => Lookup' = process'[p].key
    <3>1. OneKey' /\ Recoverable'
      BY <1>1 DEF KeyInvariant
    <3>2. identity'.is = "full" /\ identity'.key = process'[p].key
      BY <3>1 DEF OneKey
    <3>3. sealed' \subseteq {identity'.key} /\ (legacy' # {} => identity'.key \in former')
      BY <3>1, <3>2 DEF OneKey
    <3>4. ~lost' => Lookup' = identity'.key
      BY <3>1, <3>2 DEF Recoverable
    <3>5. QED
      BY <3>2, <3>3, <3>4
  <2>2. process # process' /\ process \in [Processes -> ProcessType]
    BY <1>1 DEF KeyInvariant, KeyTypeOK
  <2>3. UNCHANGED <<legacy, former, lost>>
    BY <1>1, <2>2 DEF KeyNext, KeyStep, FindKey, StoreKey, CreateKeyFile, WriteKeyFile, CheckKey, PinKey,
       Encrypt, GiveUp, LoseKey, DeleteRecords, keyVars
  <2>4. sealed \subseteq sealed'
    BY <1>1, <2>2 DEF KeyNext, KeyStep, FindKey, StoreKey, CreateKeyFile, WriteKeyFile, CheckKey, PinKey,
       Encrypt, GiveUp, LoseKey, DeleteRecords, keyVars
  <2>5. QED
    BY <2>1, <2>3, <2>4
<1>2. QED
  BY KeyIsInvariant, <1>1, PTL DEF KeySpec, KeyContinues

(* What PinnedKey sees of a process: the key it was handed.                *)
HeldBy(p) == IF process[p].at = "using" THEN {process[p].key} ELSE {}

(* A step that neither writes the descriptor nor hands a key out changes   *)
(* nothing there.                                                          *)
LEMMA KeyStutters ==
  ASSUME UNCHANGED <<identity, legacy, sealed, former>>,
         \A p \in Processes : \/ process'[p].at # "using" /\ process[p].at # "using"
                              \/ process'[p] = process[p]
  PROVE  UNCHANGED Pinned!pinVars
<1>1. UNCHANGED [p \in Processes |-> HeldBy(p)]
  BY DEF HeldBy
<1>2. QED
  BY <1>1 DEF Pinned!pinVars, HeldBy

(* Each step of a process is one of PinnedKey or none.                     *)
LEMMA KeyStepRefines ==
  ASSUME KeyInvariant, NEW p \in Processes, KeyStep(p)
  PROVE  [Pinned!PinNext]_(Pinned!pinVars)
<1> DEFINE held == [q \in Processes |-> HeldBy(q)]
<1>0. /\ process \in [Processes -> ProcessType] /\ process[p] \in ProcessType
      /\ process[p].at # "idle" => process[p].key \in VaultKeys
  BY DEF KeyInvariant, KeyTypeOK, Progress
<1>1. ASSUME NEW r, process' = [process EXCEPT ![p] = r]
      PROVE  /\ process'[p] = r /\ \A q \in Processes \ {p} : process'[q] = process[q]
             /\ held' = [held EXCEPT ![p] = IF r.at = "using" THEN {r.key} ELSE {}]
  <2>1. process'[p] = r /\ \A q \in Processes \ {p} : process'[q] = process[q]
    BY <1>0, <1>1
  <2>2. \A q \in Processes : HeldBy(q)' = IF q = p THEN (IF r.at = "using" THEN {r.key} ELSE {}) ELSE HeldBy(q)
    BY <2>1 DEF HeldBy
  <2>3. QED
    BY <2>1, <2>2
<1>2. held = [q \in Processes |-> IF process[q].at = "using" THEN {process[q].key} ELSE {}]
  BY DEF HeldBy
<1>3. held[p] = HeldBy(p)
  OBVIOUS
<1>4. ASSUME UNCHANGED <<identity, legacy, sealed, former>>, NEW r, process' = [process EXCEPT ![p] = r],
             r.at # "using", process[p].at # "using"
      PROVE  UNCHANGED Pinned!pinVars
  BY <1>1, <1>4, KeyStutters
<1>5. CASE FindKey(p)
  <2>1. UNCHANGED <<identity, legacy, sealed, former>> /\ process[p].at = "idle"
    BY <1>5 DEF FindKey
  <2>2. \E r : process' = [process EXCEPT ![p] = r] /\ r.at # "using"
    <3>1. ASSUME NEW k \in VaultKeys,
                 process' = [process EXCEPT ![p] = [Free EXCEPT !.at = "create", !.key = k]]
          PROVE  \E r : process' = [process EXCEPT ![p] = r] /\ r.at # "using"
      <4> DEFINE r == [Free EXCEPT !.at = "create", !.key = k]
      <4>1. r.at = "create"
        BY DEF Free
      <4>2. process' = [process EXCEPT ![p] = r]
        BY <3>1
      <4>3. QED
        BY <4>1, <4>2
    <3>2. ASSUME NEW k, NEW b, NEW a,
                 process' = [process EXCEPT ![p] = [at |-> "found", key |-> k, backend |-> b, account |-> a]]
          PROVE  \E r : process' = [process EXCEPT ![p] = r] /\ r.at # "using"
      <4> DEFINE r == [at |-> "found", key |-> k, backend |-> b, account |-> a]
      <4>1. r.at = "found" /\ process' = [process EXCEPT ![p] = r]
        BY <3>2
      <4> HIDE DEF r
      <4>2. QED
        BY <4>1
    <3>3. QED
      BY <1>5, <3>1, <3>2 DEF FindKey
  <2>3. QED
    BY <1>4, <2>1, <2>2
<1>6. CASE StoreKey(p) \/ CreateKeyFile(p) \/ WriteKeyFile(p)
  <2>1. UNCHANGED <<identity, legacy, sealed, former>> /\ process[p].at \in {"create", "file", "writing"}
    BY <1>6 DEF StoreKey, CreateKeyFile, WriteKeyFile
  <2>2. \E at \in {"file", "writing"} : process' = [process EXCEPT ![p].at = at]
        \/ process' = [process EXCEPT ![p].at = "found", ![p].backend = "store", ![p].account = "scoped"]
        \/ process' = [process EXCEPT ![p].at = "found", ![p].backend = "file"]
    BY <1>6 DEF StoreKey, CreateKeyFile, WriteKeyFile, Goes
  <2>3. process'[p].at # "using" /\ \A q \in Processes \ {p} : process'[q] = process[q]
    BY <1>0, <2>2 DEF ProcessType
  <2>4. QED
    BY <2>1, <2>3, KeyStutters
<1>7. CASE CheckKey(p)
  <2>1. process[p].at = "found" /\ UNCHANGED <<legacy, sealed, former>> /\ held[p] = {}
    BY <1>7, <1>3 DEF CheckKey, HeldBy
  <2>2. CASE identity.is = "full" /\ identity.key = process[p].key /\ Goes(p, "using") /\ UNCHANGED identity
    <3> DEFINE r == [process[p] EXCEPT !.at = "using"]
    <3>1. r.at = "using" /\ r.key = identity.key /\ process' = [process EXCEPT ![p] = r]
      BY <1>0, <2>2 DEF ProcessType, Goes
    <3>2. held' = [held EXCEPT ![p] = {identity.key}]
      BY <1>1, <3>1
    <3>3. Pinned!Obtain(p)
      BY <1>2, <2>1, <2>2, <3>2 DEF Pinned!Obtain, HeldBy
    <3>4. QED
      BY <3>3 DEF Pinned!PinNext
  <2>3. CASE identity.is = "none" /\ identity' = [NoIdentity EXCEPT !.is = "torn"] /\ Goes(p, "pinning")
    <3>1. identity'.is = "torn"
      BY <2>3 DEF NoIdentity
    <3>2. process'[p].at = "pinning" /\ \A q \in Processes \ {p} : process'[q] = process[q]
      BY <1>0, <2>3 DEF Goes, ProcessType
    <3>3. held' = held
      BY <2>1, <3>2 DEF HeldBy
    <3>4. QED
      BY <2>1, <2>3, <3>1, <3>3 DEF Pinned!pinVars, HeldBy
  <2>4. QED
    BY <1>7, <2>2, <2>3 DEF CheckKey
<1>8. CASE PinKey(p)
  <2>1. /\ process[p].at = "pinning" /\ UNCHANGED <<legacy, sealed, former>> /\ held[p] = {}
        /\ identity.is = "torn" /\ process[p].key \in VaultKeys
        /\ legacy # {} => process[p].key \in former
    BY <1>0, <1>3, <1>8 DEF PinKey, HeldBy, KeyInvariant, Progress, OneKey
  <2>2. identity'.is = "full" /\ identity'.key = process[p].key
    BY <1>8 DEF PinKey
  <2> DEFINE r == [process[p] EXCEPT !.at = "using"]
  <2>3. r.at = "using" /\ r.key = process[p].key /\ process' = [process EXCEPT ![p] = r]
    BY <1>0, <1>8 DEF ProcessType, PinKey, Goes
  <2>4. held' = [held EXCEPT ![p] = {process[p].key}]
    BY <1>1, <2>3
  <2>5. Pinned!Choose(p)
    BY <1>2, <2>1, <2>2, <2>4 DEF Pinned!Choose, HeldBy
  <2>6. QED
    BY <2>5 DEF Pinned!PinNext
<1>9. CASE Encrypt(p) \/ (GiveUp(p) /\ process[p].at = "using")
  <2>1. /\ process[p].at = "using" /\ process' = [process EXCEPT ![p] = Free]
        /\ UNCHANGED <<identity, legacy, former>> /\ sealed' \in {sealed, sealed \cup {process[p].key}}
    BY <1>9 DEF Encrypt, GiveUp, Leaves
  <2>2. held[p] = {process[p].key} /\ held' = [held EXCEPT ![p] = {}]
    <3>1. Free.at # "using"
      BY DEF Free
    <3>2. held' = [held EXCEPT ![p] = IF Free.at = "using" THEN {Free.key} ELSE {}]
      BY <1>1, <2>1
    <3>3. QED
      BY <1>3, <2>1, <3>1, <3>2 DEF HeldBy
  <2>3. Pinned!Use(p)
    BY <1>2, <2>1, <2>2 DEF Pinned!Use, HeldBy
  <2>4. QED
    BY <2>3 DEF Pinned!PinNext
<1>10. CASE GiveUp(p) /\ process[p].at # "using"
  <2>1. process' = [process EXCEPT ![p] = Free] /\ Free.at # "using" /\ UNCHANGED <<identity, legacy, sealed, former>>
    BY <1>10 DEF GiveUp, Leaves, Free
  <2>2. QED
    BY <1>4, <1>10, <2>1
<1>11. QED
  BY <1>5, <1>6, <1>7, <1>8, <1>9, <1>10 DEF KeyStep

(* A vault has one key for ever, under which all its new records are       *)
(* written and which its history of former versions knows, of however many *)
(* keys that is, whoever creates it, dies meanwhile or changes the store.  *)
THEOREM KeyImplementsPinnedKey == KeySpec => ImplementsPinnedKey
<1>1. KeyInit => Pinned!PinInit
  <2> SUFFICES ASSUME KeyInit PROVE Pinned!PinInit
    OBVIOUS
  <2>1. identity.is = "none" /\ \A p \in Processes : process[p].at = "idle"
    BY DEF KeyInit, NoIdentity, Free
  <2>2. former \in SUBSET VaultKeys /\ legacy = former /\ sealed = {}
    BY DEF KeyInit
  <2>3. QED
    BY <2>1, <2>2 DEF Pinned!PinInit
<1>2. KeyInvariant /\ [KeyNext]_keyVars => [Pinned!PinNext]_(Pinned!pinVars)
  <2> SUFFICES ASSUME KeyInvariant, [KeyNext]_keyVars
               PROVE  [Pinned!PinNext]_(Pinned!pinVars)
    OBVIOUS
  <2>1. CASE LoseKey \/ UNCHANGED keyVars
    BY <2>1 DEF LoseKey, keyVars, Pinned!pinVars
  <2>2. CASE DeleteRecords
    BY <2>2 DEF DeleteRecords, Pinned!PinNext, Pinned!Clear
  <2>3. QED
    BY <2>1, <2>2, KeyStepRefines DEF KeyNext
<1>3. QED
  BY KeyIsInvariant, <1>1, <1>2, PTL DEF KeySpec, ImplementsPinnedKey, Pinned!PinSpec
=============================================================================
