----------------------------- MODULE RecallVault -----------------------------
(***************************************************************************)
(* The Recall history of the portable manager (recall.py), with the        *)
(* threads of ui.py that use it: one capture being saved, one record being *)
(* read by OCR again, searches, an import, and the window itself, which    *)
(* annotates and deletes.  A record is a file with the file of its image.  *)
(*                                                                         *)
(* A step is one access to a file, or what a thread does while it holds    *)
(* the search lock for one load.  A record is named by its time stamp,     *)
(* which no other record ever gets.  What is cached under the signature of *)
(* a file (mtime, size) is dropped when the file changes: an entry with an *)
(* old signature is never used.  Record and image count one for the quota. *)
(***************************************************************************)
EXTENDS Naturals, FiniteSets, SequencesExt

CONSTANTS
  Records,          \* time stamps
  Stored, Legacy,   \* there from the start: readable, and of a former key
  NoRecord,
  Quota,
  MaxNotes,         \* bound: annotations
  MaxEvents         \* bound: what threads begin, writes that fail, crashes

ASSUME VaultAssumption ==
  /\ IsFiniteSet(Records) /\ NoRecord \notin Records
  /\ Stored \subseteq Records /\ Legacy \subseteq Records \ Stored
  /\ Quota \in Nat /\ MaxNotes \in Nat /\ MaxEvents \in Nat

VARIABLES
  file,     \* record files
  order,    \* their names, latest mtime first
  images,   \* names of the records whose image file exists
  cache,    \* _record_cache
  index,    \* _manifest_cache and the full-text tables filled from it
  search, capture, ocr, gui, import,     \* what each thread is doing
  aliased,  \* the payload of the reindexing is the object in the cache
  used,     \* stamps taken
  notes, events,    \* counters
  failed,   \* history: the write of a changed payload failed
  removed,  \* history: deleted by the user
  doomed    \* history: image deleted on purpose, or imported during a sweep

disk == <<file, order, images>>
memory == <<cache, index, aliased>>
history == <<used, notes, events, failed, removed, doomed>>
vars == <<disk, memory, search, capture, ocr, gui, import, history>>

(* The OCR text is that of the capture, of a reindexing, or withdrawn.      *)
Doc == [ocr : {"first", "again", "none"}, note : 0..MaxNotes]
Blank == [ocr |-> "none", note |-> 0]
New == [ocr |-> "first", note |-> 0]
NoFile == [is |-> "none", doc |-> Blank]
NoEntry == [hit |-> FALSE, doc |-> Blank]

CaptureIdle == [at |-> "idle", rec |-> NoRecord, rest |-> <<>>, listed |-> {}, pictured |-> {}]
OcrIdle == [at |-> "idle", rec |-> NoRecord, doc |-> Blank, found |-> FALSE, missed |-> FALSE]
GuiIdle == [at |-> "idle", rest |-> <<>>, chosen |-> {}, doc |-> Blank]
SearchIdle == [at |-> "idle", todo |-> <<>>, stamps |-> {}]
ImportIdle == [at |-> "idle", rec |-> NoRecord]

Init ==
  /\ file = [r \in Records |-> IF r \in Stored THEN [is |-> "open", doc |-> New]
                               ELSE IF r \in Legacy THEN [NoFile EXCEPT !.is = "sealed"]
                               ELSE NoFile]
  /\ order \in {s \in [1..Cardinality(Stored \cup Legacy) -> Stored \cup Legacy] :
                 \A i, j \in DOMAIN s : i < j => s[i] # s[j] /\ (s[i] \in Legacy => s[j] \in Legacy)}
  /\ images = Stored \cup Legacy
  /\ cache = [r \in Records |-> NoEntry] /\ index = [r \in Records |-> NoEntry]
  /\ aliased = FALSE
  /\ search = SearchIdle /\ capture = CaptureIdle /\ ocr = OcrIdle /\ gui = GuiIdle
  /\ import = ImportIdle
  /\ used = Stored \cup Legacy
  /\ notes = 0 /\ events = 0
  /\ failed = {} /\ removed = {} /\ doomed = {}

-----------------------------------------------------------------------------
(* Loading and the record cache.                                           *)

Unlocked == search.at = "idle"

(* What _load returns for a readable record.                               *)
Payload(r) == IF cache[r].hit THEN cache[r].doc ELSE file[r].doc

Missed(rs) == {r \in rs : file[r].is = "open" /\ ~cache[r].hit}

(* What the byte limit of the cache may put out to let new payloads in.    *)
Evictions(rs) ==
  IF Missed(rs) = {} THEN {{}} ELSE SUBSET {r \in Records \ rs : cache[r].hit}

(* The cache after the records rs were loaded, those of out evicted.       *)
Loaded(rs, out) ==
  [r \in Records |-> IF r \in out THEN NoEntry
                     ELSE IF r \in Missed(rs) THEN [hit |-> TRUE, doc |-> file[r].doc]
                     ELSE cache[r]]

(* One thread loads rs outside of a search.                                *)
Load(rs) ==
  /\ Unlocked
  /\ \E out \in Evictions(rs) :
       /\ cache' = Loaded(rs, out)
       /\ aliased' = (aliased /\ ocr.rec \notin out)
  /\ UNCHANGED index

(* Mutant of Touch: the entries made for the former file still pass for    *)
(* current, as with a signature that a rewriting keeps.                    *)
TouchNone(r) == UNCHANGED <<cache, index, aliased, search>>

(* The file of r is replaced or removed: no signature of it holds.         *)
Touch(r) ==
  /\ cache' = [cache EXCEPT ![r] = NoEntry]
  /\ index' = [index EXCEPT ![r] = NoEntry]
  /\ aliased' = (aliased /\ ocr.rec # r)
  /\ search' = [search EXCEPT !.stamps = @ \ {r}]

(* The list without r, which occurs once at most.                          *)
Without(s, r) ==
  IF \E i \in 1..Len(s) : s[i] = r THEN RemoveAt(s, CHOOSE i \in 1..Len(s) : s[i] = r) ELSE s

(* _write_encrypted of a record.                                           *)
Write(r, d) ==
  /\ file' = [file EXCEPT ![r] = [is |-> "open", doc |-> d]]
  /\ order' = <<r>> \o Without(order, r)
  /\ Touch(r)

Erase(r) ==
  /\ file' = [file EXCEPT ![r] = NoFile]
  /\ order' = Without(order, r)
  /\ Touch(r)

(* Mutant of ImageOf: the record alone goes.                               *)
ImageOfNone(r) == {}

(* The image a record names; that of an unreadable one is unknown.         *)
ImageOf(r) == IF file[r].is = "open" THEN {r} ELSE {}

Count == events < MaxEvents /\ events' = events + 1

Stamp == CHOOSE r \in Records \ used : TRUE

-----------------------------------------------------------------------------
(* save, in the thread sessionsifu-recall-finalize.                        *)

(* The newest record is loaded for its OCR results; then comes OCR.        *)
CaptureBegin ==
  /\ capture.at = "idle" /\ used # Records
  /\ Count
  /\ Load(IF order = <<>> THEN {} ELSE {Head(order)})
  /\ capture' = [CaptureIdle EXCEPT !.at = "image", !.rec = Stamp]
  /\ used' = used \cup {Stamp}
  /\ UNCHANGED <<disk, search, ocr, gui, import, notes, failed, removed, doomed>>

CaptureImage ==
  /\ capture.at = "image"
  /\ images' = images \cup {capture.rec}
  /\ capture' = [capture EXCEPT !.at = "record"]
  /\ UNCHANGED <<file, order, memory, search, ocr, gui, import, history>>

CaptureRecord ==
  /\ capture.at = "record"
  /\ Write(capture.rec, New)
  /\ capture' = [capture EXCEPT !.at = "list"]
  /\ UNCHANGED <<images, ocr, gui, import, history>>

CaptureFails ==
  /\ capture.at \in {"image", "record"}
  /\ Count
  /\ images' = images \ {capture.rec}
  /\ capture' = CaptureIdle
  /\ UNCHANGED <<file, order, memory, search, ocr, gui, import, used, notes,
                 failed, removed, doomed>>

(* prune begins with the inventory of the directory.                       *)
PruneBegin ==
  /\ capture.at = "list"
  /\ capture' = [capture EXCEPT !.at = "prune", !.rest = order, !.listed = ToSet(order),
                                !.pictured = images]
  /\ UNCHANGED <<disk, memory, search, ocr, gui, import, history>>

Over == Cardinality(capture.listed) + Cardinality(capture.pictured) > Quota

(* Any record but the new one may be past the retention or the 500 newest. *)
PruneDrop ==
  /\ capture.at = "prune" /\ capture.rest # <<>>
  /\ LET r == Head(capture.rest) IN
     /\ file[r].is # "none"
     /\ Over \/ r # capture.rec
     /\ Load({r})
     /\ images' = images \ ImageOf(r)
     /\ capture' = [capture EXCEPT !.at = "unlink", !.listed = @ \ {r}, !.pictured = @ \ ImageOf(r)]
     /\ doomed' = doomed \cup {r}
  /\ UNCHANGED <<file, order, search, ocr, gui, import, used, notes, events,
                 failed, removed>>

PruneUnlink ==
  /\ capture.at = "unlink"
  /\ Erase(Head(capture.rest))
  /\ capture' = [capture EXCEPT !.at = "prune", !.rest = Tail(@)]
  /\ UNCHANGED <<images, ocr, gui, import, history>>

PruneKeep ==
  /\ capture.at = "prune" /\ capture.rest # <<>>
  /\ file[Head(capture.rest)].is # "none" /\ ~Over
  /\ capture' = [capture EXCEPT !.rest = Tail(@)]
  /\ UNCHANGED <<disk, memory, search, ocr, gui, import, history>>

(* The listed file is gone: its stat raises, and save with it.             *)
PruneAborts ==
  /\ capture.at = "prune" /\ capture.rest # <<>>
  /\ file[Head(capture.rest)].is = "none"
  /\ capture' = CaptureIdle
  /\ UNCHANGED <<disk, memory, search, ocr, gui, import, history>>

(* Mutant of Referenced: taken from the inventory prune began with.        *)
ReferencedBefore == {r \in capture.listed : file[r].is = "open"}

(* The images that the records name which can be read now.                 *)
Referenced == {r \in Records : file[r].is = "open"}

Reference ==
  /\ capture.at = "prune" /\ capture.rest = <<>>
  /\ Load(ToSet(order))
  /\ capture' = [CaptureIdle EXCEPT !.at = "sweep", !.rec = capture.rec, !.listed = Referenced]
  /\ doomed' = doomed \cup (IF import.at = "record" THEN {import.rec} ELSE {})
  /\ UNCHANGED <<disk, search, ocr, gui, import, used, notes, events, failed,
                 removed>>

Sweep ==
  /\ capture.at = "sweep"
  /\ images' = images \cap capture.listed
  /\ capture' = CaptureIdle
  /\ UNCHANGED <<file, order, memory, search, ocr, gui, import, history>>

CaptureStep ==
  \/ CaptureBegin \/ CaptureImage \/ CaptureRecord \/ CaptureFails \/ PruneBegin
  \/ PruneDrop \/ PruneUnlink \/ PruneKeep \/ PruneAborts \/ Reference \/ Sweep

-----------------------------------------------------------------------------
(* reindex, in a background thread.  Its payload is the object the cache   *)
(* holds, and stays so until the cache lets go of it.                      *)

OcrBegin(r) ==
  /\ ocr.at = "idle"
  /\ Count
  /\ file[r].is = "open"
  /\ Unlocked
  /\ \E out \in Evictions({r}) : cache' = Loaded({r}, out)
  /\ aliased' = TRUE
  /\ ocr' = [OcrIdle EXCEPT !.at = "payload", !.rec = r, !.doc = Payload(r),
                           !.missed = gui.at = "note" /\ gui.rest = <<r>> /\ gui.doc # Payload(r)]
  /\ UNCHANGED <<disk, index, search, capture, gui, import, used, notes, failed,
                 removed, doomed>>

(* preview_bytes loads the record again before it reads the image.         *)
OcrPreview ==
  /\ ocr.at = "payload"
  /\ Load({ocr.rec})
  /\ ocr' = [ocr EXCEPT !.at = "recognize",
                        !.found = file[ocr.rec].is = "open" /\ ocr.rec \in images]
  /\ UNCHANGED <<disk, search, capture, gui, import, history>>

(* The result goes into the payload, hence into the cache it is shared with. *)
(* Without the image the text stays what it was.                           *)
OcrRecognize ==
  /\ ocr.at = "recognize"
  /\ LET o == IF ocr.found THEN "again" ELSE ocr.doc.ocr IN
     /\ ocr' = [ocr EXCEPT !.at = "dump", !.doc.ocr = o]
     /\ cache' = IF aliased THEN [cache EXCEPT ![ocr.rec].doc.ocr = o] ELSE cache
  /\ UNCHANGED <<disk, index, aliased, search, capture, gui, import, history>>

(* Cancelled, or out of time, before an image.                             *)
OcrSkip ==
  /\ ocr.at = "payload"
  /\ ocr' = [ocr EXCEPT !.at = "dump"]
  /\ UNCHANGED <<disk, memory, search, capture, gui, import, history>>

(* The contents of the file are fixed; the payload is not used any more.   *)
OcrDump ==
  /\ ocr.at = "dump"
  /\ ocr' = [ocr EXCEPT !.at = "write"]
  /\ aliased' = FALSE
  /\ UNCHANGED <<disk, cache, index, search, capture, gui, import, history>>

OcrWrite ==
  /\ ocr.at = "write"
  /\ Write(ocr.rec, ocr.doc)
  /\ ocr' = [ocr EXCEPT !.at = "report"]
  /\ UNCHANGED <<images, capture, gui, import, history>>

(* Too large, or not written.                                              *)
OcrFails ==
  /\ ocr.at \in {"dump", "write"}
  /\ Count
  /\ ocr' = OcrIdle
  /\ aliased' = FALSE
  /\ failed' = failed \cup {ocr.rec}
  /\ UNCHANGED <<disk, cache, index, search, capture, gui, import, used, notes,
                 removed, doomed>>

OcrReport ==
  /\ ocr.at = "report"
  /\ Load({ocr.rec})
  /\ ocr' = OcrIdle
  /\ UNCHANGED <<disk, search, capture, gui, import, history>>

OcrStep ==
  \/ \E r \in Records : OcrBegin(r)
  \/ OcrPreview \/ OcrRecognize \/ OcrSkip \/ OcrDump \/ OcrWrite \/ OcrFails \/ OcrReport

-----------------------------------------------------------------------------
(* annotate, delete and clear, in the thread of the window.                *)

(* Mutant of Shares: annotate changes a copy of the payload.               *)
SharesNone(r) == FALSE

Shares(r) == aliased /\ ocr.rec = r

Annotate(r) ==
  /\ gui.at = "idle" /\ notes < MaxNotes
  /\ Count
  /\ file[r].is = "open"
  /\ Unlocked
  /\ LET d == [Payload(r) EXCEPT !.note = notes + 1] IN
     /\ \E out \in Evictions({r}) :
          /\ cache' = [Loaded({r}, out) EXCEPT ![r].doc = d]
          /\ aliased' = (aliased /\ ocr.rec \notin out)
     /\ ocr' = [ocr EXCEPT !.doc.note = IF Shares(r) THEN notes + 1 ELSE @,
                           !.missed = @ \/ (ocr.rec = r /\ ~aliased)]
     /\ gui' = [GuiIdle EXCEPT !.at = "note", !.rest = <<r>>, !.doc = d]
  /\ notes' = notes + 1
  /\ UNCHANGED <<disk, index, search, capture, import, used, failed, removed,
                 doomed>>

AnnotateWrite ==
  /\ gui.at = "note"
  /\ Write(Head(gui.rest), gui.doc)
  /\ gui' = GuiIdle
  /\ UNCHANGED <<images, capture, ocr, import, history>>

AnnotateFails ==
  /\ gui.at = "note"
  /\ Count
  /\ failed' = failed \cup {Head(gui.rest)}
  /\ gui' = GuiIdle
  /\ UNCHANGED <<disk, memory, search, capture, ocr, import, used, notes, removed,
                 doomed>>

(* One record, all, or those of an application or website, among which no  *)
(* unreadable record is ever found.                                        *)
DeleteBegin(rs) ==
  /\ gui.at = "idle" /\ order # <<>> /\ rs # {}
  /\ Cardinality(rs) = 1 \/ rs = ToSet(order) \/ \A r \in rs : file[r].is = "open"
  /\ Count
  /\ gui' = [GuiIdle EXCEPT !.at = "delete", !.rest = order, !.chosen = rs]
  /\ UNCHANGED <<disk, memory, search, capture, ocr, import, used, notes, failed,
                 removed, doomed>>

(* Every listed record is loaded; if chosen, its image goes first.         *)
DeleteImage ==
  /\ gui.at = "delete" /\ gui.rest # <<>>
  /\ LET r == Head(gui.rest) IN
     /\ Load({r})
     /\ IF r \in gui.chosen
        THEN /\ images' = images \ ImageOf(r)
             /\ gui' = [gui EXCEPT !.at = "unlink"]
             /\ doomed' = doomed \cup {r}
        ELSE /\ gui' = [gui EXCEPT !.rest = Tail(@)]
             /\ UNCHANGED <<images, doomed>>
  /\ UNCHANGED <<file, order, search, capture, ocr, import, used, notes, events,
                 failed, removed>>

DeleteRecord ==
  /\ gui.at = "unlink"
  /\ Erase(Head(gui.rest))
  /\ removed' = removed \cup {Head(gui.rest)}
  /\ gui' = [gui EXCEPT !.at = "delete", !.rest = Tail(@)]
  /\ UNCHANGED <<images, capture, ocr, import, used, notes, events, failed,
                 doomed>>

(* clear_search_cache waits for a search.                                  *)
DeleteEnd ==
  /\ gui.at = "delete" /\ gui.rest = <<>>
  /\ Unlocked
  /\ cache' = [r \in Records |-> NoEntry] /\ index' = [r \in Records |-> NoEntry]
  /\ aliased' = FALSE
  /\ failed' = {}
  /\ gui' = GuiIdle
  /\ UNCHANGED <<disk, search, capture, ocr, import, used, notes, events, removed,
                 doomed>>

GuiStep ==
  \/ \E r \in Records : Annotate(r)
  \/ AnnotateWrite \/ AnnotateFails
  \/ \E rs \in SUBSET ToSet(order) : DeleteBegin(rs)
  \/ DeleteImage \/ DeleteRecord \/ DeleteEnd

-----------------------------------------------------------------------------
(* search, in a background thread that keeps the search lock to its end.   *)

SearchBegin ==
  /\ search.at = "idle"
  /\ Count
  /\ search' = [at |-> "reading", todo |-> order, stamps |-> ToSet(order)]
  /\ UNCHANGED <<disk, memory, capture, ocr, gui, import, used, notes, failed, removed,
                 doomed>>

(* A record is indexed under the signature taken before it was loaded.     *)
SearchRead ==
  /\ search.todo # <<>>
  /\ search' = [search EXCEPT !.todo = Tail(@)]
  /\ LET r == Head(search.todo) IN
     IF index[r].hit \/ file[r].is # "open"
     THEN UNCHANGED memory
     ELSE /\ \E out \in Evictions({r}) :
               /\ cache' = Loaded({r}, out)
               /\ aliased' = (aliased /\ ocr.rec \notin out)
          /\ index' = [index EXCEPT ![r] =
               IF r \in search.stamps THEN [hit |-> TRUE, doc |-> Payload(r)] ELSE NoEntry]
  /\ UNCHANGED <<disk, capture, ocr, gui, import, history>>

SearchEnd ==
  /\ search.at = "reading" /\ search.todo = <<>>
  /\ search' = SearchIdle
  /\ UNCHANGED <<disk, memory, capture, ocr, gui, import, history>>

SearchStep == SearchBegin \/ SearchRead \/ SearchEnd

-----------------------------------------------------------------------------
(* import_record, in a background thread; the image is written first.      *)

Swept(r) == IF capture.at = "sweep" THEN {r} ELSE {}

ImportImage ==
  /\ import.at = "idle" /\ used # Records
  /\ Count
  /\ images' = images \cup {Stamp}
  /\ used' = used \cup {Stamp}
  /\ doomed' = doomed \cup Swept(Stamp)
  /\ import' = [at |-> "record", rec |-> Stamp]
  /\ UNCHANGED <<file, order, memory, search, capture, ocr, gui, notes, failed,
                 removed>>

ImportRecord ==
  /\ import.at = "record"
  /\ Write(import.rec, New)
  /\ import' = ImportIdle
  /\ UNCHANGED <<images, capture, ocr, gui, history>>

ImportFails ==
  /\ import.at = "record"
  /\ Count
  /\ images' = images \ {import.rec}
  /\ import' = ImportIdle
  /\ UNCHANGED <<file, order, memory, search, capture, ocr, gui, used, notes, failed,
                 removed, doomed>>

ImportStep == ImportImage \/ ImportRecord \/ ImportFails

-----------------------------------------------------------------------------
(* The process dies and starts again; files stay.                          *)
Crash ==
  /\ Count
  /\ cache' = [r \in Records |-> NoEntry] /\ index' = [r \in Records |-> NoEntry]
  /\ aliased' = FALSE
  /\ search' = SearchIdle /\ capture' = CaptureIdle /\ ocr' = OcrIdle /\ gui' = GuiIdle
  /\ import' = ImportIdle
  /\ failed' = {}
  /\ UNCHANGED <<disk, used, notes, removed, doomed>>

Next == CaptureStep \/ OcrStep \/ GuiStep \/ SearchStep \/ ImportStep \/ Crash

Spec == Init /\ [][Next]_vars

-----------------------------------------------------------------------------
(* Properties.                                                             *)

FileType == [is : {"none", "sealed", "open"}, doc : Doc]
EntryType == [hit : BOOLEAN, doc : Doc]
MaybeRecord == Records \cup {NoRecord}
CaptureType == [at : {"idle", "image", "record", "list", "prune", "unlink", "sweep"},
                rec : MaybeRecord, rest : Seq(Records),
                listed : SUBSET Records, pictured : SUBSET Records]
OcrType == [at : {"idle", "payload", "recognize", "dump", "write", "report"}, rec : MaybeRecord,
            doc : Doc, found : BOOLEAN, missed : BOOLEAN]
GuiType == [at : {"idle", "note", "delete", "unlink"}, rest : Seq(Records),
            chosen : SUBSET Records, doc : Doc]

(* Every variable has its type, a thread that works on a record has one,   *)
(* and the object a reindexing shares is in the cache.                     *)
VaultTypeOK ==
  /\ file \in [Records -> FileType] /\ order \in Seq(Records) /\ images \subseteq Records
  /\ cache \in [Records -> EntryType] /\ index \in [Records -> EntryType]
  /\ aliased \in BOOLEAN
  /\ search \in [at : {"idle", "reading"}, todo : Seq(Records), stamps : SUBSET Records]
  /\ capture \in CaptureType /\ ocr \in OcrType /\ gui \in GuiType
  /\ import \in [at : {"idle", "record"}, rec : MaybeRecord]
  /\ used \subseteq Records /\ failed \subseteq Records /\ removed \subseteq Records
  /\ doomed \subseteq Records
  /\ notes \in 0..MaxNotes /\ events \in 0..MaxEvents
  /\ capture.at # "idle" => capture.rec \in Records
  /\ ocr.at # "idle" => ocr.rec \in Records
  /\ import.at # "idle" => import.rec \in Records
  /\ gui.at \in {"note", "unlink"} => gui.rest # <<>>
  /\ capture.at = "unlink" => capture.rest # <<>>
  /\ aliased => ocr.rec \in Records /\ cache[ocr.rec].hit

(* A record that can be read has its image: captures and imports write the *)
(* image first, and the sweep at the end of prune spares what readable     *)
(* records name.  It is gone only with a deletion of the record, perhaps   *)
(* cut short, or when an import wrote image or record around the listing   *)
(* that the sweep goes by.                                                 *)
ImagesKept == \A r \in Records : file[r].is = "open" /\ r \notin doomed => r \in images

(* docs/PRIVACY.md: metadata, OCR and preview ciphertext are removed       *)
(* together.  Whatever else goes on, a record that the user has deleted    *)
(* leaves no image behind, unless it could not be read (_delete_path then  *)
(* does not know its image, which waits for the next sweep).               *)
RemovedTogether == (removed \ Legacy) \cap images = {}

UpdateUnderWay(r) ==
  \/ gui.at = "note" /\ Head(gui.rest) = r
  \/ ocr.at \in {"payload", "recognize", "dump", "write"} /\ ocr.rec = r

(* What a search has indexed under the current signature of a file is what *)
(* the file holds, but for an update that is under way or failed: annotate *)
(* and reindex change the cached object before they write it.              *)
SearchTellsTruth ==
  \A r \in Records : index[r].hit /\ r \notin failed =>
    (file[r].is = "open" /\ index[r].doc = file[r].doc) \/ UpdateUnderWay(r)

(* A note on disk gives way to an older state of its record only through a *)
(* reindexing that missed a note: it was made when the payload was already *)
(* serialised, or not the object in the cache (the cache had let go of it, *)
(* or loaded the record anew after an earlier note was written).           *)
NotesKept ==
  [][\A r \in Records :
       file[r].is = "open" /\ file'[r].is = "open" /\ file'[r].doc.note < file[r].doc.note
       => ocr.at = "write" /\ ocr.rec = r /\ ocr.missed]_vars

(* ui.py, clear_recall: entries will be permanently deleted.  (Refuted.)   *)
DeletedStaysDeleted == \A r \in removed : file[r].is = "none"

(* ui.py, finalize: when save returns, the entry is said to be saved; it   *)
(* is then there, unless the user has deleted it.  (Refuted.)              *)
SavedIsKept == capture.at = "sweep" => file[capture.rec].is = "open" \/ capture.rec \in removed
=============================================================================
