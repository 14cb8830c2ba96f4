---------------------------- MODULE VectorIndex ----------------------------
(***************************************************************************)
(* The index of the knowledge base, rag/store.py, over the starts of the   *)
(* service: build_state ingests the directory before anything is served.   *)
(*                                                                         *)
(* ingest_directory reads the directory twice, once for its fingerprint    *)
(* and once for its texts, deletes the collection, fills it in batches and *)
(* writes the fingerprint to a file.  The directory may be edited at any   *)
(* moment and the process may stop at any moment; collection and file      *)
(* stay.                                                                   *)
(***************************************************************************)
EXTENDS SequencesExt

CONSTANTS
  NumFiles,     \* Files of the directory are 1 .. NumFiles, in sorted order.
  Texts,        \* What a file may hold.
  Configs,      \* Chunk settings a start may come with.
  Chunks(_, _), \* The chunks of a text under some settings: chunk_text.
  BatchSize,    \* Chunks added by one call, 64 in the code.
  NoFile,       \* The directory has no such file.
  Torn,         \* A fingerprint file cut short, or none.
  MaxEdits,     \* Bound: edits of the directory.
  MaxStops      \* Bound: times the process stops.

ASSUME IndexAssumption ==
  /\ NumFiles \in Nat \ {0}
  /\ BatchSize \in Nat \ {0}
  /\ MaxEdits \in Nat
  /\ MaxStops \in Nat
  /\ NoFile \notin Texts
  /\ \A text \in Texts, c \in Configs : Len(Chunks(text, c)) \in Nat

Files == 1 .. NumFiles

VARIABLES
  kb,           \* The directory: the text of each file.
  collection,   \* The chunks in the collection.
  stamp,        \* kb_fingerprint.txt.
  phase,        \* Where the start is.
  config,       \* chunk_size and chunk_overlap of this start.
  force,        \* rag_force_reingest.
  fingerprint,  \* The files digested so far.
  documents,    \* The chunks of the files read so far.
  filesRead,    \* How many those are.
  added,        \* Documents added so far.
  edited,       \* History: kb was edited since the start.
  touched,      \* History: since the stamp a rebuild was begun, or kb was
                \* edited while the stamp's own ingest ran.
  edits, stops

settings == <<config, force>>
locals == <<fingerprint, documents, filesRead, added>>
bounds == <<edits, stops>>

vars == <<kb, collection, stamp, phase, settings, locals, edited, touched,
          bounds>>

Listing == Texts \cup {NoFile}

Phases == {"off", "fingerprint", "read", "add", "serving"}

(* Distinct directories and settings have distinct digests. *)
Digest == [config: Configs, files: [Files -> Listing]]

ASSUME TornAssumption == Torn \notin Digest

Chunk(f, text, chunk) == [file |-> f, text |-> text, chunk |-> chunk]

ChunksOf(f, text, c) ==
  LET chunks == IF text = NoFile THEN <<>> ELSE Chunks(text, c) IN
  [k \in 1 .. Len(chunks) |-> Chunk(f, text, chunks[k])]

(* What the collection should hold for these files. *)
IndexOf(files, c) ==
  UNION {ToSet(ChunksOf(f, files[f], c)) : f \in DOMAIN files}

AnyDocument ==
  UNION {ToSet(ChunksOf(f, text, c)) : f \in Files, text \in Listing, c \in Configs}

TypeOK ==
  /\ kb \in [Files -> Listing]
  /\ collection \subseteq AnyDocument
  /\ stamp \in Digest \cup {Torn}
  /\ phase \in Phases
  /\ config \in Configs
  /\ force \in BOOLEAN
  /\ fingerprint \in UNION {[1 .. n -> Listing] : n \in 0 .. NumFiles}
  /\ documents \in Seq(AnyDocument)
  /\ filesRead \in 0 .. NumFiles
  /\ added \in 0 .. Len(documents)
  /\ edited \in BOOLEAN
  /\ touched \in BOOLEAN
  /\ edits \in 0 .. MaxEdits
  /\ stops \in 0 .. MaxStops

Init ==
  /\ kb \in [Files -> Listing]
  /\ collection = {}
  /\ stamp = Torn
  /\ phase = "off"
  /\ config \in Configs
  /\ force = FALSE
  /\ fingerprint = <<>>
  /\ documents = <<>>
  /\ filesRead = 0
  /\ added = 0
  /\ edited = FALSE
  /\ touched = FALSE
  /\ edits = 0
  /\ stops = 0

-----------------------------------------------------------------------------
(* The locals of ingest_directory are gone when it returns or is cut short. *)
Returns ==
  /\ fingerprint' = <<>>
  /\ documents' = <<>>
  /\ filesRead' = 0
  /\ added' = 0

Edit ==
  /\ edits < MaxEdits
  /\ edits' = edits + 1
  /\ \E f \in Files, content \in Listing :
       content # kb[f] /\ kb' = [kb EXCEPT ![f] = content]
  /\ edited' = TRUE
  /\ UNCHANGED <<collection, stamp, phase, settings, locals, touched, stops>>

(* build_state: the collection is opened, or created empty. *)
Start(c, forced) ==
  /\ phase = "off"
  /\ phase' = "fingerprint"
  /\ config' = c
  /\ force' = forced
  /\ edited' = FALSE
  /\ UNCHANGED <<kb, collection, stamp, locals, touched, bounds>>

(* knowledge_base_fingerprint, a file at a time. *)
DigestFile ==
  /\ phase = "fingerprint"
  /\ Len(fingerprint) < NumFiles
  /\ fingerprint' = Append(fingerprint, kb[Len(fingerprint) + 1])
  /\ UNCHANGED <<kb, collection, stamp, phase, settings, documents, filesRead,
                 added, edited, touched, bounds>>

(* A slip to be caught: the settings are left out of the digest. *)
DigestOfFiles == [config |-> CHOOSE c \in Configs : TRUE, files |-> fingerprint]

(* The hexdigest, once all files are in. *)
CurrentDigest == [config |-> config, files |-> fingerprint]

(* A slip to be caught: an empty collection will do. *)
SkipsEmpty == ~force /\ stamp = CurrentDigest

(* The test before the return.  force was raised for another fingerprint,  *)
(* which the test excludes once more.                                      *)
Skips == collection # {} /\ ~force /\ stamp = CurrentDigest

SkipIngest ==
  /\ phase = "fingerprint"
  /\ Len(fingerprint) = NumFiles
  /\ Skips
  /\ phase' = "serving"
  /\ Returns
  /\ UNCHANGED <<kb, collection, stamp, settings, edited, touched, bounds>>

(* A slip to be caught: the collection is added to. *)
CollectionKept == UNCHANGED collection

CollectionDeleted == collection' = {}

BeginRebuild ==
  /\ phase = "fingerprint"
  /\ Len(fingerprint) = NumFiles
  /\ ~Skips
  /\ phase' = "read"
  /\ CollectionDeleted
  /\ touched' = TRUE
  /\ UNCHANGED <<kb, stamp, settings, locals, edited, bounds>>

ReadFile ==
  /\ phase = "read"
  /\ filesRead' = filesRead + 1
  /\ documents' = documents \o ChunksOf(filesRead', kb[filesRead'], config)
  /\ phase' = IF filesRead' = NumFiles THEN "add" ELSE phase
  /\ UNCHANGED <<kb, collection, stamp, settings, fingerprint, added, edited,
                 touched, bounds>>

(* "No documents found": the start fails, the collection is gone. *)
FindNothing ==
  /\ phase = "add"
  /\ documents = <<>>
  /\ phase' = "off"
  /\ Returns
  /\ UNCHANGED <<kb, collection, stamp, settings, edited, touched, bounds>>

(* A slip to be caught: the loop does not move on. *)
BatchAgain ==
  /\ added < Len(documents)
  /\ collection' = collection \cup
       ToSet(SubSeq(documents, added + 1, Min({added + BatchSize, Len(documents)})))
  /\ UNCHANGED added

Batch ==
  /\ added < Len(documents)
  /\ added' = Min({added + BatchSize, Len(documents)})
  /\ collection' = collection \cup ToSet(SubSeq(documents, added + 1, added'))

AddBatch ==
  /\ phase = "add"
  /\ Batch
  /\ UNCHANGED <<kb, stamp, phase, settings, fingerprint, documents, filesRead,
                 edited, touched, bounds>>

AllAdded ==
  phase = "add" /\ documents # <<>> /\ added = Len(documents)

WriteFingerprint ==
  /\ AllAdded
  /\ stamp' = CurrentDigest
  /\ phase' = "serving"
  /\ touched' = edited
  /\ Returns
  /\ UNCHANGED <<kb, collection, settings, edited, bounds>>

(* The process stops, on a failing call or otherwise; while it writes the  *)
(* fingerprint, the file is left with part of it.                          *)
Stop ==
  /\ stops < MaxStops
  /\ stops' = stops + 1
  /\ phase # "off"
  /\ phase' = "off"
  /\ stamp' \in IF AllAdded THEN {stamp, Torn} ELSE {stamp}
  /\ Returns
  /\ UNCHANGED <<kb, collection, settings, edited, touched, edits>>

-----------------------------------------------------------------------------
Ingest ==
  \/ DigestFile
  \/ SkipIngest
  \/ BeginRebuild
  \/ ReadFile
  \/ FindNothing
  \/ AddBatch
  \/ WriteFingerprint

Next ==
  \/ Edit
  \/ \E c \in Configs, forced \in BOOLEAN : Start(c, forced)
  \/ Ingest
  \/ Stop

Spec == Init /\ [][Next]_vars

(* A start is one thread that runs on. *)
FairSpec == Spec /\ WF_vars(Ingest)
-----------------------------------------------------------------------------
(* Unless a later rebuild was begun and cut short, or files were edited    *)
(* while it was made, the collection holds what its fingerprint was        *)
(* computed from: a stamp is written last, and by whoever filled the       *)
(* collection from nothing (store.py, ingest_directory).                   *)
StampVouches ==
  stamp # Torn /\ ~touched => collection = IndexOf(stamp.files, stamp.config)

(* A start that nobody edits under serves the chunks of the directory and  *)
(* nothing else, whatever stops came before it, but for one case: the      *)
(* directory is back at the very state of a stamp that a later rebuild     *)
(* left behind when it was cut short (or that was edited under).           *)
ServesTheDirectory ==
  phase = "serving" /\ ~edited =>
    \/ collection = IndexOf(kb, config)
    \/ touched /\ stamp = [config |-> config, files |-> kb]

(* A directory found empty costs the collection but not the stamp; still   *)
(* nothing is served from an empty collection when the files come back.    *)
ServesSomething == phase = "serving" => collection # {}

(* Every start that is not stopped comes to serve, or finds nothing.       *)
IngestEnds ==
  phase \in {"fingerprint", "read", "add"} ~> phase \in {"serving", "off"}

-----------------------------------------------------------------------------
(* README.md, "Persistent Chroma index; auto re-ingest on KB/chunk/embed   *)
(* fingerprint change": a start that nobody edits under serves the chunks  *)
(* of the directory.                                                       *)
ServesNoOtherIndex ==
  phase = "serving" /\ ~edited => collection = IndexOf(kb, config)
=============================================================================
