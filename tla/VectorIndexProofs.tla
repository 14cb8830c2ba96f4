------------------------- MODULE VectorIndexProofs -------------------------
(***************************************************************************)
(* What the index is after any number of starts, edits and stops, for any  *)
(* directory, any settings, any way to cut texts into chunks and any size  *)
(* of the batches; and how chunk_text cuts, for any text and any settings. *)
(*                                                                         *)
(* StampVouches speaks of the moments when nobody rebuilds; it follows     *)
(* from what a rebuild has gathered so far (Gathered: the files digested   *)
(* and read are those of the directory as long as nobody edits it) and     *)
(* from where it stands (Standing: the collection is emptied first and     *)
(* then holds the first documents).                                        *)
(*                                                                         *)
(* chunk_text is two loops.  Good says of a sequence of chunks that it is  *)
(* faithful to the paragraphs from lo to hi: two such sequences, one after *)
(* the other, are faithful to both ranges (GoodJoin), a chunk of whole     *)
(* paragraphs is to its own (GoodSpan), and so are the windows over a long *)
(* paragraph (GoodWindows).  LoopInv is the invariant of the loop over     *)
(* paragraphs.  Each induction is on the least number that fails.          *)
(***************************************************************************)
EXTENDS MCVectorIndex, SequenceTheorems, FiniteSetTheorems,
        WellFoundedInduction, TLAPS

Standing ==
  /\ phase \in {"off", "serving"} => fingerprint = <<>>
  /\ phase \in {"off", "serving", "fingerprint"} =>
       documents = <<>> /\ filesRead = 0 /\ added = 0
  /\ phase \in {"read", "add"} => touched /\ Len(fingerprint) = NumFiles
  /\ phase = "read" => collection = {} /\ added = 0 /\ filesRead < NumFiles
  /\ phase = "add" =>
       /\ filesRead = NumFiles
       /\ collection = ToSet(SubSeq(documents, 1, added))

ChunksUpTo(n) == UNION {ToSet(ChunksOf(f, kb[f], config)) : f \in 1 .. n}

Gathered ==
  ~edited =>
    /\ \A k \in 1 .. Len(fingerprint) : fingerprint[k] = kb[k]
    /\ ToSet(documents) = ChunksUpTo(filesRead)

Inv ==
  /\ TypeOK
  /\ Standing
  /\ Gathered
  /\ StampVouches
  /\ ServesTheDirectory
  /\ ServesSomething

-----------------------------------------------------------------------------
(* Sequences as sets *)

LEMMA ConcatenatedSet ==
  ASSUME NEW S, NEW s \in Seq(S), NEW t \in Seq(S)
  PROVE  ToSet(s \o t) = ToSet(s) \cup ToSet(t)
  <1>1. ASSUME NEW x \in ToSet(s \o t) PROVE x \in ToSet(s) \cup ToSet(t)
    <2>1. PICK k \in 1 .. Len(s) + Len(t) : x = (s \o t)[k]
      BY <1>1 DEF ToSet
    <2>2. CASE k <= Len(s)
      BY <2>1, <2>2 DEF ToSet
    <2>3. CASE k > Len(s)
      <3>1. k - Len(s) \in 1 .. Len(t) /\ x = t[k - Len(s)]
        BY <2>1, <2>3
      <3> QED BY <3>1 DEF ToSet
    <2> QED BY <2>1, <2>2, <2>3
  <1>2. ASSUME NEW x \in ToSet(s) PROVE x \in ToSet(s \o t)
    <2>1. PICK k \in 1 .. Len(s) : x = s[k]
      BY <1>2 DEF ToSet
    <2>2. k \in 1 .. Len(s \o t) /\ (s \o t)[k] = x
      BY <2>1
    <2> QED BY <2>2 DEF ToSet
  <1>3. ASSUME NEW x \in ToSet(t) PROVE x \in ToSet(s \o t)
    <2>1. PICK k \in 1 .. Len(t) : x = t[k]
      BY <1>3 DEF ToSet
    <2>2. Len(s) + k \in 1 .. Len(s \o t) /\ (s \o t)[Len(s) + k] = x
      BY <2>1
    <2> QED BY <2>2 DEF ToSet
  <1> QED BY <1>1, <1>2, <1>3

LEMMA SetOfPart ==
  ASSUME NEW S, NEW s \in Seq(S), NEW m \in 1 .. Len(s) + 1, NEW n \in 0 .. Len(s)
  PROVE  ToSet(SubSeq(s, m, n)) = {s[k] : k \in m .. n}
  <1>1. Len(SubSeq(s, m, n)) = IF m <= n THEN n - m + 1 ELSE 0
    OBVIOUS
  <1>2. \A k \in 1 .. n - m + 1 : SubSeq(s, m, n)[k] = s[m + k - 1]
    OBVIOUS
  <1>3. DOMAIN SubSeq(s, m, n) = 1 .. n - m + 1
    OBVIOUS
  <1>4. ASSUME NEW k \in m .. n PROVE s[k] \in ToSet(SubSeq(s, m, n))
    <2>1. k - m + 1 \in 1 .. n - m + 1 /\ SubSeq(s, m, n)[k - m + 1] = s[k]
      BY <1>2
    <2> QED BY <1>3, <2>1 DEF ToSet
  <1>5. ASSUME NEW x \in ToSet(SubSeq(s, m, n)) PROVE \E k \in m .. n : x = s[k]
    <2>1. PICK k \in 1 .. n - m + 1 : x = SubSeq(s, m, n)[k]
      BY <1>3, <1>5 DEF ToSet
    <2>2. m + k - 1 \in m .. n /\ x = s[m + k - 1]
      BY <1>2, <2>1
    <2> QED BY <2>2
  <1> QED BY <1>4, <1>5

LEMMA MinOfTwo ==
  ASSUME NEW a \in Int, NEW b \in Int
  PROVE  Min({a, b}) = IF a <= b THEN a ELSE b
  BY DEF Min

-----------------------------------------------------------------------------
LEMMA ChunksTyped ==
  ASSUME NEW f \in Files, NEW text \in Listing, NEW c \in Configs
  PROVE  ChunksOf(f, text, c) \in Seq(AnyDocument)
  <1> DEFINE chunks == IF text = NoFile THEN <<>> ELSE Chunks(text, c)
  <1>1. Len(chunks) \in Nat
    BY IndexAssumption DEF Listing
  <1>2. ChunksOf(f, text, c) = [k \in 1 .. Len(chunks) |-> Chunk(f, text, chunks[k])]
    BY DEF ChunksOf
  <1>3. ToSet(ChunksOf(f, text, c)) \subseteq AnyDocument
    BY DEF AnyDocument
  <1>4. \A k \in 1 .. Len(chunks) : Chunk(f, text, chunks[k]) \in AnyDocument
    BY <1>2, <1>3 DEF ToSet
  <1> QED BY <1>1, <1>2, <1>4

(* The directory as digested and as read, once all its files are. *)
LEMMA WhollyGathered ==
  ASSUME TypeOK, Gathered, ~edited
  PROVE  /\ Len(fingerprint) = NumFiles => fingerprint = kb
         /\ filesRead = NumFiles => ToSet(documents) = IndexOf(kb, config)
  <1>1. kb \in [1 .. NumFiles -> Listing] /\ DOMAIN kb = 1 .. NumFiles
    BY DEF TypeOK, Files
  <1>2. PICK n \in 0 .. NumFiles : fingerprint \in [1 .. n -> Listing]
    BY DEF TypeOK
  <1>3. Len(fingerprint) = n
    BY <1>2, IndexAssumption
  <1>4. Len(fingerprint) = NumFiles => fingerprint = kb
    BY <1>1, <1>2, <1>3 DEF Gathered
  <1>5. filesRead = NumFiles => ToSet(documents) = IndexOf(kb, config)
    BY <1>1 DEF Gathered, ChunksUpTo, IndexOf
  <1> QED BY <1>4, <1>5
-----------------------------------------------------------------------------
(* Type correctness *)

LEMMA EmptySeqTyped ==
  <<>> \in UNION {[1 .. n -> Listing] : n \in 0 .. NumFiles}
  <1>1. 0 \in 0 .. NumFiles
    BY IndexAssumption
  <1>2. <<>> \in [1 .. 0 -> Listing]
    OBVIOUS
  <1> QED BY <1>1, <1>2

LEMMA LocalsReturned ==
  ASSUME Returns
  PROVE  /\ fingerprint' \in UNION {[1 .. n -> Listing] : n \in 0 .. NumFiles}
         /\ documents' \in Seq(AnyDocument)
         /\ filesRead' \in 0 .. NumFiles
         /\ added' \in 0 .. Len(documents')
  <1>1. 0 \in 0 .. NumFiles
    BY IndexAssumption
  <1>2. documents' \in Seq(AnyDocument) /\ Len(documents') = 0
    BY DEF Returns
  <1> QED BY <1>1, <1>2, EmptySeqTyped DEF Returns

LEMMA StepTyped ==
  ASSUME TypeOK, Standing, [Next]_vars PROVE TypeOK'
  <1>0. NumFiles \in Nat /\ NumFiles >= 1 /\ BatchSize \in Nat /\ BatchSize >= 1
        /\ MaxEdits \in Nat /\ MaxStops \in Nat
    BY IndexAssumption
  <1> USE DEF TypeOK
  <1>1. CASE Edit
    BY <1>0, <1>1 DEF Edit, settings, locals
  <1>2. ASSUME NEW c \in Configs, NEW forced \in BOOLEAN, Start(c, forced) PROVE TypeOK'
    BY <1>2 DEF Start, Phases, locals, bounds
  <1>3. CASE DigestFile
    <2>1. PICK n \in 0 .. NumFiles : fingerprint \in [1 .. n -> Listing]
      OBVIOUS
    <2>2. fingerprint \in Seq(Listing) /\ Len(fingerprint) = n /\ n < NumFiles
      BY <1>0, <1>3, <2>1 DEF DigestFile
    <2>3. kb[n + 1] \in Listing
      BY <1>0, <2>2 DEF Files
    <2>4. fingerprint' \in [1 .. n + 1 -> Listing]
      <3>1. fingerprint' = Append(fingerprint, kb[n + 1])
        BY <1>3, <2>2 DEF DigestFile
      <3>2. fingerprint' \in Seq(Listing) /\ Len(fingerprint') = n + 1
        BY <2>2, <2>3, <3>1
      <3> QED BY <3>2, LenProperties
    <2>5. n + 1 \in 0 .. NumFiles
      BY <1>0, <2>2
    <2> QED BY <1>3, <2>4, <2>5 DEF DigestFile, settings, bounds
  <1>4. CASE SkipIngest
    BY <1>4, LocalsReturned DEF SkipIngest, Phases, settings, bounds
  <1>5. CASE BeginRebuild
    BY <1>5 DEF BeginRebuild, CollectionDeleted, Phases, settings, locals, bounds
  <1>6. CASE ReadFile
    <2>1. filesRead < NumFiles
      BY <1>6 DEF ReadFile, Standing
    <2>2. filesRead' = filesRead + 1 /\ filesRead' \in Files
      BY <1>0, <1>6, <2>1 DEF ReadFile, Files
    <2>3. /\ ChunksOf(filesRead', kb[filesRead'], config) \in Seq(AnyDocument)
          /\ documents' = documents \o ChunksOf(filesRead', kb[filesRead'], config)
      BY <1>6, <2>2, ChunksTyped DEF ReadFile
    <2>4. documents' \in Seq(AnyDocument) /\ Len(documents') >= Len(documents)
      BY <2>3
    <2>5. added' \in 0 .. Len(documents')
      BY <1>6, <2>4 DEF ReadFile
    <2> QED BY <1>6, <2>2, <2>4, <2>5 DEF ReadFile, Phases, Files, settings, bounds
  <1>7. CASE FindNothing
    BY <1>7, LocalsReturned DEF FindNothing, Phases, settings, bounds
  <1>8. CASE AddBatch
    <2>1. /\ added' \in 0 .. Len(documents)
          /\ collection' = collection \cup ToSet(SubSeq(documents, added + 1, added'))
      <3>1. /\ added < Len(documents)
            /\ added' = Min({added + BatchSize, Len(documents)})
            /\ collection' = collection \cup ToSet(SubSeq(documents, added + 1, added'))
        BY <1>8 DEF AddBatch, Batch
      <3>2. added \in Nat /\ Len(documents) \in Nat
        OBVIOUS
      <3> HIDE DEF TypeOK
      <3>3. added' \in 0 .. Len(documents)
        BY <1>0, <3>1, <3>2, MinOfTwo
      <3> QED BY <3>1, <3>3
    <2>2. ToSet(SubSeq(documents, added + 1, added')) = {documents[k] : k \in added + 1 .. added'}
      <3>1. documents \in Seq(AnyDocument) /\ added + 1 \in 1 .. Len(documents) + 1
        OBVIOUS
      <3> HIDE DEF TypeOK
      <3> QED BY <2>1, <3>1, SetOfPart
    <2>3. collection' \subseteq AnyDocument
      BY <2>1, <2>2
    <2> QED BY <1>8, <2>1, <2>3 DEF AddBatch, settings, bounds
  <1>9. CASE WriteFingerprint
    <2>1. CurrentDigest \in Digest
      <3>1. fingerprint \in [1 .. NumFiles -> Listing]
        <4>1. PICK n \in 0 .. NumFiles : fingerprint \in [1 .. n -> Listing]
          OBVIOUS
        <4>2. Len(fingerprint) = n /\ Len(fingerprint) = NumFiles
          BY <1>0, <1>9, <4>1 DEF WriteFingerprint, AllAdded, Standing
        <4> QED BY <4>1, <4>2
      <3> QED BY <3>1 DEF CurrentDigest, Digest, Files
    <2> QED BY <1>9, <2>1, LocalsReturned
            DEF WriteFingerprint, Phases, settings, bounds
  <1>10. CASE Stop
    <2>1. stops' \in 0 .. MaxStops
      BY <1>0, <1>10 DEF Stop
    <2> QED BY <1>10, <2>1, LocalsReturned DEF Stop, Phases, settings
  <1>11. CASE UNCHANGED vars
    BY <1>11 DEF vars, settings, locals, bounds
  <1> QED BY <1>1, <1>2, <1>3, <1>4, <1>5, <1>6, <1>7, <1>8, <1>9, <1>10, <1>11
          DEF Next, Ingest

-----------------------------------------------------------------------------
LEMMA StepStanding ==
  ASSUME TypeOK, Standing, [Next]_vars PROVE Standing'
  <1>0. NumFiles \in Nat /\ NumFiles >= 1 /\ BatchSize \in Nat /\ BatchSize >= 1
    BY IndexAssumption
  <1> USE DEF Standing
  <1>1. CASE Edit
    BY <1>1 DEF Edit, settings, locals
  <1>2. ASSUME NEW c \in Configs, NEW forced \in BOOLEAN, Start(c, forced) PROVE Standing'
    BY <1>2 DEF Start, locals, bounds
  <1>3. CASE DigestFile
    BY <1>3 DEF DigestFile, settings, bounds
  <1>4. CASE SkipIngest \/ FindNothing \/ WriteFingerprint \/ Stop
    BY <1>4 DEF SkipIngest, FindNothing, WriteFingerprint, Stop, Returns
  <1>5. CASE BeginRebuild
    BY <1>0, <1>5 DEF BeginRebuild, CollectionDeleted, settings, locals, bounds
  <1>6. CASE ReadFile
    <2>1. /\ phase = "read"
          /\ collection' = {} /\ added' = 0 /\ touched'
          /\ Len(fingerprint') = NumFiles
      BY <1>6 DEF ReadFile
    <2>2. filesRead' \in 1 .. NumFiles
      BY <1>0, <1>6 DEF ReadFile, TypeOK
    <2>3. \/ phase' = "add" /\ filesRead' = NumFiles
          \/ phase' = "read" /\ filesRead' < NumFiles
      BY <1>0, <1>6, <2>2 DEF ReadFile
    <2>4. documents' \in Seq(AnyDocument)
      BY <1>6, StepTyped DEF Next, Ingest, TypeOK
    <2>5. ToSet(SubSeq(documents', 1, added')) = {}
      BY <2>1, <2>4, SetOfPart
    <2> QED BY <2>1, <2>3, <2>5
  <1>7. CASE AddBatch
    <2>1. /\ added \in 0 .. Len(documents)
          /\ added' \in added .. Len(documents)
          /\ collection' = collection \cup ToSet(SubSeq(documents, added + 1, added'))
          /\ added < Len(documents)
          /\ documents \in Seq(AnyDocument)
      BY <1>0, <1>7, MinOfTwo DEF AddBatch, Batch, TypeOK
    <2>2. collection = {documents[k] : k \in 1 .. added}
      BY <1>7, <2>1, SetOfPart DEF AddBatch
    <2>3. ToSet(SubSeq(documents, added + 1, added')) = {documents[k] : k \in added + 1 .. added'}
      BY <2>1, SetOfPart
    <2>4. ToSet(SubSeq(documents, 1, added')) = {documents[k] : k \in 1 .. added'}
      BY <2>1, SetOfPart
    <2>5. collection' = ToSet(SubSeq(documents, 1, added'))
      BY <2>1, <2>2, <2>3, <2>4
    <2> QED BY <1>7, <2>5 DEF AddBatch, settings, bounds
  <1>8. CASE UNCHANGED vars
    BY <1>8 DEF vars, settings, locals, bounds
  <1> QED BY <1>1, <1>2, <1>3, <1>4, <1>5, <1>6, <1>7, <1>8 DEF Next, Ingest
-----------------------------------------------------------------------------
LEMMA StepGathered ==
  ASSUME TypeOK, Standing, Gathered, [Next]_vars PROVE Gathered'
  <1>0. NumFiles \in Nat /\ NumFiles >= 1
    BY IndexAssumption
  <1> USE DEF Gathered, ChunksUpTo
  <1>1. CASE Edit
    BY <1>1 DEF Edit
  <1>2. ASSUME NEW c \in Configs, NEW forced \in BOOLEAN, Start(c, forced) PROVE Gathered'
    <2>1. fingerprint' = <<>> /\ documents' = <<>> /\ filesRead' = 0
      BY <1>2 DEF Start, Standing, locals
    <2>2. ToSet(documents') = {} /\ ChunksUpTo(filesRead)' = {}
      BY <2>1 DEF ToSet
    <2> QED BY <2>1, <2>2
  <1>3. CASE DigestFile
    <2>1. PICK n \in 0 .. NumFiles : fingerprint \in [1 .. n -> Listing]
      BY DEF TypeOK
    <2>2. fingerprint \in Seq(Listing) /\ Len(fingerprint) = n /\ n < NumFiles
      BY <1>0, <1>3, <2>1 DEF DigestFile
    <2>3. /\ kb[n + 1] \in Listing
          /\ fingerprint' = Append(fingerprint, kb[n + 1])
          /\ kb' = kb /\ config' = config /\ documents' = documents
          /\ filesRead' = filesRead /\ edited' = edited
      BY <1>0, <1>3, <2>2 DEF DigestFile, TypeOK, Files, settings
    <2>4. ~edited => \A k \in 1 .. Len(fingerprint') : fingerprint'[k] = kb[k]
      BY <2>2, <2>3
    <2> QED BY <2>3, <2>4
  <1>4. CASE SkipIngest \/ FindNothing \/ WriteFingerprint \/ Stop
    <2>1. /\ fingerprint' = <<>> /\ documents' = <<>> /\ filesRead' = 0
      BY <1>4 DEF SkipIngest, FindNothing, WriteFingerprint, Stop, Returns
    <2>2. ToSet(documents') = {} /\ ChunksUpTo(filesRead)' = {}
      BY <2>1 DEF ToSet
    <2> QED BY <2>1, <2>2
  <1>5. CASE BeginRebuild
    BY <1>5 DEF BeginRebuild, settings, locals
  <1>6. CASE ReadFile
    <2>1. /\ filesRead' = filesRead + 1 /\ filesRead' \in Files
          /\ documents \in Seq(AnyDocument)
          /\ documents' = documents \o ChunksOf(filesRead', kb[filesRead'], config)
          /\ kb' = kb /\ config' = config /\ fingerprint' = fingerprint
          /\ edited' = edited
      BY <1>0, <1>6 DEF ReadFile, Standing, TypeOK, Files, settings
    <2>2. ChunksOf(filesRead', kb[filesRead'], config) \in Seq(AnyDocument)
      BY <2>1, ChunksTyped DEF TypeOK
    <2>3. ToSet(documents') =
            ToSet(documents) \cup ToSet(ChunksOf(filesRead', kb[filesRead'], config))
      BY <2>1, <2>2, ConcatenatedSet
    <2>4. 1 .. filesRead' = 1 .. filesRead \cup {filesRead'}
      BY <2>1 DEF TypeOK
    <2>5. ChunksUpTo(filesRead)' =
            ChunksUpTo(filesRead) \cup ToSet(ChunksOf(filesRead', kb[filesRead'], config))
      BY <2>1, <2>4
    <2> QED BY <2>1, <2>3, <2>5
  <1>7. CASE AddBatch
    BY <1>7 DEF AddBatch, Batch, settings, bounds
  <1>8. CASE UNCHANGED vars
    BY <1>8 DEF vars, settings, locals
  <1> QED BY <1>1, <1>2, <1>3, <1>4, <1>5, <1>6, <1>7, <1>8 DEF Next, Ingest

-----------------------------------------------------------------------------
(* A rebuild that nobody edited under ends with the index of the directory. *)
LEMMA RebuiltIndex ==
  ASSUME TypeOK, Standing, Gathered, AllAdded, ~edited
  PROVE  fingerprint = kb /\ collection = IndexOf(kb, config)
  <1>1. Len(fingerprint) = NumFiles /\ filesRead = NumFiles /\ added = Len(documents)
    BY DEF Standing, AllAdded
  <1>2. documents \in Seq(AnyDocument) /\ Len(documents) \in Nat
    BY DEF TypeOK
  <1>3. ToSet(SubSeq(documents, 1, Len(documents))) = {documents[k] : k \in 1 .. Len(documents)}
    BY <1>2, SetOfPart
  <1>4. collection = ToSet(documents)
    BY <1>1, <1>2, <1>3 DEF Standing, AllAdded, ToSet
  <1> QED BY <1>1, <1>4, WhollyGathered

LEMMA StepVouches ==
  ASSUME Inv, [Next]_vars PROVE StampVouches' /\ ServesTheDirectory'
  <1> USE DEF StampVouches, ServesTheDirectory
  <1>1. CASE Edit
    BY <1>1 DEF Edit, Inv
  <1>2. ASSUME NEW c \in Configs, NEW forced \in BOOLEAN, Start(c, forced)
        PROVE  StampVouches' /\ ServesTheDirectory'
    BY <1>2 DEF Start, Inv
  <1>3. CASE DigestFile
    BY <1>3 DEF DigestFile, Inv
  <1>4. CASE SkipIngest
    <2>1. /\ stamp = [config |-> config, files |-> fingerprint]
          /\ Len(fingerprint) = NumFiles
          /\ collection' = collection /\ stamp' = stamp /\ touched' = touched
          /\ edited' = edited /\ kb' = kb /\ config' = config
      BY <1>4 DEF SkipIngest, Skips, CurrentDigest, settings
    <2>2. ~edited => fingerprint = kb
      BY <2>1, WhollyGathered DEF Inv
    <2>3. ~edited => stamp = [config |-> config, files |-> kb]
      BY <2>1, <2>2
    <2>4. stamp # Torn
      <3>1. PICK n \in 0 .. NumFiles : fingerprint \in [1 .. n -> Listing]
        BY DEF Inv, TypeOK
      <3>2. Len(fingerprint) = n
        BY <3>1, IndexAssumption
      <3>3. fingerprint \in [Files -> Listing]
        BY <2>1, <3>1, <3>2 DEF Files
      <3> QED BY <2>1, <3>3, TornAssumption DEF Digest, Inv, TypeOK
    <2> QED BY <2>1, <2>3, <2>4 DEF Inv
  <1>5. CASE BeginRebuild
    BY <1>5 DEF BeginRebuild, Inv
  <1>6. CASE ReadFile
    BY <1>6 DEF ReadFile, Inv, Standing
  <1>7. CASE FindNothing
    BY <1>7 DEF FindNothing, Inv
  <1>8. CASE AddBatch
    BY <1>8 DEF AddBatch, Inv, Standing
  <1>9. CASE WriteFingerprint
    <2>1. /\ AllAdded
          /\ stamp' = [config |-> config, files |-> fingerprint]
          /\ touched' = edited /\ edited' = edited
          /\ collection' = collection /\ kb' = kb /\ config' = config
      BY <1>9 DEF WriteFingerprint, CurrentDigest, settings
    <2>2. ~edited => fingerprint = kb /\ collection = IndexOf(kb, config)
      BY <2>1, RebuiltIndex DEF Inv
    <2>3. stamp'.config = config /\ stamp'.files = fingerprint
      BY <2>1
    <2>4. StampVouches'
      <3> SUFFICES ASSUME ~edited PROVE collection' = IndexOf(stamp'.files, stamp'.config)
        BY <2>1
      <3> QED BY <2>1, <2>2, <2>3
    <2>5. ServesTheDirectory'
      <3> SUFFICES ASSUME ~edited PROVE collection' = IndexOf(kb', config')
        BY <2>1
      <3> QED BY <2>1, <2>2
    <2> QED BY <2>4, <2>5
  <1>10. CASE Stop
    BY <1>10 DEF Stop, AllAdded, Inv, Standing
  <1>11. CASE UNCHANGED vars
    BY <1>11 DEF vars, settings, Inv
  <1> QED BY <1>1, <1>2, <1>3, <1>4, <1>5, <1>6, <1>7, <1>8, <1>9, <1>10, <1>11
          DEF Next, Ingest

LEMMA StepServesSomething ==
  ASSUME Inv, [Next]_vars PROVE ServesSomething'
  <1> USE DEF ServesSomething
  <1>1. CASE SkipIngest
    BY <1>1 DEF SkipIngest, Skips
  <1>2. CASE WriteFingerprint
    <2>1. /\ documents \in Seq(AnyDocument) /\ Len(documents) >= 1
          /\ collection' = ToSet(SubSeq(documents, 1, Len(documents)))
      BY <1>2 DEF WriteFingerprint, AllAdded, Inv, TypeOK, Standing
    <2>2. collection' = {documents[k] : k \in 1 .. Len(documents)}
      BY <2>1, SetOfPart
    <2>3. documents[1] \in collection'
      BY <2>1, <2>2
    <2> QED BY <2>3
  <1>3. CASE Edit \/ UNCHANGED vars
    BY <1>3 DEF Edit, vars, Inv
  <1>4. CASE DigestFile \/ BeginRebuild \/ FindNothing \/ AddBatch \/ Stop
    BY <1>4 DEF DigestFile, BeginRebuild, FindNothing, AddBatch, Stop
  <1>5. CASE ReadFile
    BY <1>5 DEF ReadFile
  <1>6. ASSUME NEW c \in Configs, NEW forced \in BOOLEAN, Start(c, forced)
        PROVE  ServesSomething'
    BY <1>6 DEF Start
  <1> QED BY <1>1, <1>2, <1>3, <1>4, <1>5, <1>6 DEF Next, Ingest

(* What holds at each point of an ingest (store.py, ingest_directory).     *)
THEOREM IndexInvariant == Spec => []Inv
  <1>1. Init => Inv
    <2> SUFFICES ASSUME Init PROVE Inv
      OBVIOUS
    <2>1. /\ documents = <<>> /\ fingerprint = <<>> /\ filesRead = 0 /\ added = 0
          /\ stamp = Torn /\ phase = "off" /\ collection = {}
      BY DEF Init
    <2>2. TypeOK
      <3>1. documents \in Seq(AnyDocument) /\ Len(documents) = 0
        BY <2>1
      <3>2. /\ filesRead \in 0 .. NumFiles /\ added \in 0 .. Len(documents)
            /\ edits \in 0 .. MaxEdits /\ stops \in 0 .. MaxStops
        BY <2>1, <3>1, IndexAssumption DEF Init
      <3> QED BY <2>1, <3>1, <3>2, EmptySeqTyped DEF Init, TypeOK, Phases
    <2>3. Standing
      BY <2>1 DEF Standing
    <2>4. Gathered
      <3>1. ToSet(documents) = {} /\ ChunksUpTo(filesRead) = {}
        BY <2>1 DEF ToSet, ChunksUpTo
      <3> QED BY <2>1, <3>1 DEF Gathered
    <2> QED BY <2>1, <2>2, <2>3, <2>4 DEF Inv, StampVouches, ServesTheDirectory, ServesSomething
  <1>2. Inv /\ [Next]_vars => Inv'
    BY StepTyped, StepStanding, StepGathered, StepVouches, StepServesSomething
    DEF Inv
  <1> QED BY <1>1, <1>2, PTL DEF Spec

(* Every reachable state of the index is well typed. *)
THEOREM IndexTypeCorrect == Spec => []TypeOK
  BY IndexInvariant, PTL DEF Inv

(* A fingerprint on disk vouches for the collection, until a later rebuild *)
(* was begun or files were edited under its own (store.py,                 *)
(* ingest_directory).                                                      *)
THEOREM StampsVouch == Spec => []StampVouches
  BY IndexInvariant, PTL DEF Inv

(* A start nobody edits under serves the chunks of the directory, but for  *)
(* a stamp that a later rebuild left behind.                               *)
THEOREM ServesWhatIsThere == Spec => []ServesTheDirectory
  BY IndexInvariant, PTL DEF Inv

(* Nothing is served from an empty collection, although an empty directory *)
(* costs the collection and leaves the fingerprint (store.py, "No          *)
(* documents found").                                                      *)
THEOREM NeverServesNothing == Spec => []ServesSomething
  BY IndexInvariant, PTL DEF Inv

-----------------------------------------------------------------------------
(* The process is stopped, and files are edited, but never under a rebuild; *)
(* an edit does not come while the directory is digested either.            *)
Orderly ==
  /\ Edit => phase \in {"off", "serving"}
  /\ Stop => phase \in {"fingerprint", "serving"}

(* Then a stamp that has been overtaken has no collection beside it, unless *)
(* a rebuild is going on.                                                   *)
OrderlyInv ==
  /\ phase \in {"fingerprint", "read", "add"} => ~edited
  /\ phase \notin {"read", "add"} /\ touched => collection = {}

LEMMA NextOrderly ==
  ASSUME Inv, OrderlyInv, [Next]_vars, [Orderly]_vars PROVE OrderlyInv'
  <1>1. CASE Edit
    <2>1. phase \in {"off", "serving"}
      BY <1>1 DEF Orderly, Edit, vars, bounds, Inv, TypeOK
    <2> QED BY <1>1, <2>1 DEF Edit, OrderlyInv
  <1>2. ASSUME NEW c \in Configs, NEW forced \in BOOLEAN, Start(c, forced) PROVE OrderlyInv'
    BY <1>2 DEF Start, OrderlyInv
  <1>3. CASE DigestFile \/ SkipIngest \/ BeginRebuild \/ ReadFile \/ AddBatch
    BY <1>3 DEF DigestFile, SkipIngest, BeginRebuild, ReadFile, AddBatch, OrderlyInv
  <1>4. CASE FindNothing
    <2>1. collection = ToSet(SubSeq(documents, 1, added)) /\ added = 0 /\ documents = <<>>
      BY <1>4 DEF FindNothing, Inv, Standing, TypeOK
    <2>2. collection = {}
      BY <2>1 DEF ToSet
    <2> QED BY <1>4, <2>2 DEF FindNothing, OrderlyInv
  <1>5. CASE WriteFingerprint
    BY <1>5 DEF WriteFingerprint, AllAdded, OrderlyInv
  <1>6. CASE Stop
    <2>1. phase \in {"fingerprint", "serving"}
      BY <1>6 DEF Orderly, Stop, vars, bounds, Inv, TypeOK
    <2> QED BY <1>6, <2>1 DEF Stop, OrderlyInv
  <1>7. CASE UNCHANGED vars
    BY <1>7 DEF vars, OrderlyInv
  <1> QED BY <1>1, <1>2, <1>3, <1>4, <1>5, <1>6, <1>7 DEF Next, Ingest

(* What README.md says of the index is right of a process that is stopped, *)
(* and of a directory that is edited, under no rebuild: whoever starts     *)
(* serves the chunks of the directory, under whatever settings.            *)
THEOREM OrderlyIndexIsCurrent == Spec /\ [][Orderly]_vars => []ServesNoOtherIndex
  <1>1. Init => OrderlyInv
    BY DEF Init, OrderlyInv
  <1>2. Inv /\ OrderlyInv => ServesNoOtherIndex
    BY DEF Inv, OrderlyInv, ServesTheDirectory, ServesSomething, ServesNoOtherIndex
  <1>3. Inv /\ OrderlyInv /\ [Next]_vars /\ [Orderly]_vars => OrderlyInv'
    BY NextOrderly
  <1> QED BY <1>1, <1>2, <1>3, IndexInvariant, PTL DEF Spec

-----------------------------------------------------------------------------
(* Induction by the least counterexample *)

LEMMA LeastOf ==
  ASSUME NEW S \in SUBSET Nat, S # {}
  PROVE  \E n \in S : \A k \in S : n <= k
  <1>1. PICK n \in S : \A k \in S : ~(<<k, n>> \in OpToRel(<, Nat))
    BY NatLessThanWellFounded, WFMin
  <1>2. \A k \in S : ~(k < n)
    BY <1>1 DEF OpToRel
  <1> QED BY <1>2

-----------------------------------------------------------------------------
(* The characters of a text *)

Text == Seq(Nat \ {0})

LEMMA TextType ==
  ASSUME NEW text \in Text
  PROVE  Len(text) \in Nat /\ \A p \in 1 .. Len(text) : text[p] \in Nat \ {0}
  BY DEF Text

LEMMA HasBound ==
  ASSUME NEW text \in Text
  PROVE  \E m \in Nat : \A p \in 1 .. Len(text) : text[p] <= m
  <1> DEFINE Bounded(n) == \E m \in Nat : \A p \in 1 .. Len(text) : p <= n => text[p] <= m
             Bad == {n \in Nat : n <= Len(text) /\ ~Bounded(n)}
  <1>1. Len(text) \in Nat /\ \A p \in 1 .. Len(text) : text[p] \in Nat
    BY TextType
  <1>2. Bounded(0)
    <2>1. \A p \in 1 .. Len(text) : p <= 0 => text[p] <= 0
      BY <1>1
    <2> QED BY <2>1
  <1>3. ASSUME NEW n \in Nat \ {0}, n <= Len(text), Bounded(n - 1) PROVE Bounded(n)
    <2>1. PICK m \in Nat : \A p \in 1 .. Len(text) : p <= n - 1 => text[p] <= m
      BY <1>3
    <2> DEFINE m2 == m + text[n]
    <2>2. n \in 1 .. Len(text) /\ text[n] \in Nat
      BY <1>1, <1>3
    <2>3. m2 \in Nat /\ m <= m2 /\ text[n] <= m2
      BY <2>2
    <2> HIDE DEF m2
    <2>4. ASSUME NEW p \in 1 .. Len(text), p <= n PROVE text[p] <= m2
      <3>1. CASE p = n
        BY <2>3, <3>1
      <3>2. CASE p # n
        <4>1. p <= n - 1 /\ text[p] \in Nat
          BY <1>1, <2>4, <3>2
        <4> QED BY <2>1, <2>3, <4>1
      <3> QED BY <3>1, <3>2
    <2> QED BY <2>3, <2>4
  <1> HIDE DEF Bounded
  <1>4. Bad = {}
    <2> SUFFICES ASSUME Bad # {} PROVE FALSE
      OBVIOUS
    <2>1. Bad \in SUBSET Nat
      OBVIOUS
    <2> HIDE DEF Bad
    <2>2. PICK n \in Bad : \A k \in Bad : n <= k
      BY <2>1, LeastOf
    <2>3. n \in Nat /\ n <= Len(text) /\ ~Bounded(n)
      BY <2>2 DEF Bad
    <2>4. n # 0 /\ n - 1 \in Nat /\ n - 1 <= Len(text) /\ n - 1 \notin Bad
      BY <1>1, <1>2, <2>2, <2>3
    <2>5. Bounded(n - 1)
      BY <2>4 DEF Bad
    <2> QED BY <1>3, <2>3, <2>4, <2>5
  <1>5. Bounded(Len(text))
    <2> DEFINE n == Len(text)
    <2>1. n \in Nat /\ n <= Len(text)
      BY <1>1
    <2> HIDE DEF n
    <2>2. Bounded(n)
      BY <1>4, <2>1
    <2> QED BY <2>2 DEF n
  <1>6. PICK m \in Nat : \A p \in 1 .. Len(text) : p <= Len(text) => text[p] <= m
    BY <1>5 DEF Bounded
  <1>7. \A p \in 1 .. Len(text) : p <= Len(text)
    BY <1>1
  <1> QED BY <1>6, <1>7

LEMMA LongestIs ==
  ASSUME NEW text \in Text
  PROVE  /\ Max(ToSet(text) \cup {0}) \in Nat
         /\ \A p \in 1 .. Len(text) : text[p] <= Max(ToSet(text) \cup {0})
  <1> DEFINE S == ToSet(text) \cup {0}
             B == {m \in Nat : \A x \in S : x <= m}
  <1>1. S \subseteq Nat /\ \A p \in 1 .. Len(text) : text[p] \in S
    BY DEF Text, ToSet
  <1>2. PICK b \in Nat : \A p \in 1 .. Len(text) : text[p] <= b
    BY HasBound
  <1>3. b \in B
    BY <1>2 DEF ToSet
  <1>4. PICK m \in B : \A k \in B : m <= k
    <2>1. B \in SUBSET Nat /\ B # {}
      BY <1>3
    <2> HIDE DEF B
    <2> QED BY <2>1, LeastOf
  <1>5. m \in S
    <2> SUFFICES ASSUME m \notin S PROVE FALSE
      OBVIOUS
    <2>1. m # 0 /\ \A x \in S : x <= m - 1
      BY <1>1
    <2>2. m - 1 \in B
      BY <2>1
    <2> QED BY <1>4, <2>2
  <1>6. \A x \in S : m >= x
    BY <1>1
  <1>7. Max(S) \in S /\ \A x \in S : Max(S) >= x
    BY <1>5, <1>6 DEF Max
  <1> HIDE DEF S
  <1> QED BY <1>1, <1>7 DEF S

LEMMA CharacterIs ==
  ASSUME NEW text \in Text
  PROVE  /\ \A p \in 1 .. Len(text) : \A i \in 0 .. text[p] - 1 : <<p, i>> \in Characters(text)
         /\ \A x \in Characters(text) :
              x[1] \in 1 .. Len(text) /\ x[2] \in 0 .. text[x[1]] - 1 /\ x = <<x[1], x[2]>>
         /\ IsFiniteSet(Characters(text))
  <1> DEFINE m == Max(ToSet(text) \cup {0})
  <1>1. /\ m \in Nat /\ Len(text) \in Nat
        /\ \A p \in 1 .. Len(text) : text[p] <= m /\ text[p] \in Nat
    BY LongestIs, TextType
  <1>2. Characters(text) = {y \in (1 .. Len(text)) \X (0 .. m) : y[2] < text[y[1]]}
    BY DEF Characters
  <1> HIDE DEF m
  <1>3. IsFiniteSet((1 .. Len(text)) \X (0 .. m))
    <2>1. IsFiniteSet(1 .. Len(text)) /\ IsFiniteSet(0 .. m)
      BY <1>1, FS_Interval
    <2> QED BY <2>1, FS_Product
  <1>4. IsFiniteSet(Characters(text))
    BY <1>2, <1>3, FS_Subset
  <1>5. \A p \in 1 .. Len(text) : \A i \in 0 .. text[p] - 1 : <<p, i>> \in Characters(text)
    BY <1>1, <1>2
  <1>6. ASSUME NEW x \in Characters(text)
        PROVE  /\ x[1] \in 1 .. Len(text) /\ x[2] \in 0 .. text[x[1]] - 1
               /\ x = <<x[1], x[2]>>
    <2>1. PICK p \in 1 .. Len(text), i \in 0 .. m : x = <<p, i>>
      BY <1>2
    <2> QED BY <1>1, <1>2, <2>1
  <1> QED BY <1>4, <1>5, <1>6
-----------------------------------------------------------------------------
(* Chunks and their characters *)

Piece == [first : Nat, last : Nat, from : Nat, to : Nat]

Span(text, f, l) == [first |-> f, last |-> l, from |-> 0, to |-> text[l]]

Window(p, start, end) == [first |-> p, last |-> p, from |-> start, to |-> end]

LEMMA CharactersOfChunk ==
  ASSUME NEW text \in Text, NEW c
  PROVE  /\ CharactersOf(c, text) \subseteq Characters(text)
         /\ IsFiniteSet(CharactersOf(c, text))
         /\ \A x \in CharactersOf(c, text) : x[1] \in c.first .. c.last
  <1>1. CharactersOf(c, text) \subseteq Characters(text)
    BY DEF CharactersOf
  <1>2. IsFiniteSet(CharactersOf(c, text))
    BY <1>1, CharacterIs, FS_Subset
  <1> QED BY <1>1, <1>2 DEF CharactersOf

LEMMA RunLength ==
  ASSUME NEW p, NEW i \in Int, NEW k \in Int, i <= k + 1
  PROVE  /\ IsFiniteSet({p} \X (i .. k))
         /\ Cardinality({p} \X (i .. k)) = k - i + 1
  <1>1. IsFiniteSet({p}) /\ Cardinality({p}) = 1
    BY FS_Singleton
  <1>2. IsFiniteSet(i .. k) /\ Cardinality(i .. k) = k - i + 1
    <2>1. IsFiniteSet(i .. k) /\ Cardinality(i .. k) = IF i > k THEN 0 ELSE k - i + 1
      BY FS_Interval
    <2> QED BY <2>1
  <1> DEFINE T == i .. k
  <1> HIDE DEF T
  <1>3. /\ IsFiniteSet({p} \X T)
        /\ Cardinality({p} \X T) = Cardinality({p}) * Cardinality(T)
    BY <1>1, <1>2, FS_Product, Zenon DEF T
  <1>4. Cardinality({p} \X T) = 1 * (k - i + 1)
    BY <1>1, <1>2, <1>3, Zenon DEF T
  <1>5. Cardinality({p} \X T) = k - i + 1
    BY <1>4
  <1> QED BY <1>3, <1>5 DEF T

LEMMA ParagraphLength ==
  ASSUME NEW text \in Text, NEW p \in 1 .. Len(text)
  PROVE  /\ IsFiniteSet({p} \X (0 .. text[p] - 1))
         /\ Cardinality({p} \X (0 .. text[p] - 1)) = text[p]
  <1> DEFINE n == text[p]
  <1>1. n \in Nat
    BY TextType
  <1> HIDE DEF n
  <1> DEFINE k == n - 1
  <1>2. k \in Int /\ 0 \in Int /\ 0 <= k + 1 /\ k - 0 + 1 = n
    BY <1>1
  <1> HIDE DEF k
  <1>3. IsFiniteSet({p} \X (0 .. k)) /\ Cardinality({p} \X (0 .. k)) = k - 0 + 1
    BY <1>2, RunLength
  <1> QED BY <1>2, <1>3 DEF n, k

LEMMA WindowIs ==
  ASSUME NEW text \in Text, NEW p \in 1 .. Len(text),
         NEW start \in Nat, NEW end \in Nat, start < end, end <= text[p]
  PROVE  /\ CharactersOf(Window(p, start, end), text) = {p} \X (start .. end - 1)
         /\ ChunkLength(Window(p, start, end), text) = end - start
  <1>1. Len(text) \in Nat /\ text[p] \in Nat
    BY TextType
  <1>2. ASSUME NEW x \in CharactersOf(Window(p, start, end), text)
        PROVE  x \in {p} \X (start .. end - 1)
    <2>1. /\ x[1] = p /\ x[2] >= start /\ x[2] < end /\ x \in Characters(text)
      <3>1. x \in Characters(text) /\ x[1] \in p .. p
        BY <1>2 DEF CharactersOf, Window
      <3>2. x[1] = p
        BY <3>1
      <3> QED BY <1>2, <3>1, <3>2 DEF CharactersOf, Window
    <2>2. x[2] \in 0 .. text[p] - 1 /\ x = <<x[1], x[2]>>
      BY <2>1, CharacterIs
    <2>3. x[2] \in start .. end - 1
      BY <1>1, <2>1, <2>2
    <2> QED BY <2>1, <2>2, <2>3
  <1>3. ASSUME NEW x \in {p} \X (start .. end - 1)
        PROVE  x \in CharactersOf(Window(p, start, end), text)
    <2>1. PICK i \in start .. end - 1 : x = <<p, i>>
      BY <1>3
    <2>2. i \in 0 .. text[p] - 1
      BY <1>1, <2>1
    <2>3. x \in Characters(text)
      BY <2>1, <2>2, CharacterIs
    <2> QED BY <2>1, <2>3 DEF CharactersOf, Window
  <1>4. CharactersOf(Window(p, start, end), text) = {p} \X (start .. end - 1)
    BY <1>2, <1>3
  <1>5. Cardinality({p} \X (start .. end - 1)) = end - start
    <2> DEFINE k == end - 1
    <2>1. start \in Int /\ k \in Int /\ start <= k + 1 /\ k - start + 1 = end - start
      OBVIOUS
    <2> HIDE DEF k
    <2>2. Cardinality({p} \X (start .. k)) = k - start + 1
      BY <2>1, RunLength
    <2> QED BY <2>1, <2>2 DEF k
  <1>6. ChunkLength(Window(p, start, end), text) = end - start + 2 * (p - p)
    BY <1>4, <1>5 DEF ChunkLength, Window
  <1> QED BY <1>1, <1>4, <1>6

LEMMA SpanOne ==
  ASSUME NEW text \in Text, NEW p \in 1 .. Len(text)
  PROVE  ChunkLength(Span(text, p, p), text) = text[p]
  <1>1. text[p] \in Nat \ {0} /\ text[p] <= text[p]
    BY TextType
  <1>2. Span(text, p, p) = Window(p, 0, text[p])
    BY DEF Span, Window
  <1>3. ChunkLength(Window(p, 0, text[p]), text) = text[p] - 0
    BY <1>1, WindowIs
  <1> QED BY <1>1, <1>2, <1>3

LEMMA SpanHas ==
  ASSUME NEW text \in Text, NEW f \in 1 .. Len(text), NEW l \in f .. Len(text),
         NEW x \in Characters(text)
  PROVE  x \in CharactersOf(Span(text, f, l), text) <=> x[1] \in f .. l
  <1>1. x[1] \in 1 .. Len(text) /\ x[2] \in 0 .. text[x[1]] - 1
    BY CharacterIs
  <1>2. text[x[1]] \in Nat \ {0}
    BY <1>1, TextType
  <1>3. x[2] >= 0 /\ (x[1] = l => x[2] < text[l])
    BY <1>1, <1>2
  <1> QED BY <1>3 DEF CharactersOf, Span

(* A span grows by its last paragraph and a blank line. *)
LEMMA SpanMore ==
  ASSUME NEW text \in Text, NEW f \in 1 .. Len(text), NEW l \in f .. Len(text) - 1
  PROVE  /\ ChunkLength(Span(text, f, l), text) \in Nat
         /\ ChunkLength(Span(text, f, l + 1), text) =
              ChunkLength(Span(text, f, l), text) + 2 + text[l + 1]
  <1>1. /\ Len(text) \in Nat /\ l \in Nat /\ f \in Nat /\ f <= l
        /\ l \in f .. Len(text) /\ l + 1 \in f .. Len(text) /\ l + 1 \in 1 .. Len(text)
        /\ text[l + 1] \in Nat \ {0}
    BY TextType
  <1> DEFINE m == l + 1
             A == CharactersOf(Span(text, f, l), text)
             B == CharactersOf(Span(text, f, m), text)
             R == {m} \X (0 .. text[m] - 1)
  <1>2. \A x \in Characters(text) : (x \in A <=> x[1] \in f .. l) /\ (x \in B <=> x[1] \in f .. m)
    BY <1>1, SpanHas
  <1>3. A \subseteq Characters(text) /\ B \subseteq Characters(text) /\ IsFiniteSet(A)
    BY CharactersOfChunk
  <1>4. IsFiniteSet(R) /\ Cardinality(R) = text[m]
    BY <1>1, ParagraphLength
  <1>5. \A x \in R : x \in Characters(text) /\ x[1] = m
    BY <1>1, CharacterIs
  <1>6. \A x \in Characters(text) : x[1] = m => x \in R
    <2> SUFFICES ASSUME NEW x \in Characters(text), x[1] = m PROVE x \in R
      OBVIOUS
    <2>1. x[2] \in 0 .. text[m] - 1 /\ x = <<x[1], x[2]>>
      BY CharacterIs
    <2> QED BY <2>1
  <1>7. \A x \in Characters(text) : x[1] \in Nat
    BY CharacterIs
  <1>8. /\ m \in Nat /\ m > l
        /\ \A q \in Nat : q \in f .. m <=> (q \in f .. l \/ q = m)
    BY <1>1
  <1>9. f \in Nat /\ m - f = l - f + 1
    BY <1>1
  <1> HIDE DEF A, B, R, m
  <1>10. B = A \cup R /\ A \cap R = {}
    <2>1. \A x \in R : x \notin A
      BY <1>1, <1>2, <1>5, <1>8
    <2>2. \A x \in B : x \in A \/ x \in R
      BY <1>2, <1>3, <1>6, <1>7, <1>8
    <2>3. \A x \in A : x \in B
      BY <1>2, <1>3, <1>7, <1>8
    <2>4. \A x \in R : x \in B
      BY <1>1, <1>2, <1>5, <1>8
    <2> QED BY <2>1, <2>2, <2>3, <2>4
  <1>11. Cardinality(B) = Cardinality(A) + Cardinality(R) - Cardinality(A \cap R)
    BY <1>3, <1>4, <1>10, FS_Union
  <1>12. Cardinality(A) \in Nat /\ Cardinality(A \cap R) = 0
    BY <1>3, <1>10, FS_CardinalityType, FS_EmptySet
  <1>13. Cardinality(B) = Cardinality(A) + text[m] /\ text[m] \in Nat
    BY <1>1, <1>4, <1>11, <1>12 DEF m
  <1>14. /\ ChunkLength(Span(text, f, l), text) = Cardinality(A) + 2 * (l - f)
         /\ ChunkLength(Span(text, f, m), text) = Cardinality(B) + 2 * (m - f)
    BY DEF ChunkLength, Span, A, B
  <1>15. ChunkLength(Span(text, f, l), text) \in Nat
    BY <1>1, <1>12, <1>14
  <1>16. ChunkLength(Span(text, f, m), text) =
           ChunkLength(Span(text, f, l), text) + 2 + text[m]
    BY <1>1, <1>9, <1>12, <1>13, <1>14
  <1> QED BY <1>15, <1>16 DEF m

-----------------------------------------------------------------------------
(* Chunks that are faithful to the paragraphs from lo to hi *)

InPlace(D, lo, hi) ==
  /\ D \in Seq(Piece)
  /\ \A k \in 1 .. Len(D) :
       lo <= D[k].first /\ D[k].first <= D[k].last /\ D[k].last <= hi
  /\ \A k \in 1 .. Len(D) - 1 : StartsBefore(D[k], D[k + 1])

Sized(D, text, cfg) ==
  \A k \in 1 .. Len(D) : ChunkLength(D[k], text) \in 1 .. cfg.size + 1

Covers(D, lo, hi, text) ==
  \A x \in Characters(text) : x[1] \in lo .. hi =>
    \E k \in 1 .. Len(D) : x \in CharactersOf(D[k], text)

OnlyOne(D, text, cfg) ==
  \A k, l \in 1 .. Len(D) : \A x \in Characters(text) :
    /\ text[x[1]] <= cfg.size
    /\ x \in CharactersOf(D[k], text) /\ x \in CharactersOf(D[l], text)
    => k = l

Good(D, lo, hi, text, cfg) ==
  InPlace(D, lo, hi) /\ Sized(D, text, cfg) /\ Covers(D, lo, hi, text)
    /\ OnlyOne(D, text, cfg)

LEMMA Joined ==
  ASSUME NEW S, NEW D \in Seq(S), NEW E \in Seq(S)
  PROVE  /\ D \o E \in Seq(S) /\ Len(D) \in Nat /\ Len(E) \in Nat
         /\ Len(D \o E) = Len(D) + Len(E)
         /\ \A k \in 1 .. Len(D) : (D \o E)[k] = D[k]
         /\ \A k \in 1 .. Len(E) : (D \o E)[k + Len(D)] = E[k]
         /\ \A k \in 1 .. Len(D) + Len(E) :
              k \in 1 .. Len(D) \/ (k > Len(D) /\ k - Len(D) \in 1 .. Len(E)
                                    /\ (D \o E)[k] = E[k - Len(D)])
  OBVIOUS

LEMMA GoodNone ==
  ASSUME NEW text \in Text, NEW cfg \in Config PROVE Good(<<>>, 1, 0, text, cfg)
  BY DEF Good, InPlace, Sized, Covers, OnlyOne

LEMMA GoodJoin ==
  ASSUME NEW text \in Text, NEW cfg \in Config,
         NEW lo \in Nat, NEW m \in Nat, NEW hi \in Nat, lo <= m + 1, m <= hi,
         NEW D, NEW E, Good(D, lo, m, text, cfg), Good(E, m + 1, hi, text, cfg)
  PROVE  Good(D \o E, lo, hi, text, cfg)
  <1> DEFINE J == D \o E
  <1>1. /\ D \in Seq(Piece) /\ E \in Seq(Piece)
        /\ \A k \in 1 .. Len(D) : D[k] \in Piece
        /\ \A k \in 1 .. Len(E) : E[k] \in Piece
    BY DEF Good, InPlace
  <1>2. /\ J \in Seq(Piece) /\ Len(D) \in Nat /\ Len(E) \in Nat
        /\ Len(J) = Len(D) + Len(E)
        /\ \A k \in 1 .. Len(D) : J[k] = D[k]
        /\ \A k \in 1 .. Len(E) : J[k + Len(D)] = E[k]
        /\ \A k \in 1 .. Len(D) + Len(E) :
             k \in 1 .. Len(D) \/ (k > Len(D) /\ k - Len(D) \in 1 .. Len(E)
                                   /\ J[k] = E[k - Len(D)])
    BY <1>1, Joined
  <1> HIDE DEF J
  <1>3. /\ \A k \in 1 .. Len(D) :
             lo <= D[k].first /\ D[k].first <= D[k].last /\ D[k].last <= m
        /\ \A k \in 1 .. Len(E) :
             m + 1 <= E[k].first /\ E[k].first <= E[k].last /\ E[k].last <= hi
    BY DEF Good, InPlace
  <1>4. /\ \A k \in 1 .. Len(D) : D[k].first \in Nat /\ D[k].last \in Nat
        /\ \A k \in 1 .. Len(E) : E[k].first \in Nat /\ E[k].last \in Nat
    BY <1>1 DEF Piece
  <1>5. InPlace(J, lo, hi)
    <2>1. ASSUME NEW k \in 1 .. Len(J)
          PROVE  lo <= J[k].first /\ J[k].first <= J[k].last /\ J[k].last <= hi
      <3>1. CASE k \in 1 .. Len(D)
        BY <1>2, <1>3, <1>4, <3>1
      <3>2. CASE k - Len(D) \in 1 .. Len(E) /\ J[k] = E[k - Len(D)]
        BY <1>3, <1>4, <3>2
      <3> QED BY <1>2, <3>1, <3>2
    <2>2. ASSUME NEW k \in 1 .. Len(J) - 1 PROVE StartsBefore(J[k], J[k + 1])
      <3>0. k \in 1 .. Len(D) + Len(E) /\ k + 1 \in 1 .. Len(D) + Len(E) /\ k \in Nat
        BY <1>2
      <3>1. CASE k + 1 \in 1 .. Len(D)
        <4>1. k \in 1 .. Len(D) - 1 /\ k \in 1 .. Len(D)
          BY <1>2, <3>0, <3>1
        <4> QED BY <1>2, <3>1, <4>1 DEF Good, InPlace
      <3>2. CASE k > Len(D)
        <4>1. k - Len(D) \in 1 .. Len(E) - 1 /\ k - Len(D) + 1 = k + 1 - Len(D)
          BY <1>2, <3>0, <3>2
        <4>2. J[k] = E[k - Len(D)] /\ J[k + 1] = E[k + 1 - Len(D)]
          BY <1>2, <3>0, <3>2
        <4>3. StartsBefore(E[k - Len(D)], E[k - Len(D) + 1])
          BY <4>1 DEF Good, InPlace
        <4> QED BY <4>1, <4>2, <4>3
      <3>3. CASE k = Len(D)
        <4>1. k \in 1 .. Len(D) /\ J[k] = D[k]
          BY <1>2, <3>0, <3>3
        <4>2. k + 1 - Len(D) \in 1 .. Len(E) /\ J[k + 1] = E[k + 1 - Len(D)]
          BY <1>2, <3>0, <3>3
        <4> DEFINE j == k + 1 - Len(D)
        <4> HIDE DEF j
        <4>3. j \in 1 .. Len(E) /\ J[k + 1] = E[j]
          BY <4>2 DEF j
        <4>4. D[k].first \in Nat /\ D[k].first <= m
          BY <1>3, <1>4, <4>1
        <4>5. E[j].first \in Nat /\ m + 1 <= E[j].first
          BY <1>3, <1>4, <4>3
        <4>6. D[k].first < E[j].first
          BY <4>4, <4>5
        <4> QED BY <4>1, <4>3, <4>6 DEF StartsBefore
      <3> QED BY <1>2, <3>0, <3>1, <3>2, <3>3
    <2> QED BY <1>2, <2>1, <2>2 DEF InPlace
  <1>6. Sized(J, text, cfg)
    BY <1>2 DEF Good, Sized
  <1>7. Covers(J, lo, hi, text)
    <2> SUFFICES ASSUME NEW x \in Characters(text), x[1] \in lo .. hi
                 PROVE  \E k \in 1 .. Len(J) : x \in CharactersOf(J[k], text)
      BY DEF Covers
    <2>1. CASE x[1] \in lo .. m
      <3>1. PICK k \in 1 .. Len(D) : x \in CharactersOf(D[k], text)
        BY <2>1 DEF Good, Covers
      <3>2. k \in 1 .. Len(J) /\ J[k] = D[k]
        BY <1>2
      <3> QED BY <3>1, <3>2
    <2>2. CASE x[1] \in m + 1 .. hi
      <3>1. PICK k \in 1 .. Len(E) : x \in CharactersOf(E[k], text)
        BY <2>2 DEF Good, Covers
      <3>2. k + Len(D) \in 1 .. Len(J) /\ J[k + Len(D)] = E[k]
        BY <1>2
      <3> QED BY <3>1, <3>2
    <2> QED BY <2>1, <2>2
  <1>8. OnlyOne(J, text, cfg)
    <2> SUFFICES ASSUME NEW k \in 1 .. Len(J), NEW l \in 1 .. Len(J),
                        NEW x \in Characters(text), text[x[1]] <= cfg.size,
                        x \in CharactersOf(J[k], text), x \in CharactersOf(J[l], text)
                 PROVE  k = l
      BY DEF OnlyOne
    <2>1. \A j \in 1 .. Len(J) : x \in CharactersOf(J[j], text) =>
            (j \in 1 .. Len(D) <=> x[1] <= m)
      <3> SUFFICES ASSUME NEW j \in 1 .. Len(J), x \in CharactersOf(J[j], text)
                   PROVE  j \in 1 .. Len(D) <=> x[1] <= m
        OBVIOUS
      <3>1. x[1] \in J[j].first .. J[j].last
        BY CharactersOfChunk
      <3>2. CASE j \in 1 .. Len(D)
        <4>1. D[j].last \in Nat /\ D[j].first \in Nat /\ D[j].last <= m
          BY <1>3, <1>4, <3>2
        <4>2. x[1] \in D[j].first .. D[j].last
          BY <1>2, <3>1, <3>2
        <4> QED BY <3>2, <4>1, <4>2
      <3>3. CASE j > Len(D) /\ j - Len(D) \in 1 .. Len(E) /\ J[j] = E[j - Len(D)]
        <4> DEFINE i == j - Len(D)
        <4>1. i \in 1 .. Len(E) /\ x[1] \in E[i].first .. E[i].last
          BY <3>1, <3>3
        <4> HIDE DEF i
        <4>2. E[i].last \in Nat /\ E[i].first \in Nat /\ m + 1 <= E[i].first
          BY <1>3, <1>4, <4>1
        <4>3. ~(x[1] <= m)
          BY <4>1, <4>2
        <4>4. j \notin 1 .. Len(D)
          BY <1>2, <3>3
        <4> QED BY <4>3, <4>4
      <3> QED BY <1>2, <3>2, <3>3
    <2>2. CASE x[1] <= m
      <3>1. k \in 1 .. Len(D) /\ l \in 1 .. Len(D)
        BY <2>1, <2>2
      <3> QED BY <1>2, <3>1 DEF Good, OnlyOne
    <2>3. CASE ~(x[1] <= m)
      <3>1. /\ k - Len(D) \in 1 .. Len(E) /\ J[k] = E[k - Len(D)]
            /\ l - Len(D) \in 1 .. Len(E) /\ J[l] = E[l - Len(D)]
        BY <1>2, <2>1, <2>3
      <3>2. k - Len(D) = l - Len(D)
        BY <3>1 DEF Good, OnlyOne
      <3> QED BY <1>2, <3>2
    <2> QED BY <2>2, <2>3
  <1> QED BY <1>5, <1>6, <1>7, <1>8 DEF Good, J

LEMMA GoodSpan ==
  ASSUME NEW text \in Text, NEW cfg \in Config,
         NEW f \in 1 .. Len(text), NEW l \in f .. Len(text),
         ChunkLength(Span(text, f, l), text) <= cfg.size + 1
  PROVE  Good(<<Span(text, f, l)>>, f, l, text, cfg)
  <1> DEFINE c == Span(text, f, l)
             D == <<c>>
  <1>1. /\ Len(text) \in Nat /\ f \in Nat /\ l \in Nat /\ f <= l /\ l \in 1 .. Len(text)
        /\ text[l] \in Nat \ {0} /\ text[f] \in Nat \ {0} /\ cfg.size \in Nat
    BY TextType DEF Config
  <1>2. c \in Piece /\ c.first = f /\ c.last = l
    BY <1>1 DEF Piece, Span
  <1>3. D \in Seq(Piece) /\ Len(D) = 1 /\ D[1] = c /\ \A k \in 1 .. Len(D) : k = 1
    BY <1>2
  <1>4. \A x \in Characters(text) : x \in CharactersOf(c, text) <=> x[1] \in f .. l
    BY SpanHas
  <1>5. ChunkLength(c, text) \in Nat /\ ChunkLength(c, text) >= 1
    <2>1. <<f, 0>> \in Characters(text)
      BY <1>1, CharacterIs
    <2>2. <<f, 0>> \in CharactersOf(c, text)
      BY <1>1, <1>4, <2>1
    <2>3. IsFiniteSet(CharactersOf(c, text))
      BY CharactersOfChunk
    <2>4. /\ Cardinality(CharactersOf(c, text)) \in Nat
          /\ Cardinality(CharactersOf(c, text)) # 0
      BY <2>2, <2>3, FS_CardinalityType, FS_EmptySet
    <2>5. ChunkLength(c, text) = Cardinality(CharactersOf(c, text)) + 2 * (l - f)
      BY <1>2 DEF ChunkLength
    <2> QED BY <1>1, <2>4, <2>5
  <1>6. ChunkLength(c, text) <= cfg.size + 1
    OBVIOUS
  <1> HIDE DEF c, D
  <1>7. InPlace(D, f, l)
    BY <1>1, <1>2, <1>3 DEF InPlace
  <1>8. Sized(D, text, cfg)
    BY <1>1, <1>3, <1>5, <1>6 DEF Sized
  <1>9. Covers(D, f, l, text)
    BY <1>3, <1>4 DEF Covers
  <1>10. OnlyOne(D, text, cfg)
    BY <1>3 DEF OnlyOne
  <1>11. Good(D, f, l, text, cfg)
    BY <1>7, <1>8, <1>9, <1>10 DEF Good
  <1> QED BY <1>11 DEF D, c

-----------------------------------------------------------------------------
(* The windows over a long paragraph *)

Cut(g, start, p, length, cfg) ==
  IF start + cfg.size >= length THEN <<Window(p, start, length)>>
  ELSE <<Window(p, start, start + cfg.size)>> \o g[start + Stride(cfg)]

Cuts(g, p, length, cfg) == g = [start \in 0 .. length |-> Cut(g, start, p, length, cfg)]

LEMMA WindowsIs ==
  ASSUME NEW p, NEW length, NEW cfg
  PROVE  Windows(p, length, cfg) = (CHOOSE g : Cuts(g, p, length, cfg))[0]
  BY DEF Windows, Cuts, Cut, Window

LEMMA StrideType ==
  ASSUME NEW cfg \in Config
  PROVE  /\ cfg.size \in Nat \ {0} /\ Stride(cfg) \in Nat \ {0}
         /\ Stride(cfg) <= cfg.size
  BY DEF Config, Stride, Overlap

LEMMA CutsExist ==
  ASSUME NEW cfg \in Config, NEW p, NEW length \in Nat
  PROVE  \E g : Cuts(g, p, length, cfg)
  <1> DEFINE Upto(g, n) == \A s \in 0 .. length :
               length - s <= n => g[s] = Cut(g, s, p, length, cfg)
             Bad == {n \in Nat : ~ \E g : Upto(g, n)}
  <1>1. /\ cfg.size \in Nat \ {0} /\ Stride(cfg) \in Nat \ {0}
        /\ Stride(cfg) <= cfg.size
    BY StrideType
  <1>2. 0 \notin Bad
    <2> DEFINE g == [s \in 0 .. length |-> <<Window(p, s, length)>>]
    <2>1. ASSUME NEW s \in 0 .. length, length - s <= 0
          PROVE  g[s] = Cut(g, s, p, length, cfg)
      <3>1. s + cfg.size >= length
        BY <1>1, <2>1
      <3> QED BY <3>1 DEF Cut
    <2> QED BY <2>1
  <1>3. ASSUME NEW n \in Nat, n \notin Bad PROVE n + 1 \notin Bad
    <2>1. PICK g : Upto(g, n)
      BY <1>3
    <2> DEFINE h == [s \in 0 .. length |-> Cut(g, s, p, length, cfg)]
    <2>2. ASSUME NEW s \in 0 .. length, length - s <= n + 1
          PROVE  h[s] = Cut(h, s, p, length, cfg)
      <3>1. CASE s + cfg.size >= length
        BY <3>1 DEF Cut
      <3>2. CASE ~(s + cfg.size >= length)
        <4> DEFINE t == s + Stride(cfg)
        <4>1. t \in 0 .. length /\ length - t <= n
          BY <1>1, <2>2, <3>2
        <4>2. h[t] = g[t]
          BY <2>1, <4>1
        <4> QED BY <3>2, <4>2 DEF Cut
      <3> QED BY <3>1, <3>2
    <2> QED BY <2>2
  <1>4. Bad = {}
    <2> SUFFICES ASSUME Bad # {} PROVE FALSE
      OBVIOUS
    <2>1. Bad \in SUBSET Nat
      OBVIOUS
    <2> HIDE DEF Bad
    <2>2. PICK n \in Bad : \A k \in Bad : n <= k
      BY <2>1, LeastOf
    <2>3. n \in Nat /\ n # 0
      BY <1>2, <2>1, <2>2
    <2>4. n - 1 \in Nat /\ n - 1 \notin Bad
      BY <2>1, <2>2, <2>3
    <2>5. n - 1 + 1 \notin Bad
      BY <1>3, <2>4
    <2> QED BY <2>2, <2>3, <2>5
  <1>5. PICK g : Upto(g, length)
    BY <1>4
  <1> DEFINE h == [s \in 0 .. length |-> Cut(g, s, p, length, cfg)]
  <1>6. \A s \in 0 .. length : h[s] = g[s]
    BY <1>5
  <1>7. ASSUME NEW s \in 0 .. length PROVE Cut(g, s, p, length, cfg) = Cut(h, s, p, length, cfg)
    <2>1. CASE s + cfg.size >= length
      BY <2>1 DEF Cut
    <2>2. CASE ~(s + cfg.size >= length)
      <3>1. s + Stride(cfg) \in 0 .. length
        BY <1>1, <2>2
      <3>2. h[s + Stride(cfg)] = g[s + Stride(cfg)]
        BY <1>6, <3>1
      <3> QED BY <2>2, <3>2 DEF Cut
    <2> QED BY <2>1, <2>2
  <1>8. Cuts(h, p, length, cfg)
    BY <1>7 DEF Cuts
  <1> QED BY <1>8

(* The windows from start on: they advance, and leave nothing out. *)
Slides(W, s, p, length, cfg) ==
  /\ W \in Seq(Piece) /\ Len(W) >= 1 /\ W[1].from = s
  /\ \A k \in 1 .. Len(W) :
       /\ W[k] = Window(p, W[k].from, W[k].to)
       /\ s <= W[k].from /\ W[k].from < W[k].to /\ W[k].to <= length
       /\ W[k].to - W[k].from <= cfg.size
  /\ \A k \in 1 .. Len(W) - 1 : W[k].from < W[k + 1].from
  /\ \A i \in s .. length - 1 : \E k \in 1 .. Len(W) : W[k].from <= i /\ i < W[k].to

LEMMA LastSlides ==
  ASSUME NEW cfg \in Config, NEW p \in Nat, NEW length \in Nat, NEW s \in Nat,
         s < length, s + cfg.size >= length
  PROVE  Slides(<<Window(p, s, length)>>, s, p, length, cfg)
  <1> DEFINE w == Window(p, s, length)
             W == <<w>>
  <1>1. w \in Piece /\ w.from = s /\ w.to = length /\ w = Window(p, w.from, w.to)
    BY DEF Window, Piece
  <1>2. W \in Seq(Piece) /\ Len(W) = 1 /\ W[1] = w /\ \A k \in 1 .. Len(W) : k = 1
    BY <1>1
  <1>3. cfg.size \in Nat
    BY DEF Config
  <1> HIDE DEF w, W
  <1>4. Slides(W, s, p, length, cfg)
    BY <1>1, <1>2, <1>3 DEF Slides
  <1> QED BY <1>4 DEF W, w

LEMMA MoreSlides ==
  ASSUME NEW cfg \in Config, NEW p \in Nat, NEW length \in Nat, NEW s \in Nat,
         s + cfg.size < length, NEW V, Slides(V, s + Stride(cfg), p, length, cfg)
  PROVE  Slides(<<Window(p, s, s + cfg.size)>> \o V, s, p, length, cfg)
  <1> DEFINE w == Window(p, s, s + cfg.size)
             W == <<w>> \o V
             t == s + Stride(cfg)
  <1>1. /\ cfg.size \in Nat \ {0} /\ Stride(cfg) \in Nat \ {0}
        /\ Stride(cfg) <= cfg.size
    BY StrideType
  <1>2. /\ w \in Piece /\ w.from = s /\ w.to = s + cfg.size
        /\ w = Window(p, w.from, w.to)
    BY <1>1 DEF Window, Piece
  <1>3. V \in Seq(Piece) /\ Len(V) >= 1 /\ V[1].from = t
    BY DEF Slides
  <1>4. <<w>> \in Seq(Piece) /\ Len(<<w>>) = 1 /\ <<w>>[1] = w
    BY <1>2
  <1>5. /\ W \in Seq(Piece) /\ Len(V) \in Nat /\ Len(W) = Len(V) + 1 /\ W[1] = w
        /\ \A k \in 1 .. Len(V) : W[k + 1] = V[k]
        /\ \A k \in 1 .. Len(W) : k = 1 \/ (k - 1 \in 1 .. Len(V) /\ W[k] = V[k - 1])
    BY <1>3, <1>4
  <1>6. t \in Nat /\ s < t /\ t <= s + cfg.size
    BY <1>1
  <1>7. /\ \A k \in 1 .. Len(V) :
             /\ V[k] = Window(p, V[k].from, V[k].to) /\ V[k] \in Piece
             /\ t <= V[k].from /\ V[k].from < V[k].to /\ V[k].to <= length
             /\ V[k].to - V[k].from <= cfg.size
        /\ \A k \in 1 .. Len(V) - 1 : V[k].from < V[k + 1].from
        /\ \A i \in t .. length - 1 :
             \E k \in 1 .. Len(V) : V[k].from <= i /\ i < V[k].to
    BY <1>3 DEF Slides
  <1> HIDE DEF w, W, t
  <1>8. ASSUME NEW k \in 1 .. Len(W)
        PROVE  /\ W[k] = Window(p, W[k].from, W[k].to)
               /\ s <= W[k].from /\ W[k].from < W[k].to /\ W[k].to <= length
               /\ W[k].to - W[k].from <= cfg.size
    <2>1. CASE k = 1
      BY <1>1, <1>2, <1>5, <2>1
    <2>2. CASE k - 1 \in 1 .. Len(V) /\ W[k] = V[k - 1]
      <3> DEFINE v == V[k - 1]
      <3>1. /\ v = Window(p, v.from, v.to) /\ v \in Piece
            /\ t <= v.from /\ v.from < v.to /\ v.to <= length
            /\ v.to - v.from <= cfg.size
        BY <1>7, <2>2
      <3>2. v.from \in Nat
        BY <3>1 DEF Piece
      <3>3. W[k] = v
        BY <2>2
      <3> HIDE DEF v
      <3>4. s <= v.from
        BY <1>6, <3>1, <3>2
      <3> QED BY <3>1, <3>3, <3>4
    <2> QED BY <1>5, <2>1, <2>2
  <1>9. ASSUME NEW k \in 1 .. Len(W) - 1 PROVE W[k].from < W[k + 1].from
    <2>1. CASE k = 1
      <3>1. 1 \in 1 .. Len(V) /\ W[k + 1] = V[1]
        BY <1>3, <1>5, <2>1
      <3> QED BY <1>2, <1>3, <1>5, <1>6, <2>1, <3>1
    <2>2. CASE k # 1
      <3>1. k - 1 \in 1 .. Len(V) - 1 /\ k - 1 + 1 = k /\ k - 1 \in 1 .. Len(V)
            /\ k \in 1 .. Len(V)
        BY <1>5, <2>2
      <3>2. W[k] = V[k - 1] /\ W[k + 1] = V[k]
        BY <1>5, <2>2, <3>1
      <3>3. V[k - 1].from < V[k - 1 + 1].from
        BY <1>7, <3>1
      <3> QED BY <3>1, <3>2, <3>3
    <2> QED BY <2>1, <2>2
  <1>10. ASSUME NEW i \in s .. length - 1
         PROVE  \E k \in 1 .. Len(W) : W[k].from <= i /\ i < W[k].to
    <2>1. CASE i < t
      <3>1. 1 \in 1 .. Len(W) /\ W[1].from <= i /\ i < W[1].to
        BY <1>1, <1>2, <1>5, <1>6, <2>1
      <3> QED BY <3>1
    <2>2. CASE i >= t
      <3>1. i \in t .. length - 1
        BY <1>6, <2>2
      <3>2. PICK k \in 1 .. Len(V) : V[k].from <= i /\ i < V[k].to
        BY <1>7, <3>1
      <3>3. k + 1 \in 1 .. Len(W) /\ W[k + 1] = V[k]
        BY <1>5
      <3> QED BY <3>2, <3>3
    <2> QED BY <1>6, <2>1, <2>2
  <1>11. Len(W) >= 1 /\ W[1].from = s
    BY <1>2, <1>5
  <1>12. Slides(W, s, p, length, cfg)
    BY <1>5, <1>8, <1>9, <1>10, <1>11 DEF Slides
  <1> QED BY <1>12 DEF W, w

LEMMA WindowsSlide ==
  ASSUME NEW cfg \in Config, NEW p \in Nat, NEW length \in Nat \ {0}
  PROVE  Slides(Windows(p, length, cfg), 0, p, length, cfg)
  <1> DEFINE g == CHOOSE q : Cuts(q, p, length, cfg)
             Bad == {n \in Nat : n # 0 /\ n <= length
                       /\ ~Slides(g[length - n], length - n, p, length, cfg)}
  <1>1. /\ cfg.size \in Nat \ {0} /\ Stride(cfg) \in Nat \ {0}
        /\ Stride(cfg) <= cfg.size
    BY StrideType
  <1>2. Cuts(g, p, length, cfg)
    BY CutsExist
  <1>3. Windows(p, length, cfg) = g[0]
    BY WindowsIs
  <1> HIDE DEF g
  <1>4. \A s \in 0 .. length : g[s] = Cut(g, s, p, length, cfg)
    BY <1>2 DEF Cuts
  <1>5. Bad = {}
    <2> SUFFICES ASSUME Bad # {} PROVE FALSE
      OBVIOUS
    <2>1. Bad \in SUBSET Nat
      OBVIOUS
    <2> HIDE DEF Bad
    <2>2. PICK n \in Bad : \A k \in Bad : n <= k
      BY <2>1, LeastOf
    <2>3. n \in Nat \ {0} /\ n <= length
      BY <2>2 DEF Bad
    <2> DEFINE s == length - n
    <2>4. s \in Nat /\ s < length /\ s \in 0 .. length
      BY <2>3
    <2>5. ~Slides(g[s], s, p, length, cfg)
      BY <2>2 DEF Bad
    <2>6. CASE s + cfg.size >= length
      <3>1. g[s] = <<Window(p, s, length)>>
        BY <1>4, <2>4, <2>6 DEF Cut
      <3>2. Slides(<<Window(p, s, length)>>, s, p, length, cfg)
        BY <2>4, <2>6, LastSlides
      <3> QED BY <2>5, <3>1, <3>2
    <2>7. CASE ~(s + cfg.size >= length)
      <3> DEFINE t == s + Stride(cfg)
                 m == n - Stride(cfg)
      <3>1. m \in Nat \ {0} /\ m < n /\ m <= length /\ t = length - m
        BY <1>1, <2>3, <2>7
      <3>2. m \notin Bad
        BY <2>2, <2>3, <3>1
      <3>3. Slides(g[t], t, p, length, cfg)
        BY <3>1, <3>2 DEF Bad
      <3>4. g[s] = <<Window(p, s, s + cfg.size)>> \o g[t]
        BY <1>4, <2>4, <2>7 DEF Cut
      <3>5. s + cfg.size < length
        BY <1>1, <2>4, <2>7
      <3>6. Slides(<<Window(p, s, s + cfg.size)>> \o g[t], s, p, length, cfg)
        BY <2>4, <3>3, <3>5, MoreSlides
      <3> QED BY <2>5, <3>4, <3>6
    <2> QED BY <2>6, <2>7
  <1>6. Slides(g[0], 0, p, length, cfg)
    <2>1. length \notin Bad /\ length - length = 0
      BY <1>5
    <2>2. Slides(g[length - length], length - length, p, length, cfg)
      BY <2>1
    <2> QED BY <2>1, <2>2
  <1> QED BY <1>3, <1>6

LEMMA GoodWindows ==
  ASSUME NEW text \in Text, NEW cfg \in Config, NEW p \in 1 .. Len(text),
         text[p] > cfg.size
  PROVE  Good(Windows(p, text[p], cfg), p, p, text, cfg)
  <1> DEFINE W == Windows(p, text[p], cfg)
  <1>1. text[p] \in Nat \ {0} /\ cfg.size \in Nat \ {0} /\ p \in Nat /\ Len(text) \in Nat
    BY TextType DEF Config
  <1>2. Slides(W, 0, p, text[p], cfg)
    BY <1>1, WindowsSlide
  <1> HIDE DEF W
  <1>3. W \in Seq(Piece) /\ \A k \in 1 .. Len(W) : W[k] \in Piece
    BY <1>2 DEF Slides
  <1>4. ASSUME NEW k \in 1 .. Len(W)
        PROVE  /\ W[k].first = p /\ W[k].last = p
               /\ W[k].from \in Nat /\ W[k].to \in Nat
               /\ W[k].from < W[k].to /\ W[k].to <= text[p]
               /\ CharactersOf(W[k], text) = {p} \X (W[k].from .. W[k].to - 1)
               /\ ChunkLength(W[k], text) \in 1 .. cfg.size
    <2> DEFINE i == W[k].from
               j == W[k].to
    <2>1. /\ W[k] = Window(p, i, j) /\ i < j /\ j <= text[p] /\ j - i <= cfg.size
      BY <1>2 DEF Slides
    <2>2. i \in Nat /\ j \in Nat
      BY <1>3 DEF Piece
    <2> HIDE DEF i, j
    <2>3. /\ CharactersOf(Window(p, i, j), text) = {p} \X (i .. j - 1)
          /\ ChunkLength(Window(p, i, j), text) = j - i
      BY <2>1, <2>2, WindowIs
    <2>4. j - i \in 1 .. cfg.size
      BY <1>1, <2>1, <2>2
    <2>5. W[k].first = p /\ W[k].last = p
      BY <2>1 DEF Window
    <2>6. /\ CharactersOf(W[k], text) = {p} \X (i .. j - 1)
          /\ ChunkLength(W[k], text) \in 1 .. cfg.size
      BY <2>1, <2>3, <2>4
    <2> QED BY <2>1, <2>2, <2>5, <2>6 DEF i, j
  <1>5. InPlace(W, p, p)
    <2>1. \A k \in 1 .. Len(W) :
            p <= W[k].first /\ W[k].first <= W[k].last /\ W[k].last <= p
      BY <1>1, <1>4
    <2>2. ASSUME NEW k \in 1 .. Len(W) - 1 PROVE StartsBefore(W[k], W[k + 1])
      <3>1. k \in 1 .. Len(W) /\ k + 1 \in 1 .. Len(W)
        BY <1>3
      <3>2. W[k].first = p /\ W[k + 1].first = p /\ W[k].from < W[k + 1].from
        BY <1>2, <1>4, <3>1 DEF Slides
      <3> QED BY <3>2 DEF StartsBefore
    <2> QED BY <1>3, <2>1, <2>2 DEF InPlace
  <1>6. Sized(W, text, cfg)
    BY <1>1, <1>4 DEF Sized
  <1>7. Covers(W, p, p, text)
    <2> SUFFICES ASSUME NEW x \in Characters(text), x[1] \in p .. p
                 PROVE  \E k \in 1 .. Len(W) : x \in CharactersOf(W[k], text)
      BY DEF Covers
    <2>1. x[1] = p /\ x[2] \in 0 .. text[p] - 1 /\ x = <<x[1], x[2]>>
      <3>1. x[1] = p
        BY <1>1
      <3> QED BY <3>1, CharacterIs
    <2>2. PICK k \in 1 .. Len(W) : W[k].from <= x[2] /\ x[2] < W[k].to
      BY <1>2, <2>1 DEF Slides
    <2>3. x[2] \in W[k].from .. W[k].to - 1
      BY <1>1, <1>4, <2>1, <2>2
    <2>4. x \in {p} \X (W[k].from .. W[k].to - 1)
      BY <2>1, <2>3
    <2> QED BY <1>4, <2>4
  <1>8. OnlyOne(W, text, cfg)
    <2> SUFFICES ASSUME NEW k \in 1 .. Len(W), NEW x \in CharactersOf(W[k], text),
                        text[x[1]] <= cfg.size
                 PROVE  FALSE
      BY DEF OnlyOne
    <2>1. x[1] = p
      BY <1>4
    <2> QED BY <1>1, <2>1
  <1>9. Good(W, p, p, text, cfg)
    BY <1>5, <1>6, <1>7, <1>8 DEF Good
  <1> QED BY <1>9 DEF W

-----------------------------------------------------------------------------
(* The loop over paragraphs *)

State == [done : Seq(Piece), current : [first : Nat, length : Nat]]

StartState == [done |-> <<>>, current |-> NoCurrent]

Loops(g, text, cfg) ==
  g = [p \in 0 .. Len(text) |->
         IF p = 0 THEN StartState ELSE NextParagraph(text, cfg, g[p - 1], p)]

LEMMA ChunkTextIs ==
  ASSUME NEW text, NEW cfg
  PROVE  ChunkText(text, cfg) =
           LET end == (CHOOSE g : Loops(g, text, cfg))[Len(text)]
           IN  Flushed(end.done, end.current, Len(text), text)
  BY DEF ChunkText, Loops, StartState

LEMMA LoopsExist ==
  ASSUME NEW text \in Text, NEW cfg PROVE \E g : Loops(g, text, cfg)
  <1> DEFINE Upto(g, n) ==
               \A p \in 0 .. Len(text) : p <= n =>
                 g[p] = IF p = 0 THEN StartState ELSE NextParagraph(text, cfg, g[p - 1], p)
             Bad == {n \in Nat : ~ \E g : Upto(g, n)}
  <1>1. Len(text) \in Nat
    BY TextType
  <1>2. 0 \notin Bad
    <2> DEFINE g == [p \in 0 .. Len(text) |-> StartState]
    <2>1. Upto(g, 0)
      OBVIOUS
    <2> QED BY <2>1
  <1>3. ASSUME NEW n \in Nat, n \notin Bad PROVE n + 1 \notin Bad
    <2>1. PICK g : Upto(g, n)
      BY <1>3
    <2> DEFINE h == [p \in 0 .. Len(text) |->
                 IF p = 0 THEN StartState ELSE NextParagraph(text, cfg, g[p - 1], p)]
    <2>2. \A p \in 0 .. Len(text) : p <= n => h[p] = g[p]
      BY <2>1
    <2>3. ASSUME NEW p \in 0 .. Len(text), p <= n + 1, p # 0 PROVE h[p - 1] = g[p - 1]
      <3>1. p - 1 \in 0 .. Len(text) /\ p - 1 <= n
        BY <1>1, <2>3
      <3> QED BY <2>2, <3>1
    <2>4. Upto(h, n + 1)
      BY <2>3
    <2> QED BY <2>4
  <1>4. Bad = {}
    <2> SUFFICES ASSUME Bad # {} PROVE FALSE
      OBVIOUS
    <2>1. Bad \in SUBSET Nat
      OBVIOUS
    <2> HIDE DEF Bad
    <2>2. PICK n \in Bad : \A k \in Bad : n <= k
      BY <2>1, LeastOf
    <2>3. n \in Nat /\ n # 0
      BY <1>2, <2>1, <2>2
    <2>4. n - 1 \in Nat /\ n - 1 \notin Bad
      BY <2>1, <2>2, <2>3
    <2>5. n - 1 + 1 \notin Bad
      BY <1>3, <2>4
    <2> QED BY <2>2, <2>3, <2>5
  <1>5. PICK g : Upto(g, Len(text))
    BY <1>1, <1>4
  <1> DEFINE h == [p \in 0 .. Len(text) |->
               IF p = 0 THEN StartState ELSE NextParagraph(text, cfg, g[p - 1], p)]
  <1>6. \A p \in 0 .. Len(text) : h[p] = g[p]
    BY <1>1, <1>5
  <1>7. \A p \in 0 .. Len(text) : p # 0 => p - 1 \in 0 .. Len(text)
    BY <1>1
  <1>8. \A p \in 0 .. Len(text) : p # 0 => h[p - 1] = g[p - 1]
    BY <1>6, <1>7
  <1> DEFINE h2 == [p \in 0 .. Len(text) |->
               IF p = 0 THEN StartState ELSE NextParagraph(text, cfg, h[p - 1], p)]
  <1>9. h = h2
    <2>1. \A p \in 0 .. Len(text) : h[p] = h2[p]
      BY <1>8
    <2> QED BY <2>1
  <1>10. Loops(h, text, cfg)
    BY <1>9 DEF Loops
  <1> QED BY <1>10

LoopInv(s, p, text, cfg) ==
  /\ s \in State
  /\ s.current = NoCurrent => Good(s.done, 1, p, text, cfg)
  /\ s.current # NoCurrent =>
       /\ s.current.first \in 1 .. p
       /\ Good(s.done, 1, s.current.first - 1, text, cfg)
       /\ s.current.length = ChunkLength(Span(text, s.current.first, p), text)
       /\ s.current.length <= cfg.size + 1

LEMMA FlushedIsGood ==
  ASSUME NEW text \in Text, NEW cfg \in Config, NEW p \in 0 .. Len(text),
         NEW s, LoopInv(s, p, text, cfg)
  PROVE  Good(Flushed(s.done, s.current, p, text), 1, p, text, cfg)
  <1>1. Len(text) \in Nat
    BY TextType
  <1>2. CASE s.current = NoCurrent
    BY <1>2 DEF Flushed, LoopInv
  <1>3. CASE s.current # NoCurrent
    <2> DEFINE f == s.current.first
               D == s.done
    <2>1. /\ f \in 1 .. p /\ Good(D, 1, f - 1, text, cfg)
          /\ ChunkLength(Span(text, f, p), text) <= cfg.size + 1
      BY <1>3 DEF LoopInv
    <2>2. Flushed(s.done, s.current, p, text) = Append(D, Span(text, f, p))
      BY <1>3 DEF Flushed, Span
    <2> HIDE DEF f, D
    <2>3. D \in Seq(Piece)
      BY <2>1 DEF Good, InPlace
    <2>4. f \in 1 .. Len(text) /\ p \in f .. Len(text)
      BY <1>1, <2>1
    <2>5. Good(<<Span(text, f, p)>>, f, p, text, cfg)
      BY <2>1, <2>4, GoodSpan
    <2>6. Good(<<Span(text, f, p)>>, f - 1 + 1, p, text, cfg)
      <3>1. f - 1 + 1 = f
        BY <2>1
      <3> QED BY <2>5, <3>1
    <2>7. 1 \in Nat /\ f - 1 \in Nat /\ p \in Nat /\ 1 <= f - 1 + 1 /\ f - 1 <= p
      BY <2>1
    <2>8. Good(D \o <<Span(text, f, p)>>, 1, p, text, cfg)
      BY <2>1, <2>6, <2>7, GoodJoin
    <2>9. Append(D, Span(text, f, p)) = D \o <<Span(text, f, p)>>
      <3>1. Span(text, f, p) \in Piece
        BY <2>5 DEF Good, InPlace
      <3> QED BY <2>3, <3>1
    <2> QED BY <2>2, <2>8, <2>9
  <1> QED BY <1>2, <1>3

LEMMA CurrentStarts ==
  ASSUME NEW text \in Text, NEW cfg \in Config, NEW n \in 1 .. Len(text),
         NEW D, Good(D, 1, n - 1, text, cfg), text[n] <= cfg.size
  PROVE  LoopInv([done |-> D, current |-> [first |-> n, length |-> text[n]]], n, text, cfg)
  <1> DEFINE s == [done |-> D, current |-> [first |-> n, length |-> text[n]]]
  <1>1. n \in Nat \ {0} /\ text[n] \in Nat \ {0} /\ cfg.size \in Nat
    BY TextType DEF Config
  <1>2. s \in State /\ s.current # NoCurrent /\ s.current.first \in 1 .. n
    BY <1>1 DEF State, NoCurrent, Good, InPlace
  <1>3. ChunkLength(Span(text, n, n), text) = text[n] /\ text[n] <= cfg.size + 1
    BY <1>1, SpanOne
  <1> QED BY <1>2, <1>3 DEF LoopInv

LEMMA LoopKeeps ==
  ASSUME NEW text \in Text, NEW cfg \in Config, NEW n \in 1 .. Len(text),
         NEW s, LoopInv(s, n - 1, text, cfg)
  PROVE  LoopInv(NextParagraph(text, cfg, s, n), n, text, cfg)
  <1> DEFINE D == Flushed(s.done, s.current, n - 1, text)
             next == NextParagraph(text, cfg, s, n)
  <1>1. /\ Len(text) \in Nat /\ n \in Nat \ {0} /\ n - 1 \in 0 .. Len(text)
        /\ text[n] \in Nat \ {0} /\ cfg.size \in Nat \ {0}
    BY TextType DEF Config
  <1>2. Good(D, 1, n - 1, text, cfg)
    BY <1>1, FlushedIsGood
  <1>3. s \in State
    BY DEF LoopInv
  <1>4. CASE Fits(s.current.length, text[n], cfg) /\ s.current = NoCurrent
    <2>1. next = [done |-> D, current |-> [first |-> n, length |-> text[n]]]
      BY <1>3, <1>4 DEF NextParagraph, Flushed, State
    <2>2. text[n] <= cfg.size
      BY <1>1, <1>4 DEF Fits, NoCurrent
    <2> HIDE DEF D, next
    <2>3. LoopInv(next, n, text, cfg)
      BY <1>2, <2>1, <2>2, CurrentStarts
    <2> QED BY <2>3 DEF next
  <1>5. CASE Fits(s.current.length, text[n], cfg) /\ s.current # NoCurrent
    <2> DEFINE f == s.current.first
               m == s.current.length
    <2>1. /\ f \in 1 .. n - 1 /\ Good(s.done, 1, f - 1, text, cfg)
          /\ m = ChunkLength(Span(text, f, n - 1), text)
          /\ f \in Nat /\ m \in Nat
      BY <1>3, <1>5 DEF LoopInv, State
    <2>2. next = [done |-> s.done, current |-> [first |-> f, length |-> m + 2 + text[n]]]
      BY <1>3, <1>5 DEF NextParagraph, State
    <2>3. m + text[n] + 1 <= cfg.size
      BY <1>5 DEF Fits
    <2>4. s.done \in Seq(Piece)
      BY <1>3 DEF State
    <2> HIDE DEF f, m, next, D
    <2>5. ChunkLength(Span(text, f, n), text) = m + 2 + text[n]
      <3>1. f \in 1 .. Len(text) /\ n - 1 \in f .. Len(text) - 1 /\ n - 1 + 1 = n
        BY <1>1, <2>1
      <3>2. ChunkLength(Span(text, f, n - 1 + 1), text) =
              ChunkLength(Span(text, f, n - 1), text) + 2 + text[n - 1 + 1]
        BY <3>1, SpanMore
      <3> QED BY <2>1, <3>1, <3>2
    <2>6. /\ next.done = s.done /\ next.current.first = f
          /\ next.current.length = m + 2 + text[n]
          /\ next.current # NoCurrent
      BY <1>1, <2>1, <2>2 DEF NoCurrent
    <2>7. next \in State
      BY <1>1, <2>1, <2>2, <2>4 DEF State
    <2>8. f \in 1 .. n /\ m + 2 + text[n] <= cfg.size + 1
      BY <1>1, <2>1, <2>3
    <2>9. LoopInv(next, n, text, cfg)
      BY <2>1, <2>5, <2>6, <2>7, <2>8 DEF LoopInv
    <2> QED BY <2>9 DEF next
  <1>6. CASE ~Fits(s.current.length, text[n], cfg) /\ text[n] <= cfg.size
    <2>1. next = [done |-> D, current |-> [first |-> n, length |-> text[n]]]
      BY <1>6 DEF NextParagraph
    <2> HIDE DEF D, next
    <2>2. LoopInv(next, n, text, cfg)
      BY <1>2, <1>6, <2>1, CurrentStarts
    <2> QED BY <2>2 DEF next
  <1>7. CASE ~Fits(s.current.length, text[n], cfg) /\ ~(text[n] <= cfg.size)
    <2> DEFINE W == Windows(n, text[n], cfg)
    <2>1. next = [done |-> D \o W, current |-> NoCurrent]
      BY <1>7 DEF NextParagraph
    <2>2. Good(W, n, n, text, cfg)
      BY <1>1, <1>7, GoodWindows
    <2> HIDE DEF D, W, next
    <2>3. n - 1 + 1 = n /\ 1 \in Nat /\ n - 1 \in Nat /\ 1 <= n - 1 + 1 /\ n - 1 <= n
      BY <1>1
    <2>4. Good(W, n - 1 + 1, n, text, cfg)
      BY <2>2, <2>3
    <2>5. Good(D \o W, 1, n, text, cfg)
      BY <1>1, <1>2, <2>3, <2>4, GoodJoin
    <2>6. D \o W \in Seq(Piece)
      BY <2>5 DEF Good, InPlace
    <2>7. next \in State /\ next.current = NoCurrent /\ next.done = D \o W
      BY <2>1, <2>6 DEF State, NoCurrent
    <2>8. LoopInv(next, n, text, cfg)
      BY <2>5, <2>7 DEF LoopInv
    <2> QED BY <2>8 DEF next
  <1> HIDE DEF D, next
  <1>8. LoopInv(next, n, text, cfg)
    BY <1>4, <1>5, <1>6, <1>7 DEF next
  <1> QED BY <1>8 DEF next

LEMMA ChunkTextIsGood ==
  ASSUME NEW text \in Text, NEW cfg \in Config
  PROVE  Good(ChunkText(text, cfg), 1, Len(text), text, cfg)
  <1> DEFINE g == CHOOSE q : Loops(q, text, cfg)
             Bad == {n \in Nat : n <= Len(text) /\ ~LoopInv(g[n], n, text, cfg)}
  <1>1. Len(text) \in Nat
    BY TextType
  <1>2. Loops(g, text, cfg)
    BY LoopsExist
  <1>3. ChunkText(text, cfg) =
          Flushed(g[Len(text)].done, g[Len(text)].current, Len(text), text)
    BY ChunkTextIs
  <1> HIDE DEF g
  <1>4. \A p \in 0 .. Len(text) :
          g[p] = IF p = 0 THEN StartState ELSE NextParagraph(text, cfg, g[p - 1], p)
    BY <1>2 DEF Loops
  <1>5. LoopInv(StartState, 0, text, cfg)
    <2>1. StartState \in State /\ StartState.current = NoCurrent /\ StartState.done = <<>>
      BY DEF State, StartState, NoCurrent
    <2> QED BY <2>1, GoodNone DEF LoopInv
  <1>6. Bad = {}
    <2> SUFFICES ASSUME Bad # {} PROVE FALSE
      OBVIOUS
    <2>1. Bad \in SUBSET Nat
      OBVIOUS
    <2> HIDE DEF Bad
    <2>2. PICK n \in Bad : \A k \in Bad : n <= k
      BY <2>1, LeastOf
    <2>3. n \in Nat /\ n <= Len(text) /\ ~LoopInv(g[n], n, text, cfg)
      BY <2>2 DEF Bad
    <2>4. n # 0
      <3>1. 0 \in 0 .. Len(text)
        BY <1>1
      <3>2. g[0] = StartState
        BY <1>4, <3>1
      <3> QED BY <1>5, <2>3, <3>2
    <2>5. n \in 1 .. Len(text) /\ n \in 0 .. Len(text) /\ n - 1 \in Nat
          /\ n - 1 <= Len(text) /\ ~(n <= n - 1)
      BY <1>1, <2>3, <2>4
    <2>6. LoopInv(g[n - 1], n - 1, text, cfg)
      BY <2>2, <2>5 DEF Bad
    <2>7. g[n] = NextParagraph(text, cfg, g[n - 1], n)
      BY <1>4, <2>4, <2>5
    <2> QED BY <2>3, <2>5, <2>6, <2>7, LoopKeeps
  <1>7. Len(text) \in 0 .. Len(text) /\ LoopInv(g[Len(text)], Len(text), text, cfg)
    BY <1>1, <1>6
  <1> QED BY <1>3, <1>7, FlushedIsGood

(* chunk_text keeps its promises for every text and every setting. *)
THEOREM ChunkTextFaithful ==
  ASSUME NEW text \in Text, NEW cfg \in Config PROVE Faithful(text, cfg)
  <1> DEFINE C == ChunkText(text, cfg)
  <1>1. Good(C, 1, Len(text), text, cfg)
    BY ChunkTextIsGood
  <1> HIDE DEF C
  <1>2. C \in Seq(Piece) /\ Len(C) \in Nat /\ DOMAIN C = 1 .. Len(C)
    BY <1>1 DEF Good, InPlace
  <1> DEFINE owners(x) == {k \in DOMAIN C : x \in CharactersOf(C[k], text)}
  <1>3. ASSUME NEW x \in Characters(text)
        PROVE  /\ owners(x) # {}
               /\ text[x[1]] <= cfg.size => Cardinality(owners(x)) = 1
    <2>1. x[1] \in 1 .. Len(text)
      BY CharacterIs
    <2>2. PICK k \in 1 .. Len(C) : x \in CharactersOf(C[k], text)
      BY <1>1, <2>1 DEF Good, Covers
    <2>3. k \in owners(x)
      BY <1>2, <2>2
    <2>4. ASSUME text[x[1]] <= cfg.size PROVE Cardinality(owners(x)) = 1
      <3>1. \A l \in owners(x) : l = k
        BY <1>1, <1>2, <2>2, <2>4 DEF Good, OnlyOne
      <3>2. owners(x) = {k}
        BY <2>3, <3>1
      <3> HIDE DEF owners
      <3> QED BY <3>2, FS_Singleton
    <2> QED BY <2>3, <2>4
  <1>4. ASSUME NEW k \in DOMAIN C
        PROVE  /\ ChunkLength(C[k], text) \in 1 .. cfg.size + 1
               /\ k > 1 => StartsBefore(C[k - 1], C[k])
    <2>1. k \in 1 .. Len(C)
      BY <1>2
    <2>2. ChunkLength(C[k], text) \in 1 .. cfg.size + 1
      BY <1>1, <2>1 DEF Good, Sized
    <2>3. ASSUME k > 1 PROVE StartsBefore(C[k - 1], C[k])
      <3>1. k - 1 \in 1 .. Len(C) - 1 /\ k - 1 + 1 = k
        BY <1>2, <2>1, <2>3
      <3>2. StartsBefore(C[k - 1], C[k - 1 + 1])
        BY <1>1, <3>1 DEF Good, InPlace
      <3> QED BY <3>1, <3>2
    <2> QED BY <2>2, <2>3
  <1>5. /\ \A x \in Characters(text) :
             /\ owners(x) # {}
             /\ text[x[1]] <= cfg.size => Cardinality(owners(x)) = 1
        /\ \A k \in DOMAIN C :
             /\ ChunkLength(C[k], text) \in 1 .. cfg.size + 1
             /\ k > 1 => StartsBefore(C[k - 1], C[k])
    BY <1>3, <1>4
  <1> QED BY <1>5 DEF Faithful, C

(* chunk_text keeps its promises in the bounds that TLC looks at too. *)
THEOREM ChunkTextKeepsItsPromises == Spec => []ChunkTextIsFaithful
  <1>1. ChunkTextIsFaithful
    <2> SUFFICES ASSUME NEW text \in BoundedSeq(1 .. 5, 3),
                        NEW size \in 1 .. 3, NEW overlap \in 0 .. 3
                 PROVE  Faithful(text, [size |-> size, overlap |-> overlap])
      BY DEF ChunkTextIsFaithful
    <2>1. text \in Text
      <3>1. PICK m \in 0 .. 3 : text \in [1 .. m -> 1 .. 5]
        BY DEF BoundedSeq, SeqOf
      <3> QED BY <3>1 DEF Text
    <2>2. [size |-> size, overlap |-> overlap] \in Config
      BY DEF Config
    <2> QED BY <2>1, <2>2, ChunkTextFaithful
  <1> QED BY <1>1, PTL
=============================================================================
