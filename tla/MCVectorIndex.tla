--------------------------- MODULE MCVectorIndex ---------------------------
(***************************************************************************)
(* VectorIndex for TLC: two files, each absent, with paragraphs that are   *)
(* joined past the chunk size, or with one that is cut into windows.       *)
(***************************************************************************)
EXTENDS VectorIndex, Chunking

MCTexts == {<<1, 1, 1>>, <<4>>}

MCConfigs == {[size |-> 3, overlap |-> 1], [size |-> 2, overlap |-> 2]}

(* chunk_text keeps its promises (see Faithful) for every text of up to    *)
(* three paragraphs and every setting in these bounds.  Nothing here       *)
(* depends on the state: it is evaluated before the first start only.      *)
ChunkTextIsFaithful ==
  phase = "off" /\ edits = 0 /\ stops = 0 =>
    \A text \in BoundedSeq(1 .. 5, 3), size \in 1 .. 3, overlap \in 0 .. 3 :
      Faithful(text, [size |-> size, overlap |-> overlap])
=============================================================================
