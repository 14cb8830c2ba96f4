------------------------------ MODULE Chunking ------------------------------
(***************************************************************************)
(* chunk_text, rag/store.py: how a text of the knowledge base is cut.      *)
(*                                                                         *)
(* A text is the sequence of the lengths of its paragraphs, none of which  *)
(* is 0.  A chunk spans the characters from the offset `from` of paragraph *)
(* `first` up to the offset `to`, exclusive, of paragraph `last`; joined   *)
(* paragraphs have two characters, a blank line, between them.             *)
(***************************************************************************)
EXTENDS SequencesExt

Config == [size: Nat \ {0}, overlap: Nat]

Overlap(config) ==
  IF config.overlap < config.size THEN config.overlap ELSE config.size - 1

Stride(config) == config.size - Overlap(config)

(* The inner loop: windows over a paragraph longer than a chunk. *)
Windows(p, length, config) ==
  LET cut[start \in 0 .. length] ==
        IF start + config.size >= length
          THEN <<[first |-> p, last |-> p, from |-> start, to |-> length]>>
          ELSE <<[first |-> p, last |-> p, from |-> start,
                  to |-> start + config.size]>>
                 \o cut[start + Stride(config)]
  IN cut[0]

(* A slip to be caught: the room that is there is not looked at. *)
AlwaysFits(length, paragraph, config) == paragraph <= config.size

(* What joins current: the blank line is counted as one character. *)
Fits(length, paragraph, config) == length + paragraph + 1 <= config.size

NoCurrent == [first |-> 0, length |-> 0]

Flushed(done, current, p, text) ==
  IF current = NoCurrent THEN done
  ELSE Append(done, [first |-> current.first, last |-> p,
                     from |-> 0, to |-> text[p]])

(* The loop over paragraphs: chunks done, and current, which goes from its *)
(* first paragraph to the one before p.                                    *)
NextParagraph(text, config, state, p) ==
  LET current == state.current
      flushed == Flushed(state.done, current, p - 1, text)
  IN IF Fits(current.length, text[p], config)
       THEN [state EXCEPT !.current =
               IF current = NoCurrent
                 THEN [first |-> p, length |-> text[p]]
                 ELSE [current EXCEPT !.length = @ + 2 + text[p]]]
     ELSE IF text[p] <= config.size
       THEN [done |-> flushed, current |-> [first |-> p, length |-> text[p]]]
     ELSE [done |-> flushed \o Windows(p, text[p], config),
           current |-> NoCurrent]

ChunkText(text, config) ==
  LET loop[p \in 0 .. Len(text)] ==
        IF p = 0 THEN [done |-> <<>>, current |-> NoCurrent]
        ELSE NextParagraph(text, config, loop[p - 1], p)
      end == loop[Len(text)]
  IN Flushed(end.done, end.current, Len(text), text)

-----------------------------------------------------------------------------
Characters(text) ==
  {x \in (1 .. Len(text)) \X (0 .. Max(ToSet(text) \cup {0})) : x[2] < text[x[1]]}

CharactersOf(c, text) ==
  {x \in Characters(text) :
     /\ x[1] \in c.first .. c.last
     /\ x[1] = c.first => x[2] >= c.from
     /\ x[1] = c.last => x[2] < c.to}

ChunkLength(c, text) ==
  Cardinality(CharactersOf(c, text)) + 2 * (c.last - c.first)

StartsBefore(c, d) ==
  c.first < d.first \/ (c.first = d.first /\ c.from < d.from)

(* What chunk_text promises of any text: every character is in a chunk,    *)
(* chunks follow the text, none is empty, none exceeds the chunk size by   *)
(* more than the one character the count of a blank line leaves out, and   *)
(* only a paragraph longer than a chunk has characters in two of them.     *)
Faithful(text, config) ==
  LET chunks == ChunkText(text, config)
      owners(x) == {k \in DOMAIN chunks : x \in CharactersOf(chunks[k], text)}
  IN /\ \A x \in Characters(text) :
          /\ owners(x) # {}
          /\ text[x[1]] <= config.size => Cardinality(owners(x)) = 1
     /\ \A k \in DOMAIN chunks :
          /\ ChunkLength(chunks[k], text) \in 1 .. config.size + 1
          /\ k > 1 => StartsBefore(chunks[k - 1], chunks[k])
=============================================================================
