-------------------------- MODULE EmbeddingProofs --------------------------
(***************************************************************************)
(* Proofs about the chunker for every document and every configuration:    *)
(* what it cuts stays within maxCharacters, loses no text and ends.        *)
(***************************************************************************)
EXTENDS Embedding, TLAPS, FiniteSetTheorems

\* A configuration is three numbers that ChunkingConfig accepts.
LEMMA ConfigTyped ==
    ASSUME ChunkTypeOK
    PROVE  /\ config.maximum \in Nat \ {0}
           /\ config.minimum \in Nat \ {0}
           /\ config.overlap \in Nat
<1>1. config \in Config
  BY ConfigsAssumption DEF ChunkTypeOK
<1> QED
  BY <1>1 DEF Config

\* Normalized sections are sequences of characters.
LEMMA TextTyped ==
    ASSUME ChunkTypeOK, ~Finished
    PROVE  /\ section \in 1 .. Len(texts)
           /\ Text \in Seq(Char)
           /\ Len(Text) \in Nat
<1>1. section \in 1 .. Len(texts)
  BY DEF ChunkTypeOK, Finished
<1>2. Text \in Seq(Char)
  BY <1>1 DEF ChunkTypeOK, Text
<1> QED
  BY <1>1, <1>2

\* The end of a window: beyond the cursor, within the text and the maximum.
LEMMA EndOfWindow ==
    ASSUME ChunkTypeOK, ~Finished, Text # <<>>,
           NEW e \in 1 .. Len(Text), IsEnd(e)
    PROVE  cursor < e /\ e <= Len(Text) /\ e <= cursor + config.maximum
<1> DEFINE n == Len(Text)
<1>1. /\ n \in Nat
      /\ cursor \in Nat /\ cursor < n
      /\ config.maximum \in Nat \ {0} /\ config.minimum \in Nat \ {0}
  BY TextTyped, ConfigTyped DEF ChunkTypeOK
<1>2. /\ ProposedEnd \in Nat /\ cursor < ProposedEnd
      /\ ProposedEnd <= n /\ ProposedEnd <= cursor + config.maximum
  BY <1>1 DEF ProposedEnd, Lesser
<1>3. /\ MinimumEnd \in Nat /\ cursor < MinimumEnd
  BY <1>1, <1>2 DEF MinimumEnd, Lesser
<1>4. PICK b \in 0 .. n : IsPreferred(b) /\ e = IF b <= cursor THEN ProposedEnd ELSE b
  BY DEF IsEnd
<1>5. b <= ProposedEnd
  <2>1. \A S : IsGreatest(b, S) => b \in S
    BY DEF IsGreatest
  <2>2. \A p \in ParagraphBreaks(MinimumEnd, ProposedEnd) : p <= ProposedEnd
    BY <1>2, <1>3 DEF ParagraphBreaks
  <2>3. \A p \in Blanks(MinimumEnd, ProposedEnd) : p <= ProposedEnd
    BY <1>2, <1>3 DEF Blanks
  <2> QED
    BY <1>2, <1>4, <2>1, <2>2, <2>3 DEF IsPreferred
<1> QED
  BY <1>1, <1>2, <1>4, <1>5

\* The cursor moves forward and stays within the text.
LEMMA NextCursorAdvances ==
    ASSUME ChunkTypeOK, ~Finished, Text # <<>>,
           NEW e \in 1 .. Len(Text), cursor < e
    PROVE  /\ NextCursor(e) \in Nat
           /\ cursor < NextCursor(e)
           /\ NextCursor(e) <= e
<1>1. cursor \in Nat /\ config.overlap \in Nat
  BY ConfigTyped DEF ChunkTypeOK
<1> QED
  BY <1>1 DEF NextCursor, Back

\* What a window adds: nothing if it is blank, else one chunk of the section
\* that holds all its letters and lies within it.
LEMMA CutAppends ==
    ASSUME ChunkTypeOK, ~Finished, NEW e \in 1 .. Len(Text), Cut(e)
    PROVE  \/ /\ LettersOf(section, cursor, e) = {}
              /\ chunks' = chunks
           \/ \E c \in Chunk :
                 /\ chunks' = Append(chunks, c)
                 /\ c.section = section
                 /\ cursor <= c.start /\ c.start < c.end /\ c.end <= e
                 /\ \A p \in LettersOf(section, cursor, e) :
                       c.start <= p /\ p < c.end
<1> DEFINE letters == LettersOf(section, cursor, e)
<1>1. section \in Nat \ {0} /\ cursor \in Nat /\ e \in Nat
  BY TextTyped DEF ChunkTypeOK
<1>2. CASE letters = {} /\ UNCHANGED chunks
  BY <1>2
<1>3. CASE \E a, z \in letters :
              /\ IsLeast(a, letters)
              /\ IsGreatest(z, letters)
              /\ chunks' = Append(chunks, [section |-> section, start |-> a, end |-> z + 1])
  <2>1. PICK a \in letters, z \in letters :
              /\ IsLeast(a, letters)
              /\ IsGreatest(z, letters)
              /\ chunks' = Append(chunks, [section |-> section, start |-> a, end |-> z + 1])
    BY <1>3
  <2>2. \A p \in letters : p \in cursor .. e - 1
    BY DEF LettersOf
  <2> DEFINE c == [section |-> section, start |-> a, end |-> z + 1]
  <2>3. \A p \in letters : a <= p /\ p <= z
    BY <2>1 DEF IsLeast, IsGreatest
  <2>4. a \in Nat /\ z \in Nat /\ cursor <= a /\ a <= z /\ z < e
    BY <1>1, <2>2, <2>3
  <2>5. c \in Chunk /\ c.section = section /\ c.start = a /\ c.end = z + 1
    BY <1>1, <2>4 DEF Chunk
  <2>6. \A p \in letters : c.start <= p /\ p < c.end
    BY <1>1, <2>2, <2>3, <2>4, <2>5
  <2> HIDE DEF c
  <2>7. cursor <= c.start /\ c.start < c.end /\ c.end <= e
    BY <1>1, <2>4, <2>5
  <2>8. chunks' = Append(chunks, c)
    BY <2>1 DEF c
  <2> QED
    BY <2>5, <2>6, <2>7, <2>8
<1> QED
  BY <1>2, <1>3 DEF Cut

\* The chunks a window leaves, by position.
LEMMA CutKeeps ==
    ASSUME ChunkTypeOK, ~Finished, NEW e \in 1 .. Len(Text), Cut(e)
    PROVE  /\ chunks' \in Seq(Chunk)
           /\ Len(chunks) <= Len(chunks')
           /\ \A i \in 1 .. Len(chunks) : chunks'[i] = chunks[i]
           /\ \A i \in 1 .. Len(chunks') :
                 \/ i \in 1 .. Len(chunks)
                 \/ /\ chunks'[i].section = section
                    /\ cursor <= chunks'[i].start
                    /\ chunks'[i].start < chunks'[i].end
                    /\ chunks'[i].end <= e
           /\ \A p \in LettersOf(section, cursor, e) :
                 \E i \in 1 .. Len(chunks') : /\ chunks'[i].section = section
                                             /\ chunks'[i].start <= p
                                             /\ p < chunks'[i].end
<1>1. chunks \in Seq(Chunk)
  BY DEF ChunkTypeOK
<1>2. CASE LettersOf(section, cursor, e) = {} /\ chunks' = chunks
  BY <1>1, <1>2
<1>3. CASE \E c \in Chunk :
              /\ chunks' = Append(chunks, c)
              /\ c.section = section
              /\ cursor <= c.start /\ c.start < c.end /\ c.end <= e
              /\ \A p \in LettersOf(section, cursor, e) : c.start <= p /\ p < c.end
  <2>1. PICK c \in Chunk :
              /\ chunks' = Append(chunks, c)
              /\ c.section = section
              /\ cursor <= c.start /\ c.start < c.end /\ c.end <= e
              /\ \A p \in LettersOf(section, cursor, e) : c.start <= p /\ p < c.end
    BY <1>3
  <2>2. /\ chunks' \in Seq(Chunk)
        /\ Len(chunks') = Len(chunks) + 1
        /\ Len(chunks) \in Nat
        /\ \A i \in 1 .. Len(chunks) : chunks'[i] = chunks[i]
        /\ chunks'[Len(chunks')] = c
    BY <1>1, <2>1
  <2>3. \A i \in 1 .. Len(chunks') : i \in 1 .. Len(chunks) \/ chunks'[i] = c
    BY <2>2
  <2>4. Len(chunks') \in 1 .. Len(chunks')
    BY <2>2
  <2> QED
    BY <2>1, <2>2, <2>3, <2>4
<1>4. \/ /\ LettersOf(section, cursor, e) = {}
         /\ chunks' = chunks
      \/ \E c \in Chunk :
            /\ chunks' = Append(chunks, c)
            /\ c.section = section
            /\ cursor <= c.start /\ c.start < c.end /\ c.end <= e
            /\ \A p \in LettersOf(section, cursor, e) : c.start <= p /\ p < c.end
  BY CutAppends
<1> QED
  BY <1>2, <1>3, <1>4

-----------------------------------------------------------------------------
(* The loop is well typed                                                  *)

\* Splitting starts well typed.
LEMMA ChunkTypeInit == Init => ChunkTypeOK
<1> SUFFICES ASSUME Init PROVE ChunkTypeOK
  OBVIOUS
<1>1. PICK d \in Documents : texts = NormalizedTexts(d)
  BY DEF Init
<1>2. texts \in Seq(Seq(Char))
  BY <1>1, DocumentsAssumption
<1>3. config \in Configs /\ section = 1 /\ cursor = 0 /\ chunks = <<>>
  BY DEF Init
<1>4. section \in 1 .. Len(texts) + 1
  BY <1>2, <1>3
<1>5. ~Finished /\ Text # <<>> => cursor < Len(Text)
  <2> SUFFICES ASSUME ~Finished, Text # <<>> PROVE cursor < Len(Text)
    OBVIOUS
  <2>1. Text \in Seq(Char)
    BY <1>2, <1>3, <1>4 DEF Text, Finished
  <2> QED
    BY <1>3, <2>1
<1> QED
  BY <1>2, <1>3, <1>4, <1>5 DEF ChunkTypeOK

\* A section that has been entered starts with its cursor at 0.
LEMMA EnterSection ==
    ASSUME ChunkTypeOK, ~Finished, NextSection, texts' = texts, config' = config,
           chunks' \in Seq(Chunk)
    PROVE  ChunkTypeOK'
<1>1. /\ texts' \in Seq(Seq(Char)) /\ config' \in Configs
      /\ section' = section + 1 /\ cursor' = 0
  BY DEF ChunkTypeOK, NextSection
<1>2. section' \in 1 .. Len(texts') + 1
  BY <1>1, TextTyped DEF ChunkTypeOK
<1>3. (~Finished)' /\ Text' # <<>> => cursor' < Len(Text')
  <2> SUFFICES ASSUME (~Finished)', Text' # <<>> PROVE cursor' < Len(Text')
    OBVIOUS
  <2>1. Text' \in Seq(Char)
    BY <1>1, <1>2 DEF Text, Finished
  <2> QED
    BY <1>1, <2>1
<1> QED
  BY <1>1, <1>2, <1>3 DEF ChunkTypeOK

\* Every round of the window loop keeps the types.
LEMMA ChunkTypeNext == ChunkTypeOK /\ [Next]_chunkVars => ChunkTypeOK'
<1> SUFFICES ASSUME ChunkTypeOK, [Next]_chunkVars PROVE ChunkTypeOK'
  OBVIOUS
<1>1. CASE SkipSection
  BY <1>1, EnterSection DEF SkipSection, ChunkTypeOK
<1>2. CASE LastRound
  <2>1. PICK e \in 1 .. Len(Text) : Cut(e)
    BY <1>2 DEF LastRound
  <2>2. ~Finished /\ NextSection /\ texts' = texts /\ config' = config
    BY <1>2 DEF LastRound
  <2>3. chunks' \in Seq(Chunk)
    BY <2>1, <2>2, CutKeeps
  <2> QED
    BY <2>2, <2>3, EnterSection
<1>3. CASE Round
  <2>1. /\ ~Finished /\ Text # <<>>
        /\ texts' = texts /\ config' = config /\ section' = section
    BY <1>3 DEF Round
  <2>2. PICK e \in 1 .. Len(Text) :
          IsEnd(e) /\ e < Len(Text) /\ Cut(e) /\ cursor' = NextCursor(e)
    BY <1>3 DEF Round
  <2>3. chunks' \in Seq(Chunk)
    BY <2>1, <2>2, CutKeeps
  <2>4. cursor < e
    BY <2>1, <2>2, EndOfWindow
  <2>5. cursor' \in Nat /\ cursor' <= e
    BY <2>1, <2>2, <2>4, NextCursorAdvances
  <2>6. cursor' < Len(Text)
    BY <2>1, <2>2, <2>5, TextTyped
  <2>7. Text' = Text /\ Finished' = Finished
    BY <2>1 DEF Text, Finished
  <2> QED
    BY <2>1, <2>3, <2>5, <2>6, <2>7 DEF ChunkTypeOK
<1>4. CASE UNCHANGED chunkVars
  BY <1>4 DEF chunkVars, ChunkTypeOK, Finished, Text
<1> QED
  BY <1>1, <1>2, <1>3, <1>4 DEF Next

\* chunk(): every reachable state of the window loop is well typed.
THEOREM ChunkTypeCorrect == Spec => []ChunkTypeOK
<1>1. Init => ChunkTypeOK
  BY ChunkTypeInit
<1>2. ChunkTypeOK /\ [Next]_chunkVars => ChunkTypeOK'
  BY ChunkTypeNext
<1> QED
  BY <1>1, <1>2, PTL DEF Spec

-----------------------------------------------------------------------------
(* maxCharacters is a hard invariant                                       *)

\* A window cuts at most one chunk, within maxCharacters.
LEMMA WithinMaximumCut ==
    ASSUME ChunkTypeOK, WithinMaximum, ~Finished, Text # <<>>,
           NEW e \in 1 .. Len(Text), IsEnd(e), Cut(e),
           texts' = texts, config' = config
    PROVE  WithinMaximum'
<1>1. cursor < e /\ e <= Len(Text) /\ e <= cursor + config.maximum
  BY EndOfWindow
<1>2. /\ section \in 1 .. Len(texts)
      /\ cursor \in Nat /\ e \in Nat /\ config.maximum \in Nat /\ Len(Text) \in Nat
  BY TextTyped, ConfigTyped DEF ChunkTypeOK
<1>3. /\ chunks' \in Seq(Chunk)
      /\ \A i \in 1 .. Len(chunks) : chunks'[i] = chunks[i]
      /\ \A i \in 1 .. Len(chunks') :
            \/ i \in 1 .. Len(chunks)
            \/ /\ chunks'[i].section = section
               /\ cursor <= chunks'[i].start
               /\ chunks'[i].start < chunks'[i].end
               /\ chunks'[i].end <= e
  BY CutKeeps
<1> SUFFICES ASSUME NEW i \in 1 .. Len(chunks')
             PROVE  /\ chunks'[i].section \in 1 .. Len(texts)
                    /\ chunks'[i].start < chunks'[i].end
                    /\ chunks'[i].end - chunks'[i].start <= config.maximum
                    /\ chunks'[i].end <= Len(texts[chunks'[i].section])
  BY DEF WithinMaximum
<1>4. CASE i \in 1 .. Len(chunks)
  BY <1>3, <1>4 DEF WithinMaximum
<1>5. CASE i \notin 1 .. Len(chunks)
  <2>1. chunks'[i] \in Chunk
    BY <1>3
  <2>2. chunks'[i].start \in Nat /\ chunks'[i].end \in Nat
    BY <2>1 DEF Chunk
  <2>3. /\ chunks'[i].section = section
        /\ cursor <= chunks'[i].start
        /\ chunks'[i].start < chunks'[i].end
        /\ chunks'[i].end <= e
    BY <1>3, <1>5
  <2>4. chunks'[i].end - chunks'[i].start <= config.maximum
    BY <1>1, <1>2, <2>2, <2>3
  <2>5. chunks'[i].end <= Len(texts[chunks'[i].section])
    BY <1>1, <1>2, <2>2, <2>3 DEF Text
  <2> QED
    BY <1>2, <2>3, <2>4, <2>5
<1> QED
  BY <1>4, <1>5

\* A round adds at most one chunk, within maxCharacters.
LEMMA WithinMaximumNext ==
    ChunkTypeOK /\ WithinMaximum /\ [Next]_chunkVars => WithinMaximum'
<1> SUFFICES ASSUME ChunkTypeOK, WithinMaximum, [Next]_chunkVars
             PROVE  WithinMaximum'
  OBVIOUS
<1>1. CASE SkipSection
  BY <1>1 DEF SkipSection, WithinMaximum
<1>2. CASE LastRound
  BY <1>2, WithinMaximumCut DEF LastRound
<1>3. CASE Round
  BY <1>3, WithinMaximumCut DEF Round
<1>4. CASE UNCHANGED chunkVars
  BY <1>4 DEF chunkVars, WithinMaximum
<1> QED
  BY <1>1, <1>2, <1>3, <1>4 DEF Next

\* No chunk of chunk() is longer than maxCharacters, whatever the document
\* and the configuration.
THEOREM ChunksWithinMaximum == Spec => []WithinMaximum
<1>1. Init => WithinMaximum
  BY DEF Init, WithinMaximum
<1>2. ChunkTypeOK /\ WithinMaximum /\ [Next]_chunkVars => WithinMaximum'
  BY WithinMaximumNext
<1>3. Spec => []ChunkTypeOK
  BY ChunkTypeCorrect
<1> QED
  BY <1>1, <1>2, <1>3, PTL DEF Spec

-----------------------------------------------------------------------------
(* The loop advances                                                       *)

\* Within a section the cursor only moves on.
LEMMA CursorStep ==
    ASSUME ChunkTypeOK, [Next]_chunkVars
    PROVE  [section' = section => cursor' > cursor]_<<section, cursor>>
<1> SUFFICES ASSUME section' = section, cursor' # cursor
             PROVE  cursor' > cursor
  OBVIOUS
<1>1. section \in Nat
  BY DEF ChunkTypeOK
<1>2. CASE SkipSection \/ LastRound
  BY <1>1, <1>2 DEF SkipSection, LastRound, NextSection
<1>3. CASE Round
  <2>1. ~Finished /\ Text # <<>>
    BY <1>3 DEF Round
  <2>2. PICK e \in 1 .. Len(Text) : IsEnd(e) /\ cursor' = NextCursor(e)
    BY <1>3 DEF Round
  <2>3. cursor < e
    BY <2>1, <2>2, EndOfWindow
  <2> QED
    BY <2>1, <2>2, <2>3, NextCursorAdvances DEF ChunkTypeOK
<1>4. CASE UNCHANGED chunkVars
  BY <1>4 DEF chunkVars
<1> QED
  BY <1>2, <1>3, <1>4 DEF Next

\* Every round of the window loop moves the cursor forward, so that the loop
\* ends on every text.
THEOREM ChunkCursorAdvances == Spec => CursorAdvances
<1>1. ChunkTypeOK /\ [Next]_chunkVars
      => [section' = section => cursor' > cursor]_<<section, cursor>>
  BY CursorStep
<1>2. Spec => []ChunkTypeOK
  BY ChunkTypeCorrect
<1> QED
  BY <1>1, <1>2, PTL DEF Spec, CursorAdvances

-----------------------------------------------------------------------------
(* No text is lost                                                         *)

\* A position that was covered stays covered.
LEMMA CoveredKept ==
    ASSUME ChunkTypeOK, chunks' \in Seq(Chunk), Len(chunks) <= Len(chunks'),
           \A i \in 1 .. Len(chunks) : chunks'[i] = chunks[i],
           NEW s \in Nat, NEW p \in Nat, Covered(s, p)
    PROVE  Covered(s, p)'
<1>1. Len(chunks) \in Nat /\ Len(chunks') \in Nat
  BY DEF ChunkTypeOK
<1>2. PICK i \in 1 .. Len(chunks) :
        chunks[i].section = s /\ chunks[i].start <= p /\ p < chunks[i].end
  BY DEF Covered
<1>3. i \in 1 .. Len(chunks') /\ chunks'[i] = chunks[i]
  BY <1>1, <1>2
<1> QED
  BY <1>2, <1>3 DEF Covered

\* A round that ends at e covers what the cursor passes up to e.
LEMMA NoTextLostCut ==
    ASSUME ChunkTypeOK, NoTextLost, ~Finished,
           NEW e \in 1 .. Len(Text), cursor < e, Cut(e), texts' = texts,
           NEW s \in 1 .. Len(texts), NEW p \in LettersOf(s, 0, Len(texts[s])),
           s < section \/ (s = section /\ p < e)
    PROVE  Covered(s, p)'
<1>1. /\ chunks' \in Seq(Chunk)
      /\ Len(chunks) <= Len(chunks')
      /\ \A i \in 1 .. Len(chunks) : chunks'[i] = chunks[i]
      /\ \A q \in LettersOf(section, cursor, e) :
            \E i \in 1 .. Len(chunks') : /\ chunks'[i].section = section
                                        /\ chunks'[i].start <= q
                                        /\ q < chunks'[i].end
  BY CutKeeps
<1>2. /\ section \in 1 .. Len(texts) /\ s \in Nat /\ cursor \in Nat /\ e \in Nat
      /\ Len(texts) \in Nat /\ Len(texts[s]) \in Nat
  BY TextTyped DEF ChunkTypeOK
<1>3. p \in Nat /\ p <= Len(texts[s]) - 1 /\ texts[s][p + 1] = Letter
  BY <1>2 DEF LettersOf
<1>4. CASE s < section
  <2>1. Covered(s, p)
    BY <1>2, <1>4 DEF NoTextLost
  <2> QED
    BY <1>1, <1>2, <1>3, <2>1, CoveredKept
<1>5. CASE s = section /\ p < cursor
  <2>1. p \in LettersOf(s, 0, cursor)
    BY <1>2, <1>3, <1>5 DEF LettersOf
  <2>2. Covered(s, p)
    BY <1>2, <1>5, <2>1 DEF NoTextLost
  <2> QED
    BY <1>1, <1>2, <1>3, <2>2, CoveredKept
<1>6. CASE s = section /\ cursor <= p /\ p < e
  <2>1. p \in LettersOf(section, cursor, e)
    BY <1>2, <1>3, <1>6 DEF LettersOf
  <2> QED
    BY <1>1, <1>6, <2>1 DEF Covered
<1> QED
  BY <1>2, <1>3, <1>4, <1>5, <1>6

\* A round leaves no character between the chunks so far and the cursor.
LEMMA NoTextLostNext == ChunkTypeOK /\ NoTextLost /\ [Next]_chunkVars => NoTextLost'
<1> SUFFICES ASSUME ChunkTypeOK, NoTextLost, [Next]_chunkVars PROVE NoTextLost'
  OBVIOUS
<1> DEFINE Bound(s) == IF s < section THEN Len(texts[s])
                       ELSE IF s = section THEN cursor ELSE 0
<1>1. CASE UNCHANGED chunkVars
  BY <1>1 DEF chunkVars, NoTextLost, LettersOf, Covered
<1>2. ASSUME Next PROVE NoTextLost'
  <2>1. ~Finished /\ texts' = texts
    BY <1>2 DEF Next, SkipSection, LastRound, Round
  <2>2. /\ section \in 1 .. Len(texts) /\ cursor \in Nat /\ Len(texts) \in Nat
        /\ Len(Text) \in Nat
        /\ \A s \in 1 .. Len(texts) : texts[s] \in Seq(Char) /\ Len(texts[s]) \in Nat
    BY <2>1, TextTyped DEF ChunkTypeOK
  <2> SUFFICES ASSUME NEW s \in 1 .. Len(texts),
                      NEW p \in LettersOf(s, 0, Bound(s)')
               PROVE  Covered(s, p)'
    BY <2>1 DEF NoTextLost, LettersOf
  <2>3. p \in 0 .. Bound(s)' - 1 /\ texts[s][p + 1] = Letter
    BY DEF LettersOf
  <2>4. CASE SkipSection
    <3>1. /\ Text = <<>> /\ chunks' = chunks
          /\ section' = section + 1 /\ cursor' = 0
      BY <2>4 DEF SkipSection, NextSection
    <3>2. Len(Text) = 0
      BY <3>1
    <3>3. s < section
      BY <2>1, <2>2, <2>3, <3>1, <3>2 DEF Text
    <3>4. p \in LettersOf(s, 0, Len(texts[s]))
      BY <2>1, <2>2, <2>3, <3>1, <3>3 DEF LettersOf
    <3>5. Covered(s, p)
      BY <3>3, <3>4 DEF NoTextLost
    <3> QED
      BY <3>1, <3>5 DEF Covered
  <2>5. CASE LastRound
    <3>1. /\ Text # <<>> /\ section' = section + 1 /\ cursor' = 0
      BY <2>5 DEF LastRound, NextSection
    <3>2. PICK e \in 1 .. Len(Text) : IsEnd(e) /\ e >= Len(Text) /\ Cut(e)
      BY <2>5 DEF LastRound
    <3>3. s < section \/ s = section
      BY <2>2, <2>3, <3>1
    <3>4. p \in 0 .. Len(texts[s]) - 1
      BY <2>1, <2>2, <2>3, <3>1, <3>3
    <3>5. p \in LettersOf(s, 0, Len(texts[s]))
      BY <2>3, <3>4 DEF LettersOf
    <3>6. s = section => p < e
      BY <2>2, <3>2, <3>4 DEF Text
    <3>7. cursor < e
      BY <2>1, <3>1, <3>2, EndOfWindow
    <3> QED
      BY <2>1, <3>2, <3>3, <3>5, <3>6, <3>7, NoTextLostCut
  <2>6. CASE Round
    <3>1. Text # <<>> /\ section' = section
      BY <2>6 DEF Round
    <3>2. PICK e \in 1 .. Len(Text) :
            IsEnd(e) /\ e < Len(Text) /\ Cut(e) /\ cursor' = NextCursor(e)
      BY <2>6 DEF Round
    <3>3. cursor < e
      BY <2>1, <3>1, <3>2, EndOfWindow
    <3>4. cursor' \in Nat /\ cursor' <= e
      BY <2>1, <3>1, <3>2, <3>3, NextCursorAdvances
    <3>5. s < section \/ (s = section /\ p < e)
      BY <2>2, <2>3, <3>1, <3>2, <3>4
    <3>6. p \in 0 .. Len(texts[s]) - 1
      BY <2>1, <2>2, <2>3, <3>1, <3>2, <3>4, <3>5 DEF Text
    <3>7. p \in LettersOf(s, 0, Len(texts[s]))
      BY <2>3, <3>6 DEF LettersOf
    <3> QED
      BY <2>1, <3>2, <3>3, <3>5, <3>7, NoTextLostCut
  <2> QED
    BY <1>2, <2>4, <2>5, <2>6 DEF Next
<1> QED
  BY <1>1, <1>2

\* Every letter the loop has passed is in a chunk, whatever the overlap, the
\* minimum and the boundaries of the text.
THEOREM ChunksLoseNothing == Spec => []NoTextLost
<1>1. Init => NoTextLost
  <2> SUFFICES ASSUME Init PROVE NoTextLost
    OBVIOUS
  <2>1. section = 1 /\ cursor = 0
    BY DEF Init
  <2> SUFFICES ASSUME NEW s \in 1 .. Len(texts) PROVE LettersOf(s, 0, 0) = {}
    BY <2>1, ChunkTypeInit DEF NoTextLost, ChunkTypeOK
  <2> QED
    BY DEF LettersOf
<1>2. ChunkTypeOK /\ NoTextLost /\ [Next]_chunkVars => NoTextLost'
  BY NoTextLostNext
<1>3. Spec => []ChunkTypeOK
  BY ChunkTypeCorrect
<1> QED
  BY <1>1, <1>2, <1>3, PTL DEF Spec

-----------------------------------------------------------------------------
(* The same within an ingestion                                            *)

\* Embedding the chunks is a stutter of the chunker or one of its steps: the
\* pipeline implements the loop.
THEOREM EmbeddingImplementsChunking == EmbeddingSpec => Spec
<1>1. EmbeddingInit => Init
  BY DEF EmbeddingInit
<1>2. [EmbeddingNext]_vars => [Next]_chunkVars
  BY DEF EmbeddingNext, CutChunk, EndChunking, SendBatch, RejectText, StartCall,
         AnswerCall, FailCall, CollectBatch, EndEmbedding, vars
<1> QED
  BY <1>1, <1>2, PTL DEF EmbeddingSpec, Spec

\* The text that reaches the embedding calls is whole and within the maximum.
COROLLARY EmbeddedTextWhole ==
    EmbeddingSpec => [](NoTextLost /\ WithinMaximum) /\ CursorAdvances
<1>1. Spec => []NoTextLost
  BY ChunksLoseNothing
<1>2. Spec => []WithinMaximum
  BY ChunksWithinMaximum
<1>3. Spec => CursorAdvances
  BY ChunkCursorAdvances
<1> QED
  BY <1>1, <1>2, <1>3, EmbeddingImplementsChunking, PTL

-----------------------------------------------------------------------------
(* The embedding of the chunks                                             *)

LEMMA EmbeddingTypes ==
    ASSUME EmbeddingInv
    PROVE  /\ Len(records) \in Nat /\ Len(chunks) \in Nat /\ Len(records) <= Len(chunks)
           /\ BatchSize \in Nat /\ BatchSize > 0
           /\ Batch \subseteq 1 .. Len(chunks)
<1>1. Len(chunks) \in Nat
    BY DEF EmbeddingInv, ChunkTypeOK
<1>2. Len(records) \in Nat /\ Len(records) <= Len(chunks)
    BY <1>1 DEF EmbeddingInv, RecordsFollow
<1>3. BatchSize \in Nat /\ BatchSize > 0
    BY EmbeddingAssumption
<1> QED
    BY <1>1, <1>2, <1>3 DEF Batch, Lesser

\* What the calls, the answers and the records are of does not change while chunks are
\* embedded.
LEMMA SameTexts ==
    ASSUME UNCHANGED chunkVars
    PROVE  /\ (ChunkTypeOK => ChunkTypeOK')
           /\ \A i : Content(chunks[i])' = Content(chunks[i])
           /\ \A i : RecordOf(i)' = RecordOf(i)
<1>1. \A i : Content(chunks[i])' = Content(chunks[i])
    BY DEF chunkVars, Content
<1>2. \A i : RecordOf(i)' = RecordOf(i)
    BY <1>1 DEF chunkVars, RecordOf
<1>3. ChunkTypeOK => ChunkTypeOK'
    BY DEF chunkVars, ChunkTypeOK, Finished, Text
<1> QED
    BY <1>1, <1>2, <1>3

LEMMA SameRecords ==
    ASSUME EmbeddingInv, UNCHANGED chunkVars, records' = records
    PROVE  /\ ChunkTypeOK' /\ RecordsFollow' /\ Batch' = Batch
           /\ Len(records)' = Len(records) /\ Len(chunks)' = Len(chunks)
<1>1. ChunkTypeOK' /\ \A i : RecordOf(i)' = RecordOf(i)
    BY SameTexts DEF EmbeddingInv
<1>2. chunks' = chunks
    BY DEF chunkVars
<1>3. /\ Len(records) \in 0 .. Len(chunks)
      /\ records = [i \in 1 .. Len(records) |-> RecordOf(i)]
    BY DEF EmbeddingInv, RecordsFollow
<1>4. [i \in 1 .. Len(records) |-> RecordOf(i)'] = [i \in 1 .. Len(records) |-> RecordOf(i)]
    BY <1>1
<1>5. RecordsFollow'
    BY <1>2, <1>3, <1>4 DEF RecordsFollow
<1>6. Batch' = Batch
    BY <1>2 DEF Batch
<1> QED
    BY <1>1, <1>2, <1>5, <1>6

LEMMA NoCalls ==
    /\ DOMAIN None = {} /\ {i \in DOMAIN None : None[i] = "answered"} = {}
BY DEF None

\* The gathered answers are the records of the next chunks.
LEMMA CollectFollows ==
    ASSUME EmbeddingInv, CollectBatch
    PROVE  RecordsFollow'
<1> DEFINE n == Len(records)
           m == Cardinality(DOMAIN calls)
<1>1. /\ n \in Nat /\ Len(chunks) \in Nat /\ n <= Len(chunks)
      /\ BatchSize \in Nat /\ BatchSize > 0
    BY EmbeddingTypes
<1>2. DOMAIN calls = Batch /\ DOMAIN answers = Batch
    BY DEF EmbeddingInv, CallsAreOfBatch, AnswersAreOfTexts, CollectBatch
<1>3. /\ m \in Nat /\ n + m <= Len(chunks)
      /\ \A k \in 1 .. m : n + k \in Batch
    <2> DEFINE last == Lesser(n + BatchSize, Len(chunks))
    <2>1. last \in Nat /\ n <= last /\ last <= Len(chunks)
        BY <1>1 DEF Lesser
    <2>2. Batch = n + 1 .. last
        BY DEF Batch
    <2> HIDE DEF last, n
    <2>3. n + 1 \in Int /\ last \in Int
        BY <1>1, <2>1
    <2>4. Cardinality(n + 1 .. last) = IF n + 1 > last THEN 0 ELSE last - (n + 1) + 1
        BY <2>3, FS_Interval
    <2>5. m = last - n
        BY <1>1, <1>2, <2>1, <2>2, <2>4
    <2> QED
        BY <1>1, <2>1, <2>2, <2>5
<1>4. records = [i \in 1 .. n |-> RecordOf(i)]
    BY DEF EmbeddingInv, RecordsFollow
<1>5. Gathered = [k \in 1 .. m |-> RecordOf(n + k)]
    <2>1. ASSUME NEW k \in 1 .. m
          PROVE  [chunk |-> chunks[n + k], vector |-> answers[n + k]] = RecordOf(n + k)
        <3>1. answers[n + k] = Content(chunks[n + k])
            BY <1>2, <1>3 DEF EmbeddingInv, AnswersAreOfTexts
        <3> QED
            BY <3>1 DEF RecordOf
    <2>2. Gathered = [k \in 1 .. m |-> [chunk |-> chunks[n + k], vector |-> answers[n + k]]]
        BY DEF Gathered
    <2> HIDE DEF m, n
    <2> QED
        BY <2>1, <2>2
<1>6. records' = records \o Gathered /\ UNCHANGED chunkVars
    BY DEF CollectBatch
<1>7. chunks' = chunks /\ \A i : RecordOf(i)' = RecordOf(i)
    BY <1>6, SameTexts DEF chunkVars
<1> HIDE DEF m
<1>8. records' = [i \in 1 .. n + m |-> RecordOf(i)]
    <2> DEFINE R == {RecordOf(i) : i \in 1 .. n + m}
               p == [i \in 1 .. n |-> RecordOf(i)]
               q == [k \in 1 .. m |-> RecordOf(n + k)]
    <2>1. p \in Seq(R) /\ Len(p) = n
        <3>1. \A i \in 1 .. n : RecordOf(i) \in R
            BY <1>1, <1>3
        <3> HIDE DEF R
        <3> QED
            BY <1>1, <3>1
    <2>2. q \in Seq(R) /\ Len(q) = m
        <3>1. \A k \in 1 .. m : RecordOf(n + k) \in R
            BY <1>1, <1>3
        <3> HIDE DEF R, n
        <3> QED
            BY <1>3, <3>1
    <2>3. /\ \A i \in 1 .. n : p[i] = RecordOf(i)
          /\ \A k \in 1 .. m : q[k] = RecordOf(n + k)
        OBVIOUS
    <2> HIDE DEF R, p, q
    <2>4. p \o q \in Seq(R) /\ Len(p \o q) = n + m
        BY <2>1, <2>2
    <2>5. ASSUME NEW i \in 1 .. n + m PROVE (p \o q)[i] = RecordOf(i)
        <3>1. CASE i <= n
            BY <1>1, <1>3, <2>1, <2>2, <2>3, <3>1
        <3>2. CASE i > n
            <4>1. i - n \in 1 .. m /\ n + (i - n) = i
                BY <1>1, <1>3, <3>2
            <4>2. (p \o q)[i] = q[i - n]
                BY <1>1, <1>3, <2>1, <2>2, <3>2
            <4>3. q[i - n] = RecordOf(n + (i - n))
                BY <2>3, <4>1
            <4> QED
                BY <4>1, <4>2, <4>3
        <3>3. i <= n \/ i > n
            <4>1. n \in Nat /\ m \in Nat
                BY <1>1, <1>3
            <4> HIDE DEF n
            <4> QED
                BY <4>1
        <3> QED
            BY <3>1, <3>2, <3>3
    <2>6. p \o q = [i \in 1 .. n + m |-> RecordOf(i)]
        <3> DEFINE both == p \o q
                   l == n + m
        <3>1. both \in Seq(R) /\ Len(both) = l
            BY <2>4
        <3>2. \A i \in 1 .. l : both[i] = RecordOf(i)
            BY <2>5
        <3> HIDE DEF both, l
        <3>3. both \in [1 .. l -> R]
            BY <3>1
        <3>4. both = [i \in 1 .. l |-> both[i]]
            BY <3>3
        <3>5. both = [i \in 1 .. l |-> RecordOf(i)]
            BY <3>2, <3>4
        <3> QED
            BY <3>5 DEF both, l
    <2> QED
        BY <1>4, <1>5, <1>6, <2>6 DEF p, q
<1>9. Len(records') = n + m
    <2>1. n + m \in Nat
        BY <1>1, <1>3
    <2> HIDE DEF n
    <2> QED
        BY <1>8, <2>1
<1>10. records' = [i \in 1 .. n + m |-> RecordOf(i)']
    BY <1>7, <1>8
<1>11. n + m \in 0 .. Len(chunks')
    BY <1>1, <1>3, <1>7
<1> HIDE DEF n
<1> QED
    BY <1>9, <1>10, <1>11 DEF RecordsFollow

\* Steps that leave calls and answers alone.
LEMMA SameCalls ==
    ASSUME EmbeddingInv, UNCHANGED <<chunkVars, calls, answers, records>>,
           stage' \in Stages,
           stage' \in {"calling", "failed"} <=> stage \in {"calling", "failed"},
           stage' = "chunking" => stage = "chunking",
           stage' = "embedded" => stage = "embedded" \/ Batch = {}
    PROVE  EmbeddingInv'
<1>1. UNCHANGED chunkVars /\ calls' = calls /\ answers' = answers /\ records' = records
    OBVIOUS
<1>2. /\ ChunkTypeOK' /\ RecordsFollow' /\ Batch' = Batch
      /\ Len(records)' = Len(records) /\ Len(chunks)' = Len(chunks)
    BY <1>1, SameRecords
<1>3. CallsAreOfBatch'
    BY <1>1, <1>2 DEF EmbeddingInv, CallsAreOfBatch
<1>4. AnswersAreOfTexts'
    <2>1. \A i : Content(chunks[i])' = Content(chunks[i])
        BY <1>1, SameTexts
    <2>2. WithState("answered")' = WithState("answered")
        BY <1>1 DEF WithState
    <2> QED
        BY <1>1, <2>1, <2>2 DEF EmbeddingInv, AnswersAreOfTexts
<1>5. Batch = {} => Len(records) = Len(chunks)
    <2> SUFFICES ASSUME Batch = {} PROVE Len(records) = Len(chunks)
        OBVIOUS
    <2> DEFINE n == Len(records)
               l == Len(chunks)
    <2>1. n \in Nat /\ l \in Nat /\ n <= l /\ BatchSize \in Nat /\ BatchSize > 0
        BY EmbeddingTypes
    <2>2. n + 1 .. Lesser(n + BatchSize, l) = {}
        BY DEF Batch
    <2> HIDE DEF n, l
    <2>3. n + 1 \notin n + 1 .. Lesser(n + BatchSize, l)
        BY <2>2
    <2>4. n = l
        BY <2>1, <2>3 DEF Lesser
    <2> QED
        BY <2>4 DEF n, l
<1>6. stage' = "embedded" => Len(records') = Len(chunks')
    BY <1>2, <1>5 DEF EmbeddingInv
<1> QED
    BY <1>1, <1>2, <1>3, <1>4, <1>6 DEF EmbeddingInv

LEMMA EmbeddingStep ==
    ASSUME EmbeddingInv, [EmbeddingNext]_vars
    PROVE  EmbeddingInv'
<1>1. CASE UNCHANGED vars
    BY <1>1, SameCalls DEF vars, embeddingVars, EmbeddingInv
<1>2. CASE CutChunk
    <2>1. /\ stage = "chunking" /\ stage' = stage /\ records = <<>> /\ records' = <<>>
          /\ calls' = calls /\ answers' = answers /\ DOMAIN calls = {}
        BY <1>2 DEF CutChunk, embeddingVars, EmbeddingInv, CallsAreOfBatch
    <2>2. ChunkTypeOK'
        BY <1>2, ChunkTypeNext DEF CutChunk, EmbeddingInv
    <2>3. RecordsFollow'
        <3>1. Len(chunks') \in Nat
            BY <2>2 DEF ChunkTypeOK
        <3>2. Len(records') = 0 /\ 0 \in 0 .. Len(chunks')
            BY <2>1, <3>1
        <3>3. records' = [i \in 1 .. 0 |-> RecordOf(i)']
            <4>1. <<>> = [i \in 1 .. 0 |-> RecordOf(i)']
                OBVIOUS
            <4> QED
                BY <2>1, <4>1
        <3> QED
            BY <3>2, <3>3 DEF RecordsFollow
    <2>4. CallsAreOfBatch'
        BY <2>1 DEF CallsAreOfBatch
    <2>5. AnswersAreOfTexts'
        BY <2>1 DEF EmbeddingInv, AnswersAreOfTexts, WithState
    <2> QED
        BY <2>1, <2>2, <2>3, <2>4, <2>5 DEF EmbeddingInv
<1>3. CASE EndChunking
    BY <1>3, SameCalls DEF EndChunking, Stages
<1>4. CASE RejectText
    BY <1>4, SameCalls DEF RejectText, Stages
<1>5. CASE EndEmbedding
    BY <1>5, SameCalls DEF EndEmbedding, Stages
<1>6. CASE SendBatch
    <2>1. /\ UNCHANGED chunkVars /\ records' = records /\ stage' = "calling"
          /\ calls' = [i \in Batch |-> "waiting"] /\ answers' = None
        BY <1>6 DEF SendBatch
    <2>2. ChunkTypeOK' /\ RecordsFollow' /\ Batch' = Batch
        BY <2>1, SameRecords
    <2>3. CallsAreOfBatch'
        BY <2>1, <2>2 DEF CallsAreOfBatch
    <2>4. AnswersAreOfTexts'
        BY <2>1, NoCalls DEF AnswersAreOfTexts, WithState
    <2> QED
        BY <2>1, <2>2, <2>3, <2>4 DEF EmbeddingInv, Stages, CallStates
<1>7. ASSUME NEW i \in DOMAIN calls, StartCall(i) PROVE EmbeddingInv'
    <2>1. /\ UNCHANGED chunkVars /\ records' = records /\ stage' = stage
          /\ calls[i] = "waiting" /\ calls' = [calls EXCEPT ![i] = "running"]
          /\ answers' = answers
        BY <1>7 DEF StartCall
    <2>2. ChunkTypeOK' /\ RecordsFollow' /\ Batch' = Batch /\ Len(records)' = Len(records)
          /\ Len(chunks)' = Len(chunks)
        BY <2>1, SameRecords
    <2>3. DOMAIN calls' = DOMAIN calls /\ calls'[i] = "running"
          /\ \A j \in DOMAIN calls : j # i => calls'[j] = calls[j]
        BY <2>1
    <2>4. CallsAreOfBatch'
        BY <2>1, <2>2, <2>3 DEF EmbeddingInv, CallsAreOfBatch
    <2>5. WithState("answered")' = WithState("answered")
        BY <2>1, <2>3 DEF WithState
    <2>6. AnswersAreOfTexts'
        BY <2>1, <2>5, SameTexts DEF EmbeddingInv, AnswersAreOfTexts
    <2> QED
        BY <2>1, <2>2, <2>3, <2>4, <2>6 DEF EmbeddingInv, CallStates
<1>8. ASSUME NEW i \in DOMAIN calls, AnswerCall(i) PROVE EmbeddingInv'
    <2>1. /\ UNCHANGED chunkVars /\ records' = records /\ stage' = stage
          /\ calls[i] = "running" /\ calls' = [calls EXCEPT ![i] = "answered"]
          /\ answers' = [j \in DOMAIN answers \cup {i} |->
                            IF j = i THEN Content(chunks[i]) ELSE answers[j]]
        BY <1>8 DEF AnswerCall
    <2>2. ChunkTypeOK' /\ RecordsFollow' /\ Batch' = Batch /\ Len(records)' = Len(records)
          /\ Len(chunks)' = Len(chunks)
        BY <2>1, SameRecords
    <2>3. DOMAIN calls' = DOMAIN calls /\ calls'[i] = "answered"
          /\ \A j \in DOMAIN calls : j # i => calls'[j] = calls[j]
        BY <2>1
    <2>4. CallsAreOfBatch'
        BY <2>1, <2>2, <2>3 DEF EmbeddingInv, CallsAreOfBatch
    <2>5. WithState("answered")' = WithState("answered") \cup {i}
        BY <2>1, <2>3 DEF WithState
    <2>6. DOMAIN answers' = WithState("answered")'
        BY <2>1, <2>5 DEF EmbeddingInv, AnswersAreOfTexts
    <2>7. \A j \in DOMAIN answers' : answers'[j] = Content(chunks[j])
        BY <2>1 DEF EmbeddingInv, AnswersAreOfTexts
    <2>8. AnswersAreOfTexts'
        BY <2>1, <2>6, <2>7, SameTexts DEF AnswersAreOfTexts
    <2> QED
        BY <2>1, <2>2, <2>3, <2>4, <2>8 DEF EmbeddingInv, CallStates
\* The other calls run on, and their batch is the same.
<1>9. ASSUME NEW i \in DOMAIN calls, FailCall(i) PROVE EmbeddingInv'
    <2>1. /\ UNCHANGED chunkVars /\ records' = records /\ stage' = "failed"
          /\ calls[i] = "running" /\ calls' = [calls EXCEPT ![i] = "failed"]
          /\ answers' = answers
        BY <1>9 DEF FailCall
    <2>2. ChunkTypeOK' /\ RecordsFollow' /\ Batch' = Batch /\ Len(records)' = Len(records)
          /\ Len(chunks)' = Len(chunks)
        BY <2>1, SameRecords
    <2>3. DOMAIN calls' = DOMAIN calls /\ calls'[i] = "failed"
          /\ \A j \in DOMAIN calls : j # i => calls'[j] = calls[j]
        BY <2>1
    <2>4. CallsAreOfBatch'
        BY <2>1, <2>2, <2>3 DEF EmbeddingInv, CallsAreOfBatch
    <2>5. WithState("answered")' = WithState("answered")
        BY <2>1, <2>3 DEF WithState
    <2>6. AnswersAreOfTexts'
        BY <2>1, <2>5, SameTexts DEF EmbeddingInv, AnswersAreOfTexts
    <2> QED
        BY <2>1, <2>2, <2>3, <2>4, <2>6 DEF EmbeddingInv, CallStates, Stages
<1>10. CASE CollectBatch
    <2>1. UNCHANGED chunkVars /\ stage' = "embedding" /\ calls' = None /\ answers' = None
        BY <1>10 DEF CollectBatch
    <2>2. ChunkTypeOK' /\ RecordsFollow'
        BY <1>10, <2>1, SameTexts, CollectFollows DEF EmbeddingInv
    <2>3. CallsAreOfBatch' /\ AnswersAreOfTexts'
        BY <2>1, NoCalls DEF CallsAreOfBatch, AnswersAreOfTexts, WithState
    <2> QED
        BY <2>1, <2>2, <2>3, NoCalls DEF EmbeddingInv, Stages
<1> QED
    BY <1>1, <1>2, <1>3, <1>4, <1>5, <1>6, <1>7, <1>8, <1>9, <1>10 DEF EmbeddingNext

LEMMA EmbeddingStart == EmbeddingInit => EmbeddingInv
<1> SUFFICES ASSUME EmbeddingInit PROVE EmbeddingInv
    OBVIOUS
<1>1. /\ ChunkTypeOK /\ stage = "chunking" /\ calls = None /\ answers = None
      /\ records = <<>> /\ chunks = <<>>
    BY ChunkTypeInit DEF EmbeddingInit, Init
<1>2. RecordsFollow
    BY <1>1 DEF RecordsFollow
<1>3. CallsAreOfBatch /\ AnswersAreOfTexts
    BY <1>1, NoCalls DEF CallsAreOfBatch, AnswersAreOfTexts, WithState
<1> QED
    BY <1>1, <1>2, <1>3, NoCalls DEF EmbeddingInv, Stages

\* The embedding of a document keeps its inductive invariant, in whatever order calls
\* are answered and whichever fail.
THEOREM EmbeddingInvariant == EmbeddingSpec => []EmbeddingInv
<1>1. EmbeddingInv /\ [EmbeddingNext]_vars => EmbeddingInv'
    BY EmbeddingStep
<1> QED
    BY <1>1, EmbeddingStart, PTL DEF EmbeddingSpec

\* Each record that _embed_chunks() makes has the vector of its own chunk, for any batch
\* size, and an embedding that ends has made them all.
THEOREM RecordsAreAligned == EmbeddingSpec => []RecordsAligned
<1>1. EmbeddingInv => RecordsAligned
    <2> SUFFICES ASSUME EmbeddingInv, NEW i \in DOMAIN records
                 PROVE  records[i] = [chunk |-> chunks[i], vector |-> Content(chunks[i])]
        BY DEF EmbeddingInv, RecordsAligned
    <2>1. records = [k \in 1 .. Len(records) |-> RecordOf(k)]
        BY DEF EmbeddingInv, RecordsFollow
    <2>2. records[i] = RecordOf(i)
        BY <2>1
    <2> QED
        BY <2>2 DEF RecordOf
<1> QED
    BY <1>1, EmbeddingInvariant, PTL

\* The provider refuses a text of the chunker only if its limit is below the chunker's
\* maximum: a chunk has text, and no more of it than the maximum.
THEOREM OnlyOversizedRejected == EmbeddingSpec => []RejectedOnlyOversized
<1>1. EmbeddingInit => RejectedOnlyOversized
    BY DEF EmbeddingInit, RejectedOnlyOversized
<1>2. EmbeddingInv /\ WithinMaximum /\ RejectedOnlyOversized /\ [EmbeddingNext]_vars
        => RejectedOnlyOversized'
    <2> SUFFICES ASSUME EmbeddingInv, WithinMaximum, RejectedOnlyOversized,
                        [EmbeddingNext]_vars, stage' = "rejected"
                 PROVE  config'.maximum > MaxText
        BY DEF RejectedOnlyOversized
    <2>1. CASE stage = "rejected"
        <3>1. config' = config
            BY <2>1 DEF EmbeddingNext, CutChunk, EndChunking, SendBatch, RejectText, StartCall,
               AnswerCall, FailCall, CollectBatch, EndEmbedding, vars, chunkVars
        <3> QED
            BY <2>1, <3>1 DEF RejectedOnlyOversized
    <2>2. CASE stage # "rejected"
        <3>1. RejectText
            BY <2>2 DEF EmbeddingNext, CutChunk, EndChunking, SendBatch, StartCall,
               AnswerCall, FailCall, CollectBatch, EndEmbedding, vars, embeddingVars
        <3>2. PICK i \in Batch : ~Accepted(Content(chunks[i]))
            BY <3>1 DEF RejectText
        <3>3. i \in 1 .. Len(chunks)
            BY EmbeddingTypes
        <3> DEFINE c == chunks[i]
                   text == texts[c.section]
        <3>4. /\ c.section \in 1 .. Len(texts) /\ c.start < c.end
              /\ c.end - c.start <= config.maximum /\ c.end <= Len(text)
            BY <3>3 DEF WithinMaximum
        <3>5. c.start \in Nat /\ c.end \in Nat /\ texts \in Seq(Seq(Char)) /\ config' = config
            <4>1. chunks \in Seq(Chunk) /\ texts \in Seq(Seq(Char))
                BY DEF EmbeddingInv, ChunkTypeOK
            <4>2. chunks[i] \in Chunk
                BY <3>3, <4>1
            <4>3. config' = config
                BY <3>1 DEF RejectText, chunkVars
            <4> QED
                BY <4>1, <4>2, <4>3 DEF Chunk
        <3>6. text \in Seq(Char)
            BY <3>4, <3>5
        <3>7. Content(chunks[i]) = SubSeq(text, c.start + 1, c.end)
            BY DEF Content
        <3> HIDE DEF text, c
        <3>8. Len(SubSeq(text, c.start + 1, c.end)) = c.end - c.start
            BY <3>4, <3>5, <3>6
        <3>9. config.maximum \in Nat /\ MaxText \in Nat
            BY ConfigTyped, EmbeddingAssumption DEF EmbeddingInv
        <3>10. SubSeq(text, c.start + 1, c.end) # <<>>
            <4>1. Len(SubSeq(text, c.start + 1, c.end)) # 0
                BY <3>4, <3>5, <3>8
            <4>2. Len(<<>>) = 0
                OBVIOUS
            <4> QED
                BY <4>1, <4>2
        <3> QED
            BY <3>2, <3>4, <3>5, <3>7, <3>8, <3>9, <3>10 DEF Accepted
    <2> QED
        BY <2>1, <2>2
<1>3. EmbeddingSpec => []WithinMaximum
    BY ChunksWithinMaximum, EmbeddingImplementsChunking, PTL
<1> QED
    BY <1>1, <1>2, <1>3, EmbeddingInvariant, PTL DEF EmbeddingSpec

\* Calls, answers and records are of chunks that exist.
THEOREM EmbeddingTypeCorrect == EmbeddingSpec => []TypeOK
<1>1. EmbeddingInv => TypeOK
    <2> SUFFICES ASSUME EmbeddingInv PROVE TypeOK
        OBVIOUS
    <2>1. DOMAIN calls \subseteq 1 .. Len(chunks) /\ Len(records) <= Len(chunks)
        BY EmbeddingTypes DEF EmbeddingInv, CallsAreOfBatch
    <2> QED
        BY <2>1 DEF EmbeddingInv, AnswersAreOfTexts, TypeOK
<1> QED
    BY <1>1, EmbeddingInvariant, PTL

=============================================================================
