------------------------------ MODULE Chunking ------------------------------
(***************************************************************************)
(* ParagraphChunker (chunking.py): the sections of an extracted document   *)
(* are normalised and cut into overlapping windows, one window per round   *)
(* of the loop of _windows.  A text is a sequence of characters of three   *)
(* kinds, which is all the algorithm tells apart; offsets are those of the *)
(* code and start at 0, so the character at offset p is text[p + 1].       *)
(***************************************************************************)
EXTENDS Integers, Sequences, SequencesExt

CONSTANTS
    Documents,   \* the extracted documents: sequences of sections' contents
    Configs      \* the settings of the chunker: see ConfigsAssumption

Letter == "letter"    \* any character that str.strip() keeps
Blank == "blank"      \* a space, which tabs and form feeds become
Newline == "newline"
Char == {Letter, Blank, Newline}

\* ChunkingConfig.  Its lower bound of 100 characters is left out: the
\* instances scale the texts and the settings down together.
Config == [maximum : Nat \ {0}, overlap : Nat, minimum : Nat \ {0}]

ASSUME ConfigsAssumption ==
    /\ Configs \subseteq Config
    /\ \A c \in Configs : c.overlap < c.maximum /\ c.minimum <= c.maximum

VARIABLES
    config,    \* self._config
    texts,     \* the normalised contents of the sections
    section,   \* the section whose windows are being cut
    cursor,    \* cursor of _windows
    chunks     \* the chunks so far: their section and their two offsets

chunkVars == <<config, texts, section, cursor, chunks>>

Chunk == [section : Nat \ {0}, start : Nat, end : Nat]

-----------------------------------------------------------------------------
(* Normalisation                                                           *)

\* What stands between two letters once it is normalised: a run of white
\* characters with two newlines is a paragraph break.
Separator(gap) ==
    IF gap = <<>> THEN <<>>
    ELSE IF Len(SelectSeq(gap, LAMBDA c : c = Newline)) >= 2
         THEN <<Newline, Newline>>
         ELSE <<Blank>>

\* The text so far and the white characters read since its last letter;
\* those before the first letter and after the last one are stripped.
Absorb(acc, c) ==
    IF c # Letter
    THEN [acc EXCEPT !.gap = Append(@, c)]
    ELSE [text |-> IF acc.text = <<>> THEN <<c>>
                   ELSE acc.text \o Separator(acc.gap) \o <<c>>,
          gap |-> <<>>]

Normalized(raw) == FoldLeft(Absorb, [text |-> <<>>, gap |-> <<>>], raw).text

NormalizedTexts(document) == [s \in DOMAIN document |-> Normalized(document[s])]

\* A document is a sequence of sections and stays one when it is normalised.
ASSUME DocumentsAssumption ==
    \A d \in Documents : d \in Seq(Seq(Char)) /\ NormalizedTexts(d) \in Seq(Seq(Char))

-----------------------------------------------------------------------------
(* One window                                                              *)

Text == texts[section]
Lesser(m, n) == IF m <= n THEN m ELSE n
IsLeast(p, S) == p \in S /\ \A q \in S : p <= q
IsGreatest(p, S) == p \in S /\ \A q \in S : q <= p

\* str.rfind looks for an occurrence that lies within [from, to).
ParagraphBreaks(from, to) ==
    {p \in from .. to - 2 : Text[p + 1] = Newline /\ Text[p + 2] = Newline}
Blanks(from, to) == {p \in from .. to - 1 : Text[p + 1] = Blank}
LettersOf(s, from, to) == {p \in from .. to - 1 : texts[s][p + 1] = Letter}

\* Faulty variant: the overlap is added to the window.
ProposedEndWithOverlap ==
    Lesser(cursor + config.maximum + config.overlap, Len(Text))

ProposedEnd == Lesser(cursor + config.maximum, Len(Text))

MinimumEnd == Lesser(cursor + config.minimum, ProposedEnd)

\* The offset _preferred_boundary returns: the last paragraph break that
\* leaves the minimum, else the last space, else the proposed end.
IsPreferred(e) ==
    LET breaks == ParagraphBreaks(MinimumEnd, ProposedEnd)
        blanks == Blanks(MinimumEnd, ProposedEnd)
    IN  IF ProposedEnd = Len(Text) THEN e = ProposedEnd
        ELSE \/ IsGreatest(e, breaks)
             \/ breaks = {} /\ IsGreatest(e, blanks)
             \/ breaks = {} /\ blanks = {} /\ e = ProposedEnd

\* A boundary that does not advance is replaced by the proposed end.
IsEnd(e) ==
    \E b \in 0 .. Len(Text) : /\ IsPreferred(b)
                              /\ e = IF b <= cursor THEN ProposedEnd ELSE b

\* Faulty variant: the offset of the last letter is taken for the end.
CutBeforeLast(e) ==
    LET letters == LettersOf(section, cursor, e)
    IN  \/ /\ \A a, z \in letters : a = z
           /\ UNCHANGED chunks
        \/ \E a, z \in letters :
              /\ IsLeast(a, letters)
              /\ IsGreatest(z, letters)
              /\ a < z
              /\ chunks' = Append(chunks, [section |-> section, start |-> a, end |-> z])

\* The chunk of a window is what strip() leaves of it, none of a blank one.
Cut(e) ==
    LET letters == LettersOf(section, cursor, e)
    IN  \/ /\ letters = {}
           /\ UNCHANGED chunks
        \/ \E a, z \in letters :
              /\ IsLeast(a, letters)
              /\ IsGreatest(z, letters)
              /\ chunks' = Append(chunks, [section |-> section, start |-> a, end |-> z + 1])

\* The next window repeats the overlap unless it would not advance.
Back(e) == IF e < config.overlap THEN 0 ELSE e - config.overlap
NextCursor(e) == IF Back(e) <= cursor THEN e ELSE Back(e)

-----------------------------------------------------------------------------
(* The loop                                                                *)

Init ==
    /\ config \in Configs
    /\ \E d \in Documents : texts = NormalizedTexts(d)
    /\ section = 1
    /\ cursor = 0
    /\ chunks = <<>>

Finished == section > Len(texts)

NextSection == section' = section + 1 /\ cursor' = 0

\* A section without content has no window.
SkipSection ==
    /\ ~Finished
    /\ Text = <<>>
    /\ NextSection
    /\ UNCHANGED <<config, texts, chunks>>

\* A round that reaches the end of the text is the section's last one.
LastRound ==
    /\ ~Finished
    /\ Text # <<>>
    /\ \E e \in 1 .. Len(Text) : IsEnd(e) /\ e >= Len(Text) /\ Cut(e)
    /\ NextSection
    /\ UNCHANGED <<config, texts>>

Round ==
    /\ ~Finished
    /\ Text # <<>>
    /\ \E e \in 1 .. Len(Text) :
          /\ IsEnd(e)
          /\ e < Len(Text)
          /\ Cut(e)
          /\ cursor' = NextCursor(e)
    /\ UNCHANGED <<config, texts, section>>

Next == SkipSection \/ LastRound \/ Round

Spec == Init /\ [][Next]_chunkVars
FairSpec == Spec /\ WF_chunkVars(Next)

-----------------------------------------------------------------------------
(* Properties                                                              *)

ChunkTypeOK ==
    /\ config \in Configs
    /\ texts \in Seq(Seq(Char))
    /\ section \in 1 .. Len(texts) + 1
    /\ cursor \in Nat
    /\ Finished => cursor = 0
    /\ ~Finished /\ Text # <<>> => cursor < Len(Text)
    /\ ~Finished /\ Text = <<>> => cursor = 0
    /\ chunks \in Seq(Chunk)

\* maxCharacters is a hard invariant: no chunk of chunk() is empty or longer
\* than it, and a chunk lies within its section's text.
WithinMaximum ==
    \A i \in 1 .. Len(chunks) :
        /\ chunks[i].section \in 1 .. Len(texts)
        /\ chunks[i].start < chunks[i].end
        /\ chunks[i].end - chunks[i].start <= config.maximum
        /\ chunks[i].end <= Len(texts[chunks[i].section])

Covered(s, p) ==
    \E i \in 1 .. Len(chunks) :
        /\ chunks[i].section = s
        /\ chunks[i].start <= p
        /\ p < chunks[i].end

\* No text is lost: each letter the loop has passed, in this section and in
\* those before it, is in a chunk.
NoTextLost ==
    \A s \in 1 .. Len(texts) :
        \A p \in LettersOf(s, 0, IF s < section THEN Len(texts[s])
                                 ELSE IF s = section THEN cursor ELSE 0) :
            Covered(s, p)

\* The loop advances: within a section every round moves the cursor forward,
\* whatever the overlap, the minimum and the boundaries found.
CursorAdvances == [][section' = section => cursor' > cursor]_<<section, cursor>>

\* The overlap repeats text but never delays the rest: a chunk ends no
\* earlier than the one before it, unless the overlap is all but one
\* character and hides a paragraph break; and if the overlap is shorter than
\* the minimum by more than a paragraph break, each chunk adds some text.
ChunksAdvance ==
    \A i \in 1 .. Len(chunks) - 1 :
        chunks[i].section = chunks[i + 1].section
        => /\ config.overlap + 1 < config.maximum => chunks[i].end <= chunks[i + 1].end
           /\ config.overlap + 2 < config.minimum => chunks[i].end < chunks[i + 1].end

=============================================================================
