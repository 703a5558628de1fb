---------------------------- MODULE MCEmbedding ----------------------------
(* Every text of up to LongText characters, normalised, is a document of   *)
(* one section; every pair of texts of up to two characters is one of two. *)
EXTENDS Embedding

CONSTANTS LongText, LongestMaximum

TextsUpTo(n) == UNION {[1 .. k -> Char] : k \in 0 .. n}
MCDocuments ==
    {<<text>> : text \in {Normalized(raw) : raw \in TextsUpTo(LongText)}}
        \cup {<<first, second>> : first, second \in TextsUpTo(2)}
MCConfigs ==
    {c \in [maximum : 2 .. LongestMaximum,
            overlap : 0 .. LongestMaximum - 1,
            minimum : 1 .. LongestMaximum] :
        c.overlap < c.maximum /\ c.minimum <= c.maximum}
=============================================================================
