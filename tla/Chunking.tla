------------------------------- MODULE Chunking -----------------------------
(***************************************************************************)
(* The recursive character chunker (ingestion/domain/chunking.py) that     *)
(* turns the text of a document into pieces, and the chunks that are made  *)
(* of them, embedded and searched (ingestion/domain/chunk.py).             *)
(*                                                                         *)
(* A character is a pair of its kind and its position in the document.     *)
(* What separators and whitespace do depends on kinds alone; the position  *)
(* says where a character of a piece came from, 0 for those the chunker    *)
(* itself puts in.                                                         *)
(***************************************************************************)
EXTENDS Integers, FiniteSets, SequencesExt

Kinds == {"letter", "space", "line", "dot"}

Char(kind, pos) == [kind |-> kind, pos |-> pos]

Space == Char("space", 0)

IsBlank(char) == char.kind \in {"space", "line"}

(* str.rstrip, str.strip *)
RStrip(s) == SubSeq(s, 1, SelectLastInSeq(s, LAMBDA c : ~IsBlank(c)))

Strip(s) ==
    LET first == SelectInSeq(s, LAMBDA c : ~IsBlank(c))
    IN  IF first = 0 THEN <<>> ELSE RStrip(SubSeq(s, first, Len(s)))

(* _SEPARATORS, the last of which splits into characters. *)
Separators ==
    << <<"line", "line">>, <<"line">>, <<"dot", "space">>, <<"space">>, <<>> >>

KindsOf(s) == [i \in DOMAIN s |-> s[i].kind]

Text(kinds) == [i \in DOMAIN kinds |-> Char(kinds[i], i)]

(* str.split by a separator, given by its kinds. *)
Parts(s, sep) ==
    LET n == Len(s)
        k == Len(sep)
        from[i \in 1..n + 1] ==        \* the parts of what starts at i
            LET found == {j \in i..n - k + 1 : KindsOf(SubSeq(s, j, j + k - 1)) = sep}
            IN  IF found = {} THEN << SubSeq(s, i, n) >>
                ELSE << SubSeq(s, i, Min(found) - 1) >> \o from[Min(found) + k]
    IN  from[1]

(* Every part gets its separator back, also the last one, which had none;  *)
(* a line break is stripped off again.                                     *)
Rejoined(part, sep) ==
    LET joined == part \o [i \in DOMAIN sep |-> Char(sep[i], 0)]
    IN  IF "line" \in ToSet(sep) THEN RStrip(joined) ELSE joined

Pieces(s, sep) ==
    IF sep = <<>> THEN [i \in DOMAIN s |-> <<s[i]>>]
    ELSE FoldLeft(LAMBDA kept, part : IF Rejoined(part, sep) = <<>> THEN kept
                                      ELSE Append(kept, Rejoined(part, sep)),
                  <<>>, Parts(s, sep))

(* _recursive_split: what is still too long is split on the next separator. *)
Refined(fragments, sep, size) ==
    FoldLeft(LAMBDA all, f : all \o IF Len(f) > size THEN Pieces(f, sep) ELSE << f >>,
             <<>>, fragments)

Fragments(s, size) ==
    FoldLeft(LAMBDA fragments, sep : Refined(fragments, sep, size), << s >>, Separators)

(* Mutant: nothing is carried over. *)
CarriedNone(s, overlap) == <<>>

(* text[-overlap:] *)
Carried(s, overlap) ==
    SubSeq(s, IF Len(s) > overlap THEN Len(s) - overlap + 1 ELSE 1, Len(s))

(* One turn of the loop of _merge_with_overlap. *)
Merged(m, fragment, size, overlap) ==
    LET candidate == IF m.current = <<>> THEN fragment
                     ELSE Strip(m.current \o <<Space>> \o fragment)
    IN  IF Len(candidate) <= size THEN [m EXCEPT !.current = candidate]
        ELSE IF m.current # <<>>
        THEN [chunks  |-> Append(m.chunks, m.current),
              current |-> Strip(Carried(m.current, overlap) \o <<Space>> \o fragment)]
        ELSE [chunks  |-> Append(m.chunks, SubSeq(fragment, 1, size)),
              current |-> SubSeq(fragment, size - overlap + 1, Len(fragment))]

Merge(fragments, size, overlap) ==
    FoldLeft(LAMBDA m, f : Merged(m, f, size, overlap),
             [chunks |-> <<>>, current |-> <<>>], fragments)

(* Mutant: the last chunk is forgotten unless it is the only one. *)
AllChunksButLast(m) ==
    IF m.chunks = <<>> THEN << m.current >> ELSE m.chunks

AllChunks(m) == IF m.current = <<>> THEN m.chunks ELSE Append(m.chunks, m.current)

(* Mutant: a blank text is not told apart. *)
SplitBlankToo(text, size, overlap) ==
    AllChunks(Merge(Fragments(text, size), size, overlap))

(* RecursiveCharacterChunker.split *)
Split(text, size, overlap) ==
    LET normalized == Strip(text)
    IN  IF normalized = <<>> THEN <<>>
        ELSE AllChunks(Merge(Fragments(normalized, size), size, overlap))

(* IngestDocumentHandler.handle makes a chunk of every piece or none at    *)
(* all: ChunkText refuses a blank piece, and with it the ingestion.        *)
ChunksOf(pieces) ==
    LET refused == \E i \in DOMAIN pieces : Strip(pieces[i]) = <<>>
    IN  [refused |-> refused,
         stored  |-> IF refused THEN {}
                     ELSE {[ordinal |-> i - 1, text |-> pieces[i]] : i \in DOMAIN pieces}]

(* list_for_document: the texts, as GET .../chunks lists them. *)
ChunkList(stored) ==
    LET before(c) == {d \in stored : d.ordinal < c.ordinal}
    IN  [i \in 1..Cardinality(stored) |->
            (CHOOSE c \in stored : Cardinality(before(c)) = i - 1).text]

-----------------------------------------------------------------------------
(* The letters of a piece, each with its position in the text. *)
Letters(s) == {c \in ToSet(s) : c.kind = "letter"}

(* The letters of a piece are in the order of the text. *)
Ascends(s) ==
    \A i, j \in DOMAIN s :
        i < j /\ s[i].kind = "letter" /\ s[j].kind = "letter" => s[i].pos < s[j].pos

(* The piece has a run of these letters in their order, none left out. *)
IsRunOf(piece, letters) ==
    /\ Ascends(piece) /\ Letters(piece) \subseteq letters
    /\ \A c, d \in Letters(piece), x \in letters :
         x.pos \in c.pos..d.pos => x \in Letters(piece)

(* A piece with letters goes on at least as far as the one before it. *)
Follows(before, piece) ==
    Letters(piece) # {} =>
        \A c \in Letters(before) : \E d \in Letters(piece) : c.pos <= d.pos
=============================================================================
