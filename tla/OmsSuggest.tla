----------------------------- MODULE OmsSuggest -----------------------------
(***************************************************************************)
(* Which warehouse products the order form suggests for a conversation     *)
(* (oms/oms-product-match.util).  The transcript and the names are         *)
(* sequences of tokens, already without accents and lower case; a SKU is a *)
(* token of its own.  One transcript is ranked in one step: the algorithm  *)
(* is pure, the run goes through the transcripts.                          *)
(***************************************************************************)
EXTENDS Integers, Sequences, FiniteSets, SequencesExt
CONSTANTS
  Words,      \* the tokens of a transcript
  MaxWords,   \* its length
  Catalog,    \* the products: records [name: tokens, sku: a token, long: 16 letters or more]
  Generic     \* GENERIC_TOKENS: words too common to choose by

VARIABLES said, ranked, answered
suggestVars == <<said, ranked, answered>>

\* consumeCategory: the category that starts at token i and the token after it.
TokenAt(toks, i) == IF i <= Len(toks) THEN toks[i] ELSE "end"
ConsumeCategory(toks, i) ==
  LET a == TokenAt(toks, i)
      b == TokenAt(toks, i + 1)
      c == TokenAt(toks, i + 2)
  IN CASE a = "bong" /\ b = "tai"                     -> [category |-> "bong_tai", next |-> i + 2]
       [] a = "doi" /\ b = "bong" /\ c = "tai"        -> [category |-> "bong_tai", next |-> i + 3]
       [] a = "mat" /\ b = "day" /\ c = "chuyen"      -> [category |-> "mat", next |-> i + 3]
       [] a = "mat" /\ b = "day" /\ c # "chuyen"      -> [category |-> "mat", next |-> i + 2]
       [] a = "day" /\ b = "chuyen"                   -> [category |-> "day_chuyen", next |-> i + 2]
       [] a = "lac" /\ b \in {"tay", "chan"}          -> [category |-> "lac", next |-> i + 2]
       [] a = "lac" /\ b \notin {"tay", "chan"}       -> [category |-> "lac", next |-> i + 1]
       [] a = "nhan"                                  -> [category |-> "nhan", next |-> i + 1]
       [] OTHER                                       -> [category |-> "none", next |-> i + 1]
IsCategory(toks, i) == ConsumeCategory(toks, i).category # "none"
\* detectProductCategory: the first category of a name.
DetectCategory(toks) ==
  LET at == {i \in 1..Len(toks) : IsCategory(toks, i)}
  IN IF at = {} THEN "none" ELSE ConsumeCategory(toks, CHOOSE i \in at : \A j \in at : i <= j).category

Skus == {p.sku : p \in Range(Catalog)}
Distinctive(t) == t \notin Generic \union Skus
\* The category at every token.
Categories(toks) == [i \in 1..Len(toks) |-> ConsumeCategory(toks, i)]
\* extractProductFocuses: after each category up to four distinctive words, up to the next category.
Collect(toks, cats, start) ==
  LET run[i \in start..(Len(toks) + 2), n \in 0..4] ==
        IF i > Len(toks) \/ n = 4 \/ (n > 0 /\ cats[i].category # "none") THEN [words |-> <<>>, next |-> i]
        ELSE IF toks[i] = "bach" /\ TokenAt(toks, i + 1) = "kim" THEN run[i + 2, n]
        ELSE IF ~Distinctive(toks[i]) THEN run[i + 1, n]
        ELSE [run[i + 1, n + 1] EXCEPT !.words = <<toks[i]>> \o @]
  IN run[start, 0]
Focuses(toks, cats) ==
  LET got == [i \in 1..Len(toks) |-> Collect(toks, cats, cats[i].next)]
      from[i \in 1..(Len(toks) + 2)] ==
        IF i > Len(toks) THEN <<>>
        ELSE IF cats[i].category = "none" THEN from[i + 1]
        ELSE (IF got[i].words = <<>> THEN <<>> ELSE <<[category |-> cats[i].category, tokens |-> got[i].words]>>)
               \o from[got[i].next]
  IN from[1]

\* Mutant of HasFocus: the category is not compared.
HasFocusAny(p, f) == Range(f.tokens) \subseteq Range(p.name)

\* productHasFocus: the same category, and every word of the focus in the name.
HasFocus(p, f) == DetectCategory(p.name) = f.category /\ Range(f.tokens) \subseteq Range(p.name)
Says(toks, name) ==
  \E i \in 0..(Len(toks) - Len(name)) : SubSeq(toks, i + 1, i + Len(name)) = name

\* rankWarehouseProducts: the score of a product, 0 if it is not suggested.
Score(toks, focuses, p) ==
  LET sku == p.sku \in Range(toks)
      fits == SelectSeq(focuses, LAMBDA f : HasFocus(p, f))
      best == IF fits = <<>> THEN 0 ELSE 70 + 12 * Len(Head(fits).tokens)
      whole == IF p.long /\ Says(toks, p.name) /\ (focuses = <<>> \/ fits # <<>>) THEN 95 ELSE 0
      score == Max({IF sku THEN 100 ELSE 0, best, whole})
  IN IF score < 55 \/ (~sku /\ focuses # <<>> /\ fits = <<>>) THEN 0 ELSE score
Scores(toks, focuses) == [p \in Range(Catalog) |-> Score(toks, focuses, p)]
ScoresOf(toks) == Scores(toks, Focuses(toks, Categories(toks)))
Ranked(score) ==
  LET sorted == SortSeq(SelectSeq(Catalog, LAMBDA p : score[p] > 0), LAMBDA p, q : score[p] > score[q])
  IN SubSeq(sorted, 1, IF Len(sorted) < 3 THEN Len(sorted) ELSE 3)
Rank(toks) == Ranked(ScoresOf(toks))

Init == said \in UNION {[1..n -> Words] : n \in 1..MaxWords} /\ ranked = <<>> /\ answered = FALSE
Suggest == ~answered /\ ranked' = Rank(said) /\ answered' = TRUE /\ UNCHANGED said
Next == Suggest
Spec == Init /\ [][Next]_suggestVars
-----------------------------------------------------------------------------
(* Every product suggested was named: by its SKU, or by a category and words of its own name the
   transcript has in this order, or in full; the ones named by SKU come before any other that
   the transcript matches with fewer than three words. *)
Suggested ==
  \A i \in 1..Len(ranked) :
    LET p == ranked[i] IN
    /\ \/ p.sku \in Range(said)
       \/ p.long /\ Says(said, p.name)
       \/ \E j, k \in 1..Len(said) : /\ j < k /\ IsCategory(said, j) /\ said[k] \in Range(p.name)
                                     /\ ConsumeCategory(said, j).category = DetectCategory(p.name)
    /\ \A j \in 1..(i - 1) : ranked[j].sku \in Range(said) \/ p.sku \notin Range(said)
                             \/ ScoresOf(said)[ranked[j]] >= 100
(* A product whose full name the customer wrote is suggested, or three others are. *)
NamedIsSuggested ==
  answered => \A p \in Range(Catalog) :
    p.long /\ Says(said, p.name) => p \in Range(ranked) \/ Len(ranked) = 3
=============================================================================
